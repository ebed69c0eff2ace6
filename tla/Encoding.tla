------------------------------- MODULE Encoding -------------------------------
(***************************************************************************)
(* Instruction words: how the assembler packs them (asrv32im/encode.c) and *)
(* how the simulator takes them apart (simrv32im/isa.h).  A word is the    *)
(* set of its bits that are one; a negative number has all the high ones.  *)
(***************************************************************************)
EXTENDS Integers

Bits == 0..31

\* x << n and x >> n
LeftShift(x, n)  == {i \in Bits : i - n \in x}
RightShift(x, n) == {i \in Bits : i + n \in x}

-----------------------------------------------------------------------------
(* Packing.  An immediate is packed from bit 0 on; what does not fit is cut. *)

SHIFT_MASK(x, a, b) == {i \in a..(b - 1) : i - a \in x}

encPackRFormat(opcode, funct3, funct7, rd, rs1, rs2) ==
  SHIFT_MASK(opcode, 0, 7) \union SHIFT_MASK(rd, 7, 12) \union SHIFT_MASK(funct3, 12, 15)
    \union SHIFT_MASK(rs1, 15, 20) \union SHIFT_MASK(rs2, 20, 25) \union SHIFT_MASK(funct7, 25, 32)

encPackIFormat(opcode, funct3, rd, rs1, imm) ==
  SHIFT_MASK(opcode, 0, 7) \union SHIFT_MASK(rd, 7, 12) \union SHIFT_MASK(funct3, 12, 15)
    \union SHIFT_MASK(rs1, 15, 20) \union SHIFT_MASK(imm, 20, 32)

encPackSFormat(opcode, funct3, rs1, rs2, imm) ==
  SHIFT_MASK(opcode, 0, 7) \union SHIFT_MASK(imm, 7, 12) \union SHIFT_MASK(funct3, 12, 15)
    \union SHIFT_MASK(rs1, 15, 20) \union SHIFT_MASK(rs2, 20, 25)
    \union SHIFT_MASK(RightShift(imm, 5), 25, 32)

\* Fault: bits 11 and 12 in the places they have in the J format.
BFormatLikeJ(opcode, funct3, rs1, rs2, imm) ==
  SHIFT_MASK(opcode, 0, 7) \union SHIFT_MASK(RightShift(imm, 12), 7, 8)
    \union SHIFT_MASK(RightShift(imm, 1), 8, 12) \union SHIFT_MASK(funct3, 12, 15)
    \union SHIFT_MASK(rs1, 15, 20) \union SHIFT_MASK(rs2, 20, 25)
    \union SHIFT_MASK(RightShift(imm, 5), 25, 31) \union SHIFT_MASK(RightShift(imm, 11), 31, 32)

encPackBFormat(opcode, funct3, rs1, rs2, imm) ==
  SHIFT_MASK(opcode, 0, 7) \union SHIFT_MASK(RightShift(imm, 11), 7, 8)
    \union SHIFT_MASK(RightShift(imm, 1), 8, 12) \union SHIFT_MASK(funct3, 12, 15)
    \union SHIFT_MASK(rs1, 15, 20) \union SHIFT_MASK(rs2, 20, 25)
    \union SHIFT_MASK(RightShift(imm, 5), 25, 31) \union SHIFT_MASK(RightShift(imm, 12), 31, 32)

encPackUFormat(opcode, rd, imm) ==
  SHIFT_MASK(opcode, 0, 7) \union SHIFT_MASK(rd, 7, 12) \union SHIFT_MASK(imm, 12, 32)

encPackJFormat(opcode, rd, imm) ==
  SHIFT_MASK(opcode, 0, 7) \union SHIFT_MASK(rd, 7, 12)
    \union SHIFT_MASK(RightShift(imm, 12), 12, 20) \union SHIFT_MASK(RightShift(imm, 11), 20, 21)
    \union SHIFT_MASK(RightShift(imm, 1), 21, 31) \union SHIFT_MASK(RightShift(imm, 20), 31, 32)

-----------------------------------------------------------------------------
(* Taking apart *)

BITS(x, a, b) == {i \in 0..(b - a - 1) : i + a \in x}

\* sext32 of a number of n bits
SEXT(x, n) == IF n - 1 \in x THEN x \union n..31 ELSE x

ISA_INST_OPCODE(w) == BITS(w, 0, 7)
ISA_INST_RD(w)     == BITS(w, 7, 12)
ISA_INST_FUNCT3(w) == BITS(w, 12, 15)
ISA_INST_RS1(w)    == BITS(w, 15, 20)
ISA_INST_RS2(w)    == BITS(w, 20, 25)
ISA_INST_FUNCT7(w) == BITS(w, 25, 32)

ISA_INST_I_IMM12(w)      == BITS(w, 20, 32)
ISA_INST_I_IMM12_SEXT(w) == SEXT(ISA_INST_I_IMM12(w), 12)
ISA_INST_S_IMM12_SEXT(w) == SEXT(BITS(w, 7, 12) \union LeftShift(BITS(w, 25, 32), 5), 12)
ISA_INST_B_IMM13_SEXT(w) ==
  SEXT(LeftShift(BITS(w, 7, 8), 11) \union LeftShift(BITS(w, 8, 12), 1)
         \union LeftShift(BITS(w, 25, 31), 5) \union LeftShift(BITS(w, 31, 32), 12), 13)
ISA_INST_U_IMM20(w) == BITS(w, 12, 32)
ISA_INST_J_IMM21_SEXT(w) ==
  SEXT(LeftShift(BITS(w, 12, 20), 12) \union LeftShift(BITS(w, 20, 21), 11)
         \union LeftShift(BITS(w, 21, 31), 1) \union LeftShift(BITS(w, 31, 32), 20), 21)

-----------------------------------------------------------------------------
\* x as a number that n bits hold, the highest one being its sign
Fits(x, n) == x \subseteq Bits /\ \A i \in n..31 : i \in x <=> n - 1 \in x
===============================================================================
