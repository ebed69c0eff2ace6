------------------------------ MODULE MCLowering ------------------------------
(***************************************************************************)
(* Words of eight bits with immediates of five: every instruction, with    *)
(* every way its registers can coincide, next to every boundary.           *)
(***************************************************************************)
EXTENDS Lowering

Boundaries == {-128, -127, -17, -16, -15, -8, -1, 0, 1, 7, 8, 15, 16, 17, 24, 126, 127}

WithImmediates ==
  {Gen(op, rd, rs1, 0, imm) :
     op \in DOMAIN getMatchingNonImmediateOpcode, rd \in 0..2, rs1 \in 0..1, imm \in Boundaries}
WithRegisters ==
  {Gen(op, rd, rs1, rs2, 0) :
     op \in Range(getMatchingNonImmediateOpcode), rd \in 0..2, rs1 \in 0..2, rs2 \in 0..2}
Constants == {Gen("LI", 1, 0, 0, imm) : imm \in -128..127}

MCSources == WithImmediates \union WithRegisters \union Constants

Values == {0, 1, 15, 16, 127, 128, 130, 255}
MCRegisterFiles == {[r \in 0..2 |-> <<0, a, b>>[r + 1]] : a \in Values, b \in Values}
===============================================================================
