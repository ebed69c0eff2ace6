------------------------------- MODULE MCMachine -------------------------------
(***************************************************************************)
(* Words of two bytes of four bits, so that instructions take two          *)
(* addresses; the stack ends at 64 and grows by eight bytes.              *)
(***************************************************************************)
EXTENDS Machine

CONSTANTS LinkFromLink  \* whether jalr may write the register it jumps through

I(op, rd, rs1, rs2, imm) ==
  [op |-> op, rd |-> rd, rs1 |-> rs1, rs2 |-> rs2, imm |-> Wrap(imm), size |-> 2, signed |-> FALSE]
Narrow(i, signed) == [i EXCEPT !.size = 1, !.signed = signed]

ADDI(rd, rs1, imm)  == I("ADDI", rd, rs1, ZERO, imm)
LW(rd, imm, rs1)    == I("LOAD", rd, rs1, ZERO, imm)
LB(rd, imm, rs1)    == Narrow(LW(rd, imm, rs1), TRUE)
LBU(rd, imm, rs1)   == Narrow(LW(rd, imm, rs1), FALSE)
SW(rs2, imm, rs1)   == I("STORE", ZERO, rs1, rs2, imm)
SB(rs2, imm, rs1)   == Narrow(SW(rs2, imm, rs1), FALSE)
BEQZ(rs1, imm)      == I("BEQ", ZERO, rs1, ZERO, imm)
JAL(rd, imm)        == I("JAL", rd, ZERO, ZERO, imm)
JALR(rd, imm, rs1)  == I("JALR", rd, rs1, ZERO, imm)
ECALL               == I("ECALL", ZERO, ZERO, ZERO, 0)
EBREAK              == I("EBREAK", ZERO, ZERO, ZERO, 0)
ILLEGAL             == I("ILLEGAL", ZERO, ZERO, ZERO, 0)
Exit(code)          == <<ADDI(A0, ZERO, code), ADDI(A7, ZERO, 93), ECALL>>

Sources ==
  << \* a call, a return, and the code of another exit
    <<JAL(RA, 8), ADDI(A7, ZERO, 10), ECALL, ILLEGAL, ADDI(A0, A0, 7), JALR(ZERO, 0, RA)>>,
    \* recursion through the stack
    <<ADDI(A0, ZERO, 2), JAL(RA, 6), ADDI(A7, ZERO, 93), ECALL,
      SW(RA, 0, SP), ADDI(SP, SP, -3), BEQZ(A0, 6), ADDI(A0, A0, -1), JAL(RA, -8),
      ADDI(SP, SP, 3), LW(RA, 0, SP), JALR(ZERO, 0, RA)>>,
    \* input echoed until it is zero
    <<ADDI(A7, ZERO, 5), ECALL, BEQZ(A0, 8), ADDI(A7, ZERO, 1), ECALL, JAL(ZERO, -10)>> \o Exit(3),
    \* break points in the code, in a loop; then an illegal instruction
    <<ADDI(A0, ZERO, 2), EBREAK, ADDI(A0, A0, -1), BEQZ(A0, 4), JAL(ZERO, -6), EBREAK, EBREAK, ILLEGAL>>,
    \* the stack grows until it meets the program
    <<SW(SP, 0, SP), LB(A0, 0, SP), ADDI(SP, SP, -6), JAL(ZERO, -6)>>,
    \* words across the bottom of the stack, far below it, and in a page below it
    <<ADDI(A0, ZERO, 55), SB(A0, 0, A0), LW(A7, 0, A0)>>,
    <<SB(SP, -20, SP), LBU(A0, 0, SP)>>,
    <<LBU(A0, -13, SP), SB(SP, -13, SP), LB(A0, -13, SP)>> \o Exit(1),
    \* a program that changes itself, and one that leaves itself
    <<LW(A0, 10, ZERO), SW(A0, 20, ZERO), ADDI(A0, ZERO, 1), EBREAK>> \o Exit(2),
    <<ADDI(A7, ZERO, 10), JALR(RA, 55, ZERO)>>,
    <<ADDI(A7, ZERO, 12), ECALL, ADDI(A7, ZERO, 2), ECALL>> >>

LinkSources == << <<ADDI(RA, ZERO, 20), JALR(RA, 2, RA), ECALL, ADDI(A7, ZERO, 10), ECALL>> >>

\* An instruction is encoded by a place where it occurs among all programs.
Code == IF LinkFromLink THEN LinkSources ELSE Sources
Instructions == FlattenSeq(Code)
MCDecode(w) == IF w \in DOMAIN Instructions THEN Instructions[w] ELSE ILLEGAL

Encoded(i) == IF i = ILLEGAL THEN 0 ELSE CHOOSE w \in DOMAIN Instructions : Instructions[w] = i
BytesOf(p) ==
  [k \in 1..(WordBytes * Len(p)) |-> ByteOf(Encoded(p[(k + 1) \div WordBytes]), (k + 1) % WordBytes)]

\* The program at 14; data at 8 and, for some, in a page the stack may grow to.
MCPrograms ==
  {[segments |-> <<[base |-> 14, bytes |-> BytesOf(p)], [base |-> 8, bytes |-> <<1, 0, 9, 2>>]>> \o more,
    entry |-> 14] :
     p \in Range(Code), more \in {<<>>, <<[base |-> 42, bytes |-> <<15>>]>>}}

\* The programs of the run that implements Hart are those the theorem is about.
ASSUME LinksApart == ~LinkFromLink => LinksThroughOthers
===============================================================================
