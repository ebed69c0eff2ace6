---------------------------------- MODULE Cpu ----------------------------------
(***************************************************************************)
(* The arithmetic of the simulator (simrv32im/cpu.c) by the fields of an   *)
(* instruction word.  Illegal stands for CPU_STATUS_ILL_INST_FAULT.        *)
(***************************************************************************)
EXTENDS Instructions

Illegal == -1
Low(x, n) == x % 2 ^ n

sext32(x, amt) ==
  LET n == amt % WordBits IN IF n = 0 \/ Bit(x, n - 1) = 0 THEN x ELSE x + WordSize - 2 ^ n

\* Fault: the sign is not extended when all bits but it are shifted out.
SRA_ButLast(x, amount) ==
  LET amt == amount % WordBits
  IN IF amt = WordBits - 1 THEN x \div 2 ^ amt ELSE sext32(x \div 2 ^ amt, WordBits - amt)

SRA(x, amount) == LET amt == amount % WordBits IN sext32(x \div 2 ^ amt, WordBits - amt)

\* Immediates as the macros of isa.h yield them
ISA_I_IMM12_SEXT(imm) == sext32(imm, ImmBits)
MinusOne == WordSize - 1
Lowest   == WordSize \div 2

\* What cpuExecuteOP puts into rd, by funct7
Basic(funct3, a, b) ==
  <<Wrap(a + b), Wrap(a * 2 ^ Low(b, ShiftBits)), Bool(Signed(a) < Signed(b)), Bool(a < b),
    BitXor(a, b), a \div 2 ^ Low(b, ShiftBits), BitOr(a, b), BitAnd(a, b)>>[funct3 + 1]

Alternate(funct3, a, b) ==
  CASE funct3 = 0 -> Wrap(a - b)
    [] funct3 = 5 -> SRA(a, Low(b, ShiftBits))
    [] OTHER -> Illegal

MulDiv(funct3, a, b) ==
  LET overflow == a = Lowest /\ b = MinusOne
  IN CASE funct3 = 0 -> Wrap(a * b)
       [] funct3 = 1 -> Wrap((Signed(a) * Signed(b)) \div WordSize)
       [] funct3 = 2 -> Wrap((Signed(a) * b) \div WordSize)
       [] funct3 = 3 -> (a * b) \div WordSize
       [] funct3 = 4 /\ b = 0 -> MinusOne
       [] funct3 = 4 /\ overflow -> Lowest
       [] funct3 = 4 /\ b # 0 /\ ~overflow -> Wrap(Quotient(Signed(a), Signed(b)))
       [] funct3 = 5 -> IF b = 0 THEN MinusOne ELSE a \div b
       [] funct3 = 6 /\ b = 0 -> a
       [] funct3 = 6 /\ overflow -> 0
       [] funct3 = 6 /\ b # 0 /\ ~overflow -> Wrap(Remainder(Signed(a), Signed(b)))
       [] funct3 = 7 -> IF b = 0 THEN a ELSE a % b

cpuExecuteOP(funct7, funct3, a, b) ==
  CASE funct7 = 0  -> Basic(funct3, a, b)
    [] funct7 = 32 -> Alternate(funct3, a, b)
    [] funct7 = 1  -> MulDiv(funct3, a, b)
    [] OTHER -> Illegal

\* What cpuExecuteOPIMM puts into rd; imm is ISA_INST_I_IMM12, its high bits are funct7.
cpuExecuteOPIMM(funct3, imm, a) ==
  LET ext    == ISA_I_IMM12_SEXT(imm)
      amount == Low(imm, ShiftBits)
      high   == imm - amount
  IN CASE funct3 = 0 -> Wrap(a + ext)
       [] funct3 = 1 -> IF high = 0 THEN Wrap(a * 2 ^ amount) ELSE Illegal
       [] funct3 = 2 -> Bool(Signed(a) < Signed(ext))
       [] funct3 = 3 -> Bool(a < imm)
       [] funct3 = 4 -> BitXor(a, ext)
       [] funct3 = 5 /\ high = 0 -> a \div 2 ^ amount
       [] funct3 = 5 /\ high = SraBit -> SRA(a, amount)
       [] funct3 = 5 /\ high \notin {0, SraBit} -> Illegal
       [] funct3 = 6 -> BitOr(a, ext)
       [] funct3 = 7 -> BitAnd(a, ext)

\* Whether cpuExecuteBRANCH takes the branch
cpuExecuteBRANCH(funct3, a, b) ==
  CASE funct3 = 0 -> Bool(a = b)
    [] funct3 = 1 -> Bool(a # b)
    [] funct3 = 4 -> Bool(Signed(a) < Signed(b))
    [] funct3 = 5 -> Bool(Signed(a) >= Signed(b))
    [] funct3 = 6 -> Bool(a < b)
    [] funct3 = 7 -> Bool(a >= b)
    [] OTHER -> Illegal

\* cpuExecuteLUI, cpuExecuteAUIPC
cpuExecuteLUI(imm) == Wrap(imm * 2 ^ ImmBits)
cpuExecuteAUIPC(pc, imm) == Wrap(pc + imm * 2 ^ ImmBits)
===============================================================================
