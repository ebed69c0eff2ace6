--------------------------------- MODULE RiscV ---------------------------------
(***************************************************************************)
(* The arithmetic of the RISC-V base and multiplication instructions, on   *)
(* words of any width, as their specification defines it: by the integers  *)
(* that words stand for.  The simulator and the code the compiler emits    *)
(* are compared with it.                                                   *)
(***************************************************************************)
EXTENDS Bytes, FiniteSetsExt

WordBits == ByteBits * WordBytes

Signed(v) == IF v >= WordSize \div 2 THEN v - WordSize ELSE v
Bool(b) == IF b THEN 1 ELSE 0

\* Bit by bit
Bit(v, k) == (v \div 2 ^ k) % 2
Bitwise2(Op(_, _), a, b) ==
  MapThenSumSet(LAMBDA k : Op(Bit(a, k), Bit(b, k)) * 2 ^ k, 0..(WordBits - 1))
BitAnd(a, b) == Bitwise2(LAMBDA x, y : x * y, a, b)
BitOr(a, b)  == Bitwise2(LAMBDA x, y : Max({x, y}), a, b)
BitXor(a, b) == Bitwise2(LAMBDA x, y : (x + y) % 2, a, b)

\* The quotient rounded towards zero and the remainder that goes with it
Magnitude(n) == IF n < 0 THEN -n ELSE n
Quotient(m, n) ==
  LET q == Magnitude(m) \div Magnitude(n) IN IF (m < 0) = (n < 0) THEN q ELSE -q
Remainder(m, n) == m - n * Quotient(m, n)

Operations ==
  {"ADD", "SUB", "AND", "OR", "XOR", "SLL", "SRL", "SRA", "SLT", "SLTU",
   "MUL", "MULH", "MULHSU", "MULHU", "DIV", "DIVU", "REM", "REMU"}

Result(op, a, b) ==
  LET s == Signed(a)
      t == Signed(b)
      shift == 2 ^ (b % WordBits)
  IN CASE op = "ADD" -> Wrap(a + b)
       [] op = "SUB" -> Wrap(a - b)
       [] op = "AND" -> BitAnd(a, b)
       [] op = "OR"  -> BitOr(a, b)
       [] op = "XOR" -> BitXor(a, b)
       [] op = "SLL" -> Wrap(a * shift)
       [] op = "SRL" -> a \div shift
       [] op = "SRA" -> Wrap(s \div shift)
       [] op = "SLT" -> Bool(s < t)
       [] op = "SLTU" -> Bool(a < b)
       [] op = "MUL" -> Wrap(a * b)
       [] op = "MULH" -> Wrap((s * t) \div WordSize)
       [] op = "MULHSU" -> Wrap((s * b) \div WordSize)
       [] op = "MULHU" -> (a * b) \div WordSize
       [] op = "DIV" -> IF b = 0 THEN WordSize - 1 ELSE Wrap(Quotient(s, t))
       [] op = "DIVU" -> IF b = 0 THEN WordSize - 1 ELSE a \div b
       [] op = "REM" -> IF b = 0 THEN a ELSE Wrap(Remainder(s, t))
       [] op = "REMU" -> IF b = 0 THEN a ELSE a % b

Conditions == {"BEQ", "BNE", "BLT", "BGE", "BLTU", "BGEU"}

Holds(op, a, b) ==
  CASE op = "BEQ" -> a = b
    [] op = "BNE" -> a # b
    [] op = "BLT" -> Signed(a) < Signed(b)
    [] op = "BGE" -> Signed(a) >= Signed(b)
    [] op = "BLTU" -> a < b
    [] op = "BGEU" -> a >= b
===============================================================================
