---------------------------- MODULE InstructionProofs ----------------------------
(***************************************************************************)
(* Instructions on their way from the compiler to the simulator.  Whatever *)
(* arithmetic the compiler asks for, what the passes leave of it is        *)
(* something the assembler accepts, for every width of words and of        *)
(* immediates and every constant; and what the assembler packs into a word *)
(* the simulator takes out of it.                                          *)
(***************************************************************************)
EXTENDS Lowering, Encoding, TLAPS

\* What an instruction may be when the first pass has gone over it, or made it
Lowered ==
  [opcode : MachineOperations \union {"MULI", "DIVI", "REMI"}, rd : Int, rs1 : Int, rs2 : Int, imm : Int,
   label : {0}, addressParam : {0}]
\* ... and before it
Generated ==
  [opcode : Arithmetic, rd : Int, rs1 : Int, rs2 : Int, imm : Int, label : {0}, addressParam : {0}]

\* Behind curi the pass has been, from curi on it has not.
Behind == 1..(curi - 1)
Ahead  == curi..Len(instructions)
IInv ==
  /\ curi \in Nat \ {0} /\ curi <= Len(instructions) + 1
  /\ nextRegister \in Int
  /\ \/ /\ pass = "fixPseudoInstructions"
        /\ instructions \in Seq(Generated \union Lowered)
        /\ \A k \in Behind : instructions[k] \in Lowered
        /\ \A k \in Ahead : instructions[k] \in Generated
     \/ /\ pass = "fixUnsupportedImmediates"
        /\ instructions \in Seq(Lowered)
        /\ \A k \in Behind : IsPrintable(instructions[k])
     \/ /\ pass = "done"
        /\ instructions \in Seq(Lowered)
        /\ \A k \in DOMAIN instructions : IsPrintable(instructions[k])

-----------------------------------------------------------------------------
(* Widths *)

LEMMA Widths ==
  /\ HalfImm \in Nat \ {0}
  /\ WordSize \in Nat \ {0}
  /\ WordBits \in Nat \ {0}
<1>1. HalfImm \in Nat \ {0}
  BY PowersAssumption DEF HalfImm
<1>2. WordSize \in Nat \ {0}
  <2> DEFINE h == 2 ^ (ImmBits - 1)
             u == 2 ^ (WordBits - ImmBits)
  <2>1. h \in Nat \ {0} /\ u \in Nat \ {0} /\ WordSize = 2 * h * u
    BY PowersAssumption
  <2> HIDE DEF h, u
  <2>2. \A m, n \in Nat \ {0} : 2 * m * n \in Nat \ {0}
    OBVIOUS
  <2> QED  BY <2>1, <2>2
<1>3. WordBits \in Nat \ {0}
  BY WidthAssumption DEF WordBits
<1> QED  BY <1>1, <1>2, <1>3

LEMMA Int32Int == ASSUME NEW n \in Int  PROVE Int32(n) \in Int
<1>1. Wrap(n) \in Int /\ WordSize \in Int /\ WordSize \div 2 \in Int
  BY Widths DEF Wrap
<1> QED  BY <1>1 DEF Int32, Signed

-----------------------------------------------------------------------------
(* The passes, on one instruction *)

LEMMA GenLowered ==
  ASSUME NEW op \in MachineOperations \union {"MULI", "DIVI", "REMI"},
         NEW rd \in Int, NEW rs1 \in Int, NEW rs2 \in Int, NEW imm \in Int
  PROVE  Gen(op, rd, rs1, rs2, imm) \in Lowered
BY DEF Gen, Lowered

\* Comparisons but "less", and subtractions of constants, are gone after the first pass.
LEMMA PseudoLowered ==
  ASSUME NEW i \in Generated
  PROVE  fixPseudoInstruction(i) \in Seq(Lowered)
<1> DEFINE op == i.opcode
<1>1. i.rd \in Int /\ i.rs1 \in Int /\ i.rs2 \in Int /\ i.imm \in Int /\ op \in Arithmetic
  BY DEF Generated
<1>2. Int32(-i.imm) \in Int /\ Int32(i.imm + 1) \in Int
  BY <1>1, Int32Int
<1>3. \A o \in MachineOperations \union {"MULI", "DIVI", "REMI"} :
        /\ [i EXCEPT !.opcode = o] \in Lowered
        /\ [i EXCEPT !.opcode = o, !.imm = Int32(-i.imm)] \in Lowered
        /\ [i EXCEPT !.opcode = o, !.imm = Int32(i.imm + 1)] \in Lowered
        /\ [i EXCEPT !.opcode = o, !.rs1 = i.rs2, !.rs2 = i.rs1] \in Lowered
  BY <1>1, <1>2 DEF Generated, Lowered
<1>4. {"ADD", "ADDI", "SUB", "SLT", "SLTU", "SLTI", "SLTIU", "XORI", "LI"} \subseteq MachineOperations
  BY DEF MachineOperations, Operations, RegisterForm
<1>5. Gen("SUB", i.rd, i.rs1, i.rs2, 0) \in Lowered /\ Gen("ADDI", i.rd, i.rs1, 0, Int32(-i.imm)) \in Lowered
      /\ Gen("XORI", i.rd, i.rd, 0, 1) \in Lowered /\ Gen("LI", i.rd, 0, 0, 0) \in Lowered
      /\ Gen("LI", i.rd, 0, 0, 1) \in Lowered
  BY <1>1, <1>2, <1>4, GenLowered
<1>6. TestZero(i) \in Lowered
  BY <1>1, <1>4, GenLowered DEF TestZero, REG_0
<1>7. \A o \in DOMAIN Less : Less[o] \in MachineOperations
  BY <1>4 DEF Less
<1>8. op \in DOMAIN Less => /\ [i EXCEPT !.opcode = Less[op]] \in Lowered
                           /\ UpToNext(i) \in Lowered
                           /\ WithSwappedSources(i) \in Lowered
  BY <1>3, <1>7 DEF UpToNext, WithSwappedSources
<1>9. CASE op = "SUBI"
  <2> DEFINE c == [i EXCEPT !.opcode = "ADDI", !.imm = Int32(-i.imm)]
  <2>1. fixPseudoInstruction(i) = <<c>>
    BY <1>9 DEF fixPseudoInstruction
  <2>2. c \in Lowered
    BY <1>3, <1>4
  <2> QED  BY <2>1, <2>2
<1>10. CASE op \in {"SEQ", "SNE", "SEQI", "SNEI"}
  BY <1>5, <1>6, <1>10 DEF fixPseudoInstruction
<1>11. CASE op \in {"SGE", "SGEU", "SGEI", "SGEIU"}
  BY <1>5, <1>8, <1>11 DEF fixPseudoInstruction, Less
<1>12. CASE op \in {"SGTI", "SGTIU"}
  BY <1>5, <1>8, <1>12 DEF fixPseudoInstruction, Less
<1>13. CASE op \in {"SLEI", "SLEIU"}
  BY <1>5, <1>8, <1>13 DEF fixPseudoInstruction, Less
<1>14. CASE op \in {"SLE", "SLEU", "SGT", "SGTU"}
  BY <1>5, <1>8, <1>14 DEF fixPseudoInstruction, Less
<1>15. CASE op \notin {"SUBI"} \union {"SEQ", "SNE", "SEQI", "SNEI"} \union DOMAIN Less
  <2>1. op \in MachineOperations \union {"MULI", "DIVI", "REMI"}
    BY <1>1, <1>15 DEF Arithmetic, Range, getMatchingNonImmediateOpcode, MachineOperations, Operations, RegisterForm, Less
  <2>2. i \in Lowered
    BY <2>1 DEF Generated, Lowered
  <2>3. fixPseudoInstruction(i) = <<i>>
    BY <1>15 DEF fixPseudoInstruction, Less
  <2> QED  BY <2>2, <2>3
<1> QED  BY <1>9, <1>10, <1>11, <1>12, <1>13, <1>14, <1>15 DEF Less

\* What the second pass leaves has an immediate that fits, or none.
LEMMA ImmediateFixed ==
  ASSUME NEW i \in Lowered, NEW reg \in Int
  PROVE  /\ fixUnsupportedImmediate(i, reg) \in Seq(Lowered)
         /\ \A k \in DOMAIN fixUnsupportedImmediate(i, reg) : IsPrintable(fixUnsupportedImmediate(i, reg)[k])
<1> DEFINE op == i.opcode
           code == fixUnsupportedImmediate(i, reg)
           Shifts == {"SLLI", "SRLI", "SRAI"}
<1>1. i.rd \in Int /\ i.rs1 \in Int /\ i.rs2 \in Int /\ i.imm \in Int
      /\ op \in MachineOperations \union {"MULI", "DIVI", "REMI"}
  BY DEF Lowered
<1>2. isInt12(i.imm) <=> i.imm \in Immediate
  BY <1>1, Widths DEF isInt12, Immediate
<1>3. ASSUME NEW c \in Lowered, c.opcode \in Operations \union {"LI"}  PROVE IsPrintable(c)
  BY <1>3 DEF IsPrintable, MachineOperations, Operations, RegisterForm
<1>4. ASSUME NEW c, code = <<c>>, c \in Lowered, IsPrintable(c)
      PROVE  code \in Seq(Lowered) /\ \A k \in DOMAIN code : IsPrintable(code[k])
  <2> HIDE DEF code
  <2> QED  BY <1>4
<1>5. ASSUME NEW c, NEW d, code = <<c, d>>, c \in Lowered, IsPrintable(c), d \in Lowered, IsPrintable(d)
      PROVE  code \in Seq(Lowered) /\ \A k \in DOMAIN code : IsPrintable(code[k])
  <2> HIDE DEF code
  <2>1. code \in Seq(Lowered) /\ \A k \in DOMAIN code : code[k] = c \/ code[k] = d
    BY <1>5
  <2> QED  BY <1>5, <2>1
<1>6. "LI" \in MachineOperations /\ Operations \subseteq MachineOperations
  BY DEF MachineOperations
<1>7. CASE ~isImmediateArgumentInstrOpcode(op)
  <2>1. code = <<i>>
    BY <1>7 DEF fixUnsupportedImmediate, isImmediateArgumentInstrOpcode, getMatchingNonImmediateOpcode
  <2>2. op \in Operations \union {"LI"}
    BY <1>1, <1>7 DEF isImmediateArgumentInstrOpcode, getMatchingNonImmediateOpcode, MachineOperations, RegisterForm
  <2> QED  BY <1>3, <1>4, <2>1, <2>2
<1>8. CASE op = "ADDI" /\ i.rs1 = REG_0
  <2>1. code = IF isInt12(i.imm) THEN <<i>> ELSE <<Gen("LI", i.rd, 0, 0, i.imm)>>
    BY <1>8 DEF fixUnsupportedImmediate, isImmediateArgumentInstrOpcode, getMatchingNonImmediateOpcode
  <2>2. CASE isInt12(i.imm)
    <3>1. IsPrintable(i)
      BY <1>2, <1>8, <2>2 DEF IsPrintable, MachineOperations, RegisterForm
    <3> QED  BY <1>4, <2>1, <2>2, <3>1
  <2>3. CASE ~isInt12(i.imm)
    <3> DEFINE c == Gen("LI", i.rd, 0, 0, i.imm)
    <3>1. c \in Lowered /\ c.opcode = "LI"
      BY <1>1, <1>6 DEF Gen, Lowered
    <3>2. IsPrintable(c)
      BY <1>3, <3>1
    <3> QED  BY <1>4, <2>1, <2>3, <3>1, <3>2
  <2> QED  BY <2>2, <2>3
<1>9. CASE /\ isImmediateArgumentInstrOpcode(op) /\ ~(op = "ADDI" /\ i.rs1 = REG_0)
           /\ op \in {"MULI", "DIVI", "REMI"} \/ ~isInt12(i.imm)
  <2> DEFINE o == getMatchingNonImmediateOpcode[op]
             c == Gen("LI", reg, 0, 0, i.imm)
             d == Gen(o, i.rd, i.rs1, reg, 0)
  <2>1. code = <<c, d>>
    BY <1>9 DEF fixUnsupportedImmediate
  <2>2. op \in DOMAIN RegisterForm \union {"MULI", "DIVI", "REMI"}
    BY <1>1, <1>9 DEF isImmediateArgumentInstrOpcode, getMatchingNonImmediateOpcode, MachineOperations, Operations
  <2>3. o \in Operations
    BY <2>2 DEF getMatchingNonImmediateOpcode, RegisterForm, Operations
  <2> HIDE DEF o
  <2>4. c \in Lowered /\ d \in Lowered /\ c.opcode = "LI" /\ d.opcode = o
    BY <1>1, <1>6, <2>3 DEF Gen, Lowered
  <2>5. IsPrintable(c) /\ IsPrintable(d)
    BY <1>3, <2>3, <2>4
  <2> QED  BY <1>5, <2>1, <2>4, <2>5
<1>10. CASE /\ isImmediateArgumentInstrOpcode(op) /\ ~(op = "ADDI" /\ i.rs1 = REG_0)
            /\ op \in Shifts /\ isInt12(i.imm)
  <2> DEFINE c == [i EXCEPT !.imm = i.imm % WordBits]
  <2>1. code = <<c>>
    BY <1>10 DEF fixUnsupportedImmediate
  <2>2. i.imm % WordBits \in Amount
    BY <1>1, Widths DEF Amount
  <2>3. c \in Lowered /\ c.imm \in Amount /\ c.opcode = op
    BY <2>2 DEF Lowered, Amount
  <2>4. IsPrintable(c)
    BY <1>10, <2>3 DEF IsPrintable, MachineOperations, RegisterForm
  <2> QED  BY <1>4, <2>1, <2>3, <2>4
<1>11. CASE /\ isImmediateArgumentInstrOpcode(op) /\ ~(op = "ADDI" /\ i.rs1 = REG_0)
            /\ op \notin Shifts /\ op \notin {"MULI", "DIVI", "REMI"} /\ isInt12(i.imm)
  <2>1. code = <<i>>
    BY <1>11 DEF fixUnsupportedImmediate
  <2>2. IsPrintable(i)
    BY <1>1, <1>2, <1>11 DEF IsPrintable
  <2> QED  BY <1>4, <2>1, <2>2
<1> QED  BY <1>7, <1>8, <1>9, <1>10, <1>11

-----------------------------------------------------------------------------
(* The passes, on the list *)

LEMMA Joined ==
  ASSUME NEW S, NEW a \in Seq(S), NEW b \in Seq(S), NEW m \in Nat, m = Len(a), NEW n \in Nat, n = Len(b),
         NEW t, t = a \o b
  PROVE  /\ t \in Seq(S)
         /\ Len(t) = m + n
         /\ \A k \in 1..m : t[k] = a[k]
         /\ \A k \in 1..n : t[m + k] = b[k]
OBVIOUS

\* The list in which code takes the place of the instruction at c
Spliced(s, c, code) == SubSeq(s, 1, c - 1) \o code \o SubSeq(s, c + 1, Len(s))

\* What is before the instruction that gives way stays, what is behind it moves.
LEMMA Replaced ==
  ASSUME NEW S, NEW s \in Seq(S), NEW n \in Nat, n = Len(s), NEW c \in 1..n,
         NEW code \in Seq(S), NEW m \in Nat, m = Len(code), NEW t, t = Spliced(s, c, code)
  PROVE  /\ t \in Seq(S)
         /\ Len(t) = n - 1 + m
         /\ \A k \in 1..(c - 1) : t[k] = s[k]
         /\ \A k \in 1..m : t[c - 1 + k] = code[k]
         /\ \A k \in (c + m)..Len(t) : t[k] = s[k + 1 - m] /\ k + 1 - m \in (c + 1)..n
<1> DEFINE q == c - 1
           r == n - c
           p == q + m
<1>1. PICK a : a = SubSeq(s, 1, c - 1)
  OBVIOUS
<1>2. PICK b : b = SubSeq(s, c + 1, n)
  OBVIOUS
<1>3. a \in Seq(S) /\ q = Len(a) /\ q \in Nat /\ \A k \in 1..q : a[k] = s[k]
  BY <1>1
<1>4. b \in Seq(S) /\ r = Len(b) /\ r \in Nat /\ \A k \in 1..r : b[k] = s[k + c]
  BY <1>2
<1>5. PICK ac : ac = a \o code
  OBVIOUS
<1>6. t = ac \o b /\ p = q + m /\ p \in Nat
  BY <1>1, <1>2, <1>5 DEF Spliced
<1> HIDE DEF q, r, p
<1>7. ac \in Seq(S) /\ Len(ac) = p /\ (\A k \in 1..q : ac[k] = a[k]) /\ (\A k \in 1..m : ac[q + k] = code[k])
  BY <1>3, <1>5, <1>6, Joined
<1>8. t \in Seq(S) /\ Len(t) = p + r /\ (\A k \in 1..p : t[k] = ac[k]) /\ (\A k \in 1..r : t[p + k] = b[k])
  <2>1. p = Len(ac) /\ ac \in Seq(S) /\ b \in Seq(S) /\ t = ac \o b /\ r = Len(b)
    BY <1>4, <1>6, <1>7
  <2>2. t \in Seq(S)
    BY <2>1
  <2>3. Len(t) = Len(ac) + Len(b)
    BY <2>1
  <2>4. \A k \in 1..p : t[k] = ac[k]
    BY <1>4, <1>6, <1>7, <2>1, Joined
  <2>5. \A k \in 1..r : t[p + k] = b[k]
    BY <1>4, <1>6, <1>7, <2>1, Joined
  <2> QED  BY <1>4, <2>1, <2>2, <2>3, <2>4, <2>5
<1>9. Len(t) = n - 1 + m
  BY <1>8 DEF p, q, r
<1>10. ASSUME NEW k \in (c + m)..Len(t)
       PROVE  t[k] = s[k + 1 - m] /\ k + 1 - m \in (c + 1)..n
  <2> DEFINE j == k - p
  <2>1. j \in 1..r /\ p + j = k /\ j + c = k + 1 - m /\ k + 1 - m \in (c + 1)..n
    BY <1>9 DEF p, q, r
  <2> HIDE DEF j
  <2>2. t[k] = b[j]
    BY <1>8, <2>1
  <2>3. b[j] = s[j + c]
    BY <1>4, <2>1
  <2> QED  BY <2>1, <2>2, <2>3
<1>11. ASSUME NEW k \in 1..(c - 1)  PROVE t[k] = s[k]
  <2>1. k \in 1..p /\ k \in 1..q
    BY DEF p, q
  <2> QED  BY <1>3, <1>7, <1>8, <2>1
<1>12. ASSUME NEW k \in 1..m  PROVE t[c - 1 + k] = code[k]
  <2>1. q + k \in 1..p /\ q + k = c - 1 + k
    BY DEF p, q
  <2> QED  BY <1>7, <1>8, <2>1
<1> QED  BY <1>8, <1>9, <1>10, <1>11, <1>12

-----------------------------------------------------------------------------
(* The theorem *)

LEMMA InitInv == Init => IInv
<1> SUFFICES ASSUME Init  PROVE IInv
  OBVIOUS
<1>1. source = Gen(source.opcode, source.rd, source.rs1, source.rs2, source.imm)
      /\ source.opcode \in Arithmetic /\ source.imm \in Int
      /\ source.rd \in Int /\ source.rs1 \in Int /\ source.rs2 \in Int
  BY SourcesAssumption DEF Init
<1>2. source \in Generated
  BY <1>1 DEF Gen, Generated
<1>3. nextRegister \in Int
  BY LoweringAssumption DEF Init
<1> QED  BY <1>2, <1>3 DEF Init, IInv, Behind, Ahead

LEMMA FixPseudoKeeps == ASSUME IInv, FixPseudo  PROVE IInv'
<1> DEFINE S == Generated \union Lowered
           i == instructions[curi]
           code == fixPseudoInstruction(i)
<1>1. instructions \in Seq(S) /\ Len(instructions) \in Nat /\ curi \in 1..Len(instructions)
      /\ (\A k \in 1..(curi - 1) : instructions[k] \in Lowered)
      /\ (\A k \in curi..Len(instructions) : instructions[k] \in Generated)
  BY DEF IInv, FixPseudo, Behind, Ahead
<1>2. code \in Seq(Lowered)
  BY <1>1, PseudoLowered
<1>3. code \in Seq(S) /\ Len(code) \in Nat
  BY <1>2
<1>4. instructions' = Spliced(instructions, curi, code)
      /\ curi' = curi + Len(code)
  BY DEF FixPseudo, Replace, Spliced
<1> HIDE DEF code, S
<1>5. /\ instructions' \in Seq(S)
      /\ Len(instructions') = Len(instructions) - 1 + Len(code)
      /\ \A k \in 1..(curi - 1) : instructions'[k] = instructions[k]
      /\ \A k \in 1..Len(code) : instructions'[curi - 1 + k] = code[k]
      /\ \A k \in (curi + Len(code))..Len(instructions') :
           instructions'[k] = instructions[k + 1 - Len(code)] /\ k + 1 - Len(code) \in (curi + 1)..Len(instructions)
  BY <1>1, <1>3, <1>4, Replaced
<1>6. ASSUME NEW k \in 1..(curi' - 1)  PROVE instructions'[k] \in Lowered
  <2>1. CASE k < curi
    BY <1>1, <1>5, <2>1
  <2>2. CASE k >= curi
    <3>1. k - curi + 1 \in 1..Len(code) /\ curi - 1 + (k - curi + 1) = k
      BY <1>1, <1>3, <1>4, <2>2
    <3>2. instructions'[k] = code[k - curi + 1]
      BY <1>5, <3>1
    <3> QED  BY <1>2, <3>1, <3>2
  <2> QED  BY <1>1, <2>1, <2>2
<1>7. \A k \in curi'..Len(instructions') : instructions'[k] \in Generated
  <2> TAKE k \in curi'..Len(instructions')
  <2>1. k \in (curi + Len(code))..Len(instructions')
    BY <1>4
  <2>2. instructions'[k] = instructions[k + 1 - Len(code)] /\ k + 1 - Len(code) \in (curi + 1)..Len(instructions)
    BY <1>5, <2>1
  <2>3. k + 1 - Len(code) \in curi..Len(instructions)
    BY <1>1, <2>2
  <2> QED  BY <1>1, <2>2, <2>3
<1>8. curi' \in Nat \ {0} /\ curi' <= Len(instructions') + 1
  BY <1>1, <1>3, <1>4, <1>5
<1>9. nextRegister' \in Int /\ pass' = "fixPseudoInstructions"
  BY DEF IInv, FixPseudo
<1> QED  BY <1>5, <1>6, <1>7, <1>8, <1>9 DEF IInv, Behind, Ahead, S

LEMMA FixImmediateKeeps == ASSUME IInv, FixImmediate  PROVE IInv'
<1> DEFINE i == instructions[curi]
           code == fixUnsupportedImmediate(i, nextRegister)
<1>1. instructions \in Seq(Lowered) /\ Len(instructions) \in Nat /\ curi \in 1..Len(instructions) /\ nextRegister \in Int
      /\ (\A k \in 1..(curi - 1) : IsPrintable(instructions[k]))
  BY DEF IInv, FixImmediate, Behind
<1>2. code \in Seq(Lowered) /\ Len(code) \in Nat /\ \A k \in DOMAIN code : IsPrintable(code[k])
  <2>1. i \in Lowered
    BY <1>1
  <2>2. code \in Seq(Lowered) /\ \A k \in DOMAIN code : IsPrintable(code[k])
    BY <1>1, <2>1, ImmediateFixed, Zenon
  <2> QED  BY <2>2
<1>3. instructions' = Spliced(instructions, curi, code)
      /\ curi' = curi + Len(code)
      /\ nextRegister' \in Int /\ pass' = "fixUnsupportedImmediates"
  BY <1>1 DEF FixImmediate, Replace, Spliced
<1> HIDE DEF code
<1>4. /\ instructions' \in Seq(Lowered)
      /\ Len(instructions') = Len(instructions) - 1 + Len(code)
      /\ \A k \in 1..(curi - 1) : instructions'[k] = instructions[k]
      /\ \A k \in 1..Len(code) : instructions'[curi - 1 + k] = code[k]
  <2>1. instructions' \in Seq(Lowered) /\ Len(instructions') = Len(instructions) - 1 + Len(code)
    BY <1>1, <1>2, <1>3, Replaced
  <2>2. \A k \in 1..(curi - 1) : instructions'[k] = instructions[k]
    BY <1>1, <1>2, <1>3, Replaced
  <2>3. \A k \in 1..Len(code) : instructions'[curi - 1 + k] = code[k]
    BY <1>1, <1>2, <1>3, Replaced
  <2> QED  BY <2>1, <2>2, <2>3
<1>5. ASSUME NEW k \in 1..(curi' - 1)  PROVE IsPrintable(instructions'[k])
  <2>1. CASE k < curi
    BY <1>1, <1>4, <2>1
  <2>2. CASE k >= curi
    <3>1. k - curi + 1 \in 1..Len(code) /\ curi - 1 + (k - curi + 1) = k
      BY <1>1, <1>2, <1>3, <2>2
    <3>2. instructions'[k] = code[k - curi + 1]
      BY <1>4, <3>1
    <3> QED  BY <1>2, <3>1, <3>2
  <2> QED  BY <1>1, <2>1, <2>2
<1>6. curi' \in Nat \ {0} /\ curi' <= Len(instructions') + 1
  BY <1>1, <1>2, <1>3, <1>4
<1> QED  BY <1>3, <1>4, <1>5, <1>6 DEF IInv, Behind, Ahead

LEMMA NextPassKeeps == ASSUME IInv, NextPass  PROVE IInv'
<1>1. UNCHANGED <<instructions, nextRegister>> /\ curi' = 1 /\ Len(instructions) \in Nat
  BY DEF IInv, NextPass
<1>2. CASE pass = "fixPseudoInstructions"
  <2>1. \A k \in DOMAIN instructions : instructions[k] \in Lowered
    BY <1>2 DEF IInv, NextPass, Behind
  <2>2. instructions \in Seq(Lowered)
    BY <1>2, <2>1 DEF IInv
  <2>3. pass' = "fixUnsupportedImmediates"
    BY <1>2 DEF NextPass
  <2> QED  BY <1>1, <2>2, <2>3 DEF IInv, Behind
<1>3. CASE pass = "fixUnsupportedImmediates"
  <2>1. \A k \in DOMAIN instructions : IsPrintable(instructions[k])
    BY <1>3 DEF IInv, NextPass, Behind
  <2>2. pass' = "done"
    BY <1>3 DEF NextPass
  <2> QED  BY <1>1, <1>3, <2>1, <2>2 DEF IInv, Behind
<1> QED  BY <1>2, <1>3 DEF IInv, NextPass

\* What the compiler prints of arithmetic are machine instructions with immediates that the
\* assembler takes (target_transform.c:141-279, the test of expectImmediate in
\* asrv32im/parser.c:198), whatever registers and constants the program has.
THEOREM PrintsOnlyMachineInstructions == Spec => []Printable
<1>1. IInv /\ [Next]_vars => IInv'
  <2> SUFFICES ASSUME IInv, [Next]_vars  PROVE IInv'
    OBVIOUS
  <2>1. CASE UNCHANGED vars
    BY <2>1 DEF vars, IInv, Behind, Ahead, IsPrintable
  <2> QED  BY <2>1, FixPseudoKeeps, FixImmediateKeeps, NextPassKeeps DEF Next, Finished
<1>2. IInv => Printable
  BY DEF IInv, Printable
<1> QED  BY InitInv, <1>1, <1>2, PTL DEF Spec

-----------------------------------------------------------------------------
(* What the assembler packs the simulator unpacks, for every word.         *)

\* The low n bits of a number, extended, are the number if it fits.
LEMMA SignExtension ==
  ASSUME NEW n \in 1..32, NEW x, Fits(x, n), NEW raw, raw = {i \in 0..(n - 1) : i \in x}
  PROVE  SEXT(raw, n) = x
<1>1. n \in Int /\ 1 <= n /\ n <= 32
  OBVIOUS
<1>2. x \subseteq 0..31 /\ (\A i \in n..31 : i \in x <=> n - 1 \in x)
  BY DEF Fits, Bits
<1>3. \A i : i \in raw <=> i \in Int /\ 0 <= i /\ i <= n - 1 /\ i \in x
  BY <1>1
<1>4. \A i \in x : i \in Int /\ 0 <= i /\ i <= 31
  BY <1>2
<1>5. \A i : i \in SEXT(raw, n) => i \in x
  BY <1>1, <1>2, <1>3 DEF SEXT
<1>6. ASSUME NEW i \in x  PROVE i \in SEXT(raw, n)
  <2>1. CASE i <= n - 1
    BY <1>3, <1>4, <2>1 DEF SEXT
  <2>2. CASE i > n - 1
    <3>1. i \in n..31
      BY <1>1, <1>4, <2>2
    <3>2. n - 1 \in x
      BY <1>2, <3>1
    <3>3. n - 1 \in raw
      BY <1>1, <1>3, <3>2
    <3> QED  BY <3>1, <3>3 DEF SEXT
  <2> QED  BY <1>1, <1>4, <2>1, <2>2
<1> QED  BY <1>5, <1>6

\* An immediate of 12 bits, as most instructions have (encode.c:38-48, isa.h:123-124),
\* comes back unchanged.
THEOREM Immediate12 ==
  ASSUME NEW opcode, NEW funct3, NEW rd, NEW rs1, NEW imm, Fits(imm, 12)
  PROVE  ISA_INST_I_IMM12_SEXT(encPackIFormat(opcode, funct3, rd, rs1, imm)) = imm
<1> DEFINE w == encPackIFormat(opcode, funct3, rd, rs1, imm)
           raw == ISA_INST_I_IMM12(w)
<1>1. raw = {i \in 0..(12 - 1) : i \in imm}
  BY DEF ISA_INST_I_IMM12, encPackIFormat, SHIFT_MASK, BITS, Bits
<1>2. ISA_INST_I_IMM12_SEXT(w) = SEXT(raw, 12)
  BY DEF ISA_INST_I_IMM12_SEXT
<1> HIDE DEF raw, w
<1>3. SEXT(raw, 12) = imm
  BY <1>1, SignExtension
<1> QED  BY <1>2, <1>3 DEF w

\* The offset of a store (encode.c:50-61, isa.h:125-126) comes back unchanged.
THEOREM StoreOffset ==
  ASSUME NEW opcode, NEW funct3, NEW rs1, NEW rs2, NEW imm, Fits(imm, 12)
  PROVE  ISA_INST_S_IMM12_SEXT(encPackSFormat(opcode, funct3, rs1, rs2, imm)) = imm
<1> DEFINE w == encPackSFormat(opcode, funct3, rs1, rs2, imm)
           raw == BITS(w, 7, 12) \union LeftShift(BITS(w, 25, 32), 5)
<1>1. raw = {i \in 0..(12 - 1) : i \in imm}
  BY DEF encPackSFormat, SHIFT_MASK, RightShift, LeftShift, BITS, Bits, Fits
<1>2. ISA_INST_S_IMM12_SEXT(w) = SEXT(raw, 12)
  BY DEF ISA_INST_S_IMM12_SEXT
<1> HIDE DEF raw, w
<1>3. SEXT(raw, 12) = imm
  BY <1>1, SignExtension
<1> QED  BY <1>2, <1>3 DEF w

\* The offset of a branch (encode.c:63-76, isa.h:127-130) comes back unchanged if it is even.
THEOREM BranchOffset ==
  ASSUME NEW opcode, NEW funct3, NEW rs1, NEW rs2, NEW imm, Fits(imm, 13), 0 \notin imm
  PROVE  ISA_INST_B_IMM13_SEXT(encPackBFormat(opcode, funct3, rs1, rs2, imm)) = imm
<1> DEFINE w == encPackBFormat(opcode, funct3, rs1, rs2, imm)
           raw == LeftShift(BITS(w, 7, 8), 11) \union LeftShift(BITS(w, 8, 12), 1)
                    \union LeftShift(BITS(w, 25, 31), 5) \union LeftShift(BITS(w, 31, 32), 12)
<1>1. raw = {i \in 0..(13 - 1) : i \in imm}
  BY DEF encPackBFormat, SHIFT_MASK, RightShift, LeftShift, BITS, Bits, Fits
<1>2. ISA_INST_B_IMM13_SEXT(w) = SEXT(raw, 13)
  BY DEF ISA_INST_B_IMM13_SEXT
<1> HIDE DEF raw, w
<1>3. SEXT(raw, 13) = imm
  BY <1>1, SignExtension
<1> QED  BY <1>2, <1>3 DEF w

\* The offset of a jump (encode.c:87-96, isa.h:133-136) comes back unchanged if it is even.
THEOREM JumpOffset ==
  ASSUME NEW opcode, NEW rd, NEW imm, Fits(imm, 21), 0 \notin imm
  PROVE  ISA_INST_J_IMM21_SEXT(encPackJFormat(opcode, rd, imm)) = imm
<1> DEFINE w == encPackJFormat(opcode, rd, imm)
           raw == LeftShift(BITS(w, 12, 20), 12) \union LeftShift(BITS(w, 20, 21), 11)
                    \union LeftShift(BITS(w, 21, 31), 1) \union LeftShift(BITS(w, 31, 32), 20)
<1>1. raw = {i \in 0..(21 - 1) : i \in imm}
  BY DEF encPackJFormat, SHIFT_MASK, RightShift, LeftShift, BITS, Bits, Fits
<1>2. ISA_INST_J_IMM21_SEXT(w) = SEXT(raw, 21)
  BY DEF ISA_INST_J_IMM21_SEXT
<1> HIDE DEF raw, w
<1>3. SEXT(raw, 21) = imm
  BY <1>1, SignExtension
<1> QED  BY <1>2, <1>3 DEF w

\* The upper immediate of LUI and AUIPC (encode.c:78-85, isa.h:131) comes back cut to its 20 bits.
THEOREM UpperImmediate ==
  ASSUME NEW opcode, NEW rd, NEW imm
  PROVE  ISA_INST_U_IMM20(encPackUFormat(opcode, rd, imm)) = {i \in 0..19 : i \in imm}
<1> QED  BY DEF ISA_INST_U_IMM20, encPackUFormat, SHIFT_MASK, BITS

\* The fields of an instruction on registers (encode.c:25-36, isa.h:117-122): opcode,
\* functions and register numbers that fit come back unchanged.
THEOREM RegisterFields ==
  ASSUME NEW opcode, opcode \subseteq 0..6, NEW funct3, funct3 \subseteq 0..2,
         NEW funct7, funct7 \subseteq 0..6, NEW rd, rd \subseteq 0..4,
         NEW rs1, rs1 \subseteq 0..4, NEW rs2, rs2 \subseteq 0..4
  PROVE  LET w == encPackRFormat(opcode, funct3, funct7, rd, rs1, rs2)
         IN /\ ISA_INST_OPCODE(w) = opcode
            /\ ISA_INST_FUNCT3(w) = funct3
            /\ ISA_INST_FUNCT7(w) = funct7
            /\ ISA_INST_RD(w) = rd
            /\ ISA_INST_RS1(w) = rs1
            /\ ISA_INST_RS2(w) = rs2
<1> DEFINE w == encPackRFormat(opcode, funct3, funct7, rd, rs1, rs2)
<1>1. ISA_INST_OPCODE(w) = opcode
  <2>1. ISA_INST_OPCODE(w) = {i \in 0..6 : i \in opcode}
    BY DEF ISA_INST_OPCODE, encPackRFormat, SHIFT_MASK, BITS
  <2> QED  BY <2>1
<1>2. ISA_INST_FUNCT3(w) = funct3
  <2>1. ISA_INST_FUNCT3(w) = {i \in 0..2 : i \in funct3}
    BY DEF ISA_INST_FUNCT3, encPackRFormat, SHIFT_MASK, BITS
  <2> QED  BY <2>1
<1>3. ISA_INST_FUNCT7(w) = funct7
  <2>1. ISA_INST_FUNCT7(w) = {i \in 0..6 : i \in funct7}
    BY DEF ISA_INST_FUNCT7, encPackRFormat, SHIFT_MASK, BITS
  <2> QED  BY <2>1
<1>4. ISA_INST_RD(w) = rd
  <2>1. ISA_INST_RD(w) = {i \in 0..4 : i \in rd}
    BY DEF ISA_INST_RD, encPackRFormat, SHIFT_MASK, BITS
  <2> QED  BY <2>1
<1>5. ISA_INST_RS1(w) = rs1
  <2>1. ISA_INST_RS1(w) = {i \in 0..4 : i \in rs1}
    BY DEF ISA_INST_RS1, encPackRFormat, SHIFT_MASK, BITS
  <2> QED  BY <2>1
<1>6. ISA_INST_RS2(w) = rs2
  <2>1. ISA_INST_RS2(w) = {i \in 0..4 : i \in rs2}
    BY DEF ISA_INST_RS2, encPackRFormat, SHIFT_MASK, BITS
  <2> QED  BY <2>1
<1> QED  BY <1>1, <1>2, <1>3, <1>4, <1>5, <1>6
===============================================================================
