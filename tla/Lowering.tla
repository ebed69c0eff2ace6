-------------------------------- MODULE Lowering --------------------------------
(***************************************************************************)
(* The lowering of arithmetic (acse/target_transform.c): pseudo            *)
(* instructions are rewritten, then immediates that do not fit.  Each      *)
(* instruction of the list is visited once per pass; what is inserted is   *)
(* skipped.                                                                *)
(***************************************************************************)
EXTENDS TargetTransform

CONSTANTS
  Sources,       \* instructions of the program
  RegisterFiles, \* contents of the registers it may meet
  FirstRegister  \* the first register that getNewRegister yields

ASSUME LoweringAssumption ==
  /\ FirstRegister \in Nat \ {0}
  /\ \A f \in RegisterFiles : DOMAIN f = 0..(FirstRegister - 1) /\ f[0] = 0

\* The arithmetic that codegen.h has functions for
Arithmetic ==
  DOMAIN getMatchingNonImmediateOpcode \union Range(getMatchingNonImmediateOpcode) \union {"LI"}
ASSUME SourcesAssumption ==
  \A i \in Sources : /\ i = Gen(i.opcode, i.rd, i.rs1, i.rs2, i.imm)
                     /\ i.opcode \in Arithmetic /\ i.imm \in Int
                     /\ {i.rd, i.rs1, i.rs2} \subseteq 0..(FirstRegister - 1)

VARIABLES
  source,       \* history: the instruction before lowering
  instructions,
  curi,
  pass,
  nextRegister

vars == <<source, instructions, curi, pass, nextRegister>>

-----------------------------------------------------------------------------
Init ==
  /\ source \in Sources
  /\ instructions = <<source>>
  /\ curi = 1
  /\ pass = "fixPseudoInstructions"
  /\ nextRegister = FirstRegister

\* The instruction at curi gives way to code, and curi moves behind it.
Replace(code) ==
  /\ instructions' = SubSeq(instructions, 1, curi - 1) \o code \o SubSeq(instructions, curi + 1, Len(instructions))
  /\ curi' = curi + Len(code)

FixPseudo ==
  /\ pass = "fixPseudoInstructions" /\ curi <= Len(instructions)
  /\ Replace(fixPseudoInstruction(instructions[curi]))
  /\ UNCHANGED <<source, pass, nextRegister>>

FixImmediate ==
  /\ pass = "fixUnsupportedImmediates" /\ curi <= Len(instructions)
  /\ LET code == fixUnsupportedImmediate(instructions[curi], nextRegister)
     IN /\ Replace(code)
        /\ nextRegister' = IF Len(code) = 2 THEN nextRegister + 1 ELSE nextRegister
  /\ UNCHANGED <<source, pass>>

\* doTargetSpecificTransformations; fixSyscalls, in between, leaves arithmetic alone.
NextPass ==
  /\ pass # "done" /\ curi > Len(instructions)
  /\ curi' = 1
  /\ pass' = IF pass = "fixPseudoInstructions" THEN "fixUnsupportedImmediates" ELSE "done"
  /\ UNCHANGED <<source, instructions, nextRegister>>

Finished == pass = "done" /\ UNCHANGED vars

Next == FixPseudo \/ FixImmediate \/ NextPass \/ Finished
Spec == Init /\ [][Next]_vars

-----------------------------------------------------------------------------
(* What is checked *)

\* What the compiler prints the assembler accepts: machine instructions, with immediates
\* in range (expectImmediate in asrv32im/parser.c:198).
MachineOperations == Operations \union DOMAIN RegisterForm \union {"LI"}
IsPrintable(i) ==
  /\ i.opcode \in MachineOperations
  /\ i.opcode \in {"SLLI", "SRLI", "SRAI"} => i.imm \in Amount
  /\ i.opcode \in DOMAIN RegisterForm \ {"SLLI", "SRLI", "SRAI"} => i.imm \in Immediate
Printable == pass = "done" => \A k \in DOMAIN instructions : IsPrintable(instructions[k])

\* The assembler's view of an instruction, and what a RISC-V processor makes of it
Printed(i) == WithConstant(Instr(i.opcode, i.rd, i.rs1, i.rs2), i.imm)

ValueOf(i, regs) ==
  CASE i.opcode \in Operations -> Result(i.opcode, regs[i.src1], regs[i.src2])
    [] i.opcode \in DOMAIN RegisterForm ->
         Result(RegisterForm[i.opcode], regs[i.src1], ImmediateOperand(i.opcode, LO_12(i.constant)))
    [] i.opcode = "LUI" -> Wrap(i.constant * 2 ^ ImmBits)

Executed(regs, i) == [[regs EXCEPT ![i.dest] = ValueOf(i, regs)] EXCEPT ![0] = 0]
Run(code, regs) == FoldLeft(Executed, regs, code)

\* What target_info.h says an instruction computes
Meaning(i, regs) ==
  LET a == regs[i.rs1]
      b == IF isImmediateArgumentInstrOpcode(i.opcode) THEN Wrap(i.imm) ELSE regs[i.rs2]
      s == Signed(a)
      t == Signed(b)
      Is(ops) == i.opcode \in ops
  IN CASE Is({"SUBI"}) -> Result("SUB", a, b)
       [] Is({"MULI"}) -> Result("MUL", a, b)
       [] Is({"DIVI"}) -> Result("DIV", a, b)
       [] Is({"REMI"}) -> Result("REM", a, b)
       [] Is(DOMAIN RegisterForm) -> Result(RegisterForm[i.opcode], a, b)
       [] Is({"SEQ", "SEQI"}) -> Bool(a = b)
       [] Is({"SNE", "SNEI"}) -> Bool(a # b)
       [] Is({"SGE", "SGEI"}) -> Bool(s >= t)
       [] Is({"SGEU", "SGEIU"}) -> Bool(a >= b)
       [] Is({"SGT", "SGTI"}) -> Bool(s > t)
       [] Is({"SGTU", "SGTIU"}) -> Bool(a > b)
       [] Is({"SLE", "SLEI"}) -> Bool(s <= t)
       [] Is({"SLEU", "SLEIU"}) -> Bool(a <= b)
       [] Is({"LI"}) -> Wrap(i.imm)
       [] OTHER -> Result(i.opcode, a, b)

\* The code that is printed and expanded by the assembler computes what the instruction
\* was meant to (target_info.h:86-138) into its destination, from any registers, even its
\* own destination, and leaves the other registers of the program alone.
MeansTheSame ==
  pass = "done" => \A regs \in RegisterFiles :
    LET code  == FlattenSeq([k \in DOMAIN instructions |-> encExpandPseudoInstruction(Printed(instructions[k]))])
        start == [r \in 0..(nextRegister - 1) |-> IF r \in DOMAIN regs THEN regs[r] ELSE WordSize - 1]
        end   == Run(code, start)
    IN \A r \in DOMAIN regs \ {0} :
         end[r] = IF r = source.rd THEN Meaning(source, regs) ELSE regs[r]
===============================================================================
