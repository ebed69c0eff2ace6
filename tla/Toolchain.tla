------------------------------- MODULE Toolchain -------------------------------
(***************************************************************************)
(* The toolchain from end to end: a LANCE program is compiled, the         *)
(* assembly file assembled, the executable loaded and run; or an assembly  *)
(* file that somebody wrote is assembled and loaded.                       *)
(***************************************************************************)
EXTENDS Compiler, AsmWriter, AsmParser, ObjectLayout, Cpu

CONSTANTS
  LancePrograms,  \* sources, as in Compiler
  AssemblyFiles,  \* files written by hand, as in Tokens
  Inputs          \* numbers the user may type

ASSUME ProgramsAssumption ==
  \A text \in LancePrograms :
    text \in Seq(Range(text)) /\ Grammatical(text) /\ \A action \in Range(text) : IsAction(action)
ASSUME FilesAssumption == \A lines \in AssemblyFiles : IsFile(lines)

VARIABLES
  pc, x,  \* the processor
  mem,    \* bytes of the data section
  at,     \* history: where the statement being executed begins
  said    \* history: what the last step of the source read or wrote

machineVars == <<pc, x, mem, at, said>>
vars == <<phase, compilerVars, parserVars, layoutVars, machineVars>>

WrittenByHand == <<<<"file">>, <<"end">>>>
Compiled == source # WrittenByHand

\* Where the variable v of the source has its word
AddressOf(v) == Wrap(Pointer(<<"l_", v[1]>>) + v[2] * WordBytes)
InMemory(text) == [v \in DOMAIN text |-> Value(mem, AddressOf(v), WordBytes)]

Loaded == Compiled /\ phase \in {"run", "exited", "fault"}
S == INSTANCE Lance WITH prog <- source, store <- <<>>
StoreOf == IF Loaded THEN InMemory(S!InitialStore(source)) ELSE S!InitialStore(source)
L == INSTANCE Lance WITH prog <- source, store <- StoreOf

Init ==
  /\ \/ phase = "compile" /\ source \in LancePrograms /\ file = <<>>
     \/ phase = "parse" /\ source = WrittenByHand /\ file \in AssemblyFiles
  /\ CompilerInit
  /\ line = 1 /\ parser = InitialParser
  /\ object = newObject /\ LayoutInit
  /\ pc = 0 /\ x = <<>> /\ mem = <<>>
  /\ at = S!Settled(source, 1)
  /\ said = <<>>

Compile == CompilerNext /\ UNCHANGED <<parserVars, layoutVars, machineVars>>

WriteFile ==
  /\ phase = "write"
  /\ file' = writeAssembly(program)
  /\ phase' = "parse"
  /\ UNCHANGED <<compilerVars, line, parser, layoutVars, machineVars>>

Parse == ParseLine /\ UNCHANGED <<compilerVars, layoutVars, machineVars>>

\* parseObject: with errors there is no object.
EndOfFile ==
  /\ phase = "parse" /\ line > Len(file)
  /\ IF parser.numErrors > 0
       THEN phase' = "rejected" /\ UNCHANGED object
       ELSE phase' = "expand" /\ object' = parser.object
  /\ UNCHANGED <<compilerVars, parserVars, sec, pos, curAddr, start, size, fileOffset, machineVars>>

Lay == LayoutNext /\ UNCHANGED <<compilerVars, parserVars, machineVars>>

REG_LAST == Allocated(program.firstUnusedReg)
Boot ==
  /\ Load
  /\ pc' = Entry
  /\ x' = [r \in 0..REG_LAST |-> 0]
  /\ mem' = [a \in start["data"]..(start["data"] + size["data"] - 1) |-> 0]
  /\ UNCHANGED <<compilerVars, parserVars, at, said>>

-----------------------------------------------------------------------------
(* The executable of a program that was compiled runs.  What it stores,    *)
(* tests, reads and writes are steps of its source.                        *)

Running == Compiled /\ phase = "run"
Fetched == {i \in Range(object["text"]) : i.word # <<>> /\ LoadAddress("text", i) = pc}
word == (CHOOSE i \in Fetched : TRUE).word
info == opInstData[word.opcode]
RunningOn(opcodes) == Running /\ Fetched # {} /\ word.opcode \in opcodes

NextInstruction == pc' = Wrap(pc + Instruction)
SetReg(r, v) == x' = [x EXCEPT ![r] = IF r = 0 THEN 0 ELSE v]
SourceStep(p, s) == at' = p /\ said' = s
Silent == UNCHANGED <<at, said>>
RunFrame == UNCHANGED <<compilerVars, parserVars, layoutVars>>

Computed ==
  LET a == x[word.rs1]
  IN CASE info[2] = OPCODE.OP -> cpuExecuteOP(info[4], info[3], a, x[word.rs2])
       [] info[2] = OPCODE.OPIMM -> cpuExecuteOPIMM(info[3], word.imm % 2 ^ ImmBits, a)
       [] info[2] = OPCODE.LUI -> cpuExecuteLUI(word.imm)
       [] info[2] = OPCODE.AUIPC -> cpuExecuteAUIPC(pc, word.imm)

Compute ==
  /\ RunningOn(Operations \union DOMAIN RegisterForm \union {"LUI", "AUIPC"})
  /\ SetReg(word.rd, Computed)
  /\ NextInstruction /\ Silent /\ RunFrame /\ UNCHANGED <<phase, mem>>

Accessed == Wrap(x[word.rs1] + word.imm)
IsMapped == Span(Accessed, WordBytes) \subseteq DOMAIN mem

LoadWord ==
  /\ RunningOn({"LW"}) /\ IsMapped
  /\ SetReg(word.rd, Value(mem, Accessed, WordBytes))
  /\ NextInstruction /\ Silent /\ RunFrame /\ UNCHANGED <<phase, mem>>

StoreWord ==
  /\ RunningOn({"SW"}) /\ IsMapped
  /\ mem' = Stored(mem, Accessed, WordBytes, x[word.rs2])
  /\ SourceStep(S!After(source, at), <<>>)
  /\ NextInstruction /\ RunFrame /\ UNCHANGED <<phase, x>>

Jump ==
  /\ RunningOn({"JAL"})
  /\ SetReg(word.rd, Wrap(pc + Instruction))
  /\ pc' = Wrap(pc + word.imm)
  /\ Silent /\ RunFrame /\ UNCHANGED <<phase, mem>>

\* Of the branches that acse makes, BEQ skips and BNE repeats.
Branch ==
  /\ RunningOn({"BEQ", "BNE"})
  /\ LET taken == cpuExecuteBRANCH(info[3], x[word.rs1], x[word.rs2]) = 1
     IN /\ pc' = Wrap(pc + IF taken THEN word.imm ELSE Instruction)
        /\ SourceStep(IF taken <=> word.opcode = "BEQ" THEN S!WhenFalse(source, at) ELSE S!WhenTrue(source, at), <<>>)
  /\ RunFrame /\ UNCHANGED <<phase, x, mem>>

Calls(call) == RunningOn({"ECALL"}) /\ x[REG_A7] = SyscallID[call]

PrintInt ==
  /\ Calls("CALL_PRINT_INT")
  /\ SourceStep(at, <<"PRINT_INT", x[REG_A0]>>)
  /\ NextInstruction /\ RunFrame /\ UNCHANGED <<phase, x, mem>>

PrintChar ==
  /\ Calls("CALL_PRINT_CHAR")
  /\ SourceStep(S!After(source, at), <<"PRINT_CHAR", x[REG_A0]>>)
  /\ NextInstruction /\ RunFrame /\ UNCHANGED <<phase, x, mem>>

ReadInt ==
  /\ Calls("CALL_READ_INT")
  /\ \E v \in Inputs : SetReg(REG_A0, v) /\ SourceStep(at, <<"READ_INT", v>>)
  /\ NextInstruction /\ RunFrame /\ UNCHANGED <<phase, mem>>

Exit ==
  /\ Calls("CALL_EXIT_0")
  /\ phase' = "exited"
  /\ SourceStep(at, <<"EXIT">>)
  /\ RunFrame /\ UNCHANGED <<pc, x, mem>>

Fault ==
  /\ RunningOn({"LW", "SW"}) /\ ~IsMapped
  /\ phase' = "fault"
  /\ SourceStep(at, <<"FAULT">>)
  /\ RunFrame /\ UNCHANGED <<pc, x, mem>>

Run == Compute \/ LoadWord \/ StoreWord \/ Jump \/ Branch \/ PrintInt \/ PrintChar \/ ReadInt \/ Exit \/ Fault

Passes == {"compile", "write", "parse", "expand", "address", "resolve", "encode", "elf", "load"}
Finished == phase \notin Passes /\ ~Running /\ UNCHANGED vars

Next == Compile \/ WriteFile \/ Parse \/ EndOfFile \/ Lay \/ Boot \/ Run \/ Finished

\* The programs of the toolchain do not wait for anything: while a pass is not over, steps are
\* taken.  One is always possible, as the runs check for deadlocks.
Fairness == []<>(phase \notin Passes) \/ []<><<TRUE>>_vars
Spec == Init /\ [][Next]_vars /\ Fairness

-----------------------------------------------------------------------------
(* Properties *)

\* The executable of a LANCE program does what the program says: it assigns, tests, reads,
\* prints and exits in that order and with those values, whatever labels, temporaries and
\* addresses the toolchain made of it.
FollowsTheProgram == L!LanceSpec

\* A program is refused exactly if it has errors; the file that acse writes of any other one
\* assembles, unless a branch does not reach its label, and the executable never comes to
\* where there is no instruction or calls the system for what it does not know.
TooFar(i) == i.class = "INSTR" /\ i.instr.opcode \in Conditions /\ Distance(i.instr.label, i.address) \notin Reach(i.instr.opcode)
ProgramsGetThrough ==
  Compiled =>
    /\ phase = "error" => ~S!WellFormed(source)
    /\ phase \in {"write", "run"} => S!WellFormed(source)
    /\ phase \notin {"rejected", "crashed"}
    /\ phase = "failed" => \E i \in Range(object["text"]) : TooFar(i)
    /\ phase = "run" => /\ Cardinality(Fetched) = 1
                        /\ word.opcode = "ECALL" => x[REG_A7] \in Range(SyscallID)

\* nb is the last label n declared before, nf the first one declared after a reference,
\* on the lines of a file without errors.
Declares(l, n) == Declaration(file[l]) /\ file[l][1] = Constant(n)
NearestLine(l, n) ==
  IF n < 0 THEN Max({k \in 1..l : Declares(k, -n)}) ELSE Min({k \in (l + 1)..Len(file) : Declares(k, n)})
RefersTo(l, label, n) ==
  LET o == parser.object
  IN IF n > 0 /\ (\A k \in (l + 1)..Len(file) : ~Declares(k, n)) THEN ~IsDeclared(o, label)
     ELSE IsDeclared(o, label) /\ ItemAt(o, PlaceOf(o, label)).line = NearestLine(l, n)
LocalLabelsNearest ==
  phase = "parse" /\ line > Len(file) /\ parser.numErrors = 0 =>
    \A s \in Sections : \A i \in Range(parser.object[s]) :
      i.class = "INSTR" =>
        \A k \in DOMAIN file[i.line] :
          Kind(file[i.line][k]) = "LOCAL_REF" => RefersTo(i.line, i.instr.label, file[i.line][k][2])

\* The assembler starts from instructions that have room for what they refer to, and what the
\* executable computes from the fields of their words is the address of the label that the
\* source names: the target of a jump, and the sum of a high and a low part, be they of
\* the address or of the distance from the instruction that loads the high part.
Sum(high, low) == Wrap(high * 2 ^ ImmBits + low)
IsCode(i) == i.word # <<>>
Target(i) == Wrap(i.address + i.word.imm)
\* An upper immediate is no low part, even if %lo made it.
HasLowPart(i) == opInstData[i.word.opcode][1] \in {"I", "S"}
LowerParts(s, k) ==
  LET code == object[s]
      i == code[k]
  IN {j \in DOMAIN code :
        /\ IsCode(code[j]) /\ HasLowPart(code[j])
        /\ \/ i.instr.immMode = "HI20" /\ code[j].instr.immMode = "LO12" /\ code[j].instr.label = i.instr.label
           \/ i.instr.immMode = "PCREL_HI20" /\ code[j].instr.immMode = "PCREL_LO12_DIRECT" /\ j = k + 1
           \/ /\ i.instr.immMode = "PCREL_HI20" /\ code[j].instr.immMode = "PCREL_LO12"
              /\ objLabelGetPointedItem(object, code[j].instr.label) = <<s, k>>}
ReferencesResolve ==
  /\ phase = "expand" /\ sec = "text" /\ pos = 1 => ReferencesFit
  /\ phase = "load" =>
       \A s \in Sections : \A k \in DOMAIN object[s] :
         LET i == object[s][k]
         IN IsCode(i) =>
              /\ i.instr.immMode = "LBL" /\ i.instr.constant % 2 = 0 => Target(i) = Pointer(i.instr.label)
              /\ \A j \in LowerParts(s, k) :
                   Sum(i.word.imm, object[s][j].word.imm)
                     = Wrap(Pointer(i.instr.label) - (IF i.instr.immMode = "HI20" THEN 0 ELSE i.address))

\* acse and the assembler come to an end on every input.
ToolchainTerminates == <>(phase \notin Passes)
===============================================================================
