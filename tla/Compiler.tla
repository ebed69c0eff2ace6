------------------------------- MODULE Compiler -------------------------------
(***************************************************************************)
(* The compiler (acse/parser.y, codegen.c).  The parser that bison makes   *)
(* runs the semantic actions of the grammar in the order of the text, an   *)
(* expression after its operands: a source is here the sequence of these   *)
(* actions, each a tuple of its name and the tokens it has values of.      *)
(***************************************************************************)
EXTENDS Program, Passes

VARIABLES
  source,   \* the LANCE program
  mark,     \* the next semantic action
  program,
  values,   \* semantic values of the expressions on the stack of the parser: registers
  open,     \* those of the statements around: their labels, innermost last
  numErrors

compilerVars == <<source, mark, program, values, open, numErrors>>

CompilerInit ==
  /\ mark = 1
  /\ program = newProgram
  /\ values = <<>> /\ open = <<>>
  /\ numErrors = 0

-----------------------------------------------------------------------------
(* codegen.c: of each function the instruction it adds *)

genRFormatInstruction(p, opcode, rd, rs1, rs2) == addInstruction(p, Gen(opcode, rd, rs1, rs2, 0))
genIFormatInstruction(p, opcode, rd, rs1, immediate) == addInstruction(p, Gen(opcode, rd, rs1, 0, immediate))
genBFormatInstruction(p, opcode, rs1, rs2, label) ==
  addInstruction(p, [Gen(opcode, 0, rs1, rs2, 0) EXCEPT !.addressParam = label])
genJ(p, label) == addInstruction(p, [Gen("J", 0, 0, 0, 0) EXCEPT !.addressParam = label])
genLI(p, rd, immediate) == addInstruction(p, Gen("LI", rd, 0, 0, immediate))
genLA(p, rd, label) == addInstruction(p, [Gen("LA", rd, 0, 0, 0) EXCEPT !.addressParam = label])
genLW(p, rd, rs1) == addInstruction(p, Gen("LW", rd, rs1, 0, 0))
genSW(p, rs2, rs1) == addInstruction(p, Gen("SW", 0, rs1, rs2, 0))

genExit0Syscall(p)          == addInstruction(p, Gen("CALL_EXIT_0", 0, 0, 0, 0))
genReadIntSyscall(p, rd)    == addInstruction(p, Gen("CALL_READ_INT", rd, 0, 0, 0))
genPrintIntSyscall(p, rs1)  == addInstruction(p, Gen("CALL_PRINT_INT", 0, rs1, 0, 0))
genPrintCharSyscall(p, rs1) == addInstruction(p, Gen("CALL_PRINT_CHAR", 0, rs1, 0, 0))

\* Accesses to variables.  Errors, which these functions report, are counted by MisusedAs.
MisusedAs(var, type) == IF var.type = type THEN 0 ELSE 1

genLoadVariable(p, var) ==
  LET rAddr == NewRegister(p)
  IN IF isArray(var) THEN p ELSE genLW(genLA(getNewRegister(p, 2), rAddr, var.label), rAddr + 1, rAddr)
LoadedVariable(p, var) == IF isArray(var) THEN REG_0 ELSE NewRegister(p) + 1

genStoreRegisterToVariable(p, var, reg) ==
  LET rAddr == NewRegister(p)
  IN IF isArray(var) THEN p ELSE genSW(genLA(getNewRegister(p, 1), rAddr, var.label), reg, rAddr)

\* Fault: elements are taken to be one byte apart.
LoadArrayAddressOfByte(p, array, rIdx) ==
  LET rAddr == NewRegister(p)
  IN IF ~isArray(array) THEN p
     ELSE genRFormatInstruction(genLA(getNewRegister(p, 2), rAddr, array.label), "ADD", rAddr, rAddr, rIdx)
genLoadArrayAddress(p, array, rIdx) ==
  LET rAddr   == NewRegister(p)
      rOffset == rAddr + 1
      loaded  == genLA(getNewRegister(p, 2), rAddr, array.label)
      scaled  == genIFormatInstruction(loaded, "MULI", rOffset, rIdx, WordBytes)
  IN IF ~isArray(array) THEN p ELSE genRFormatInstruction(scaled, "ADD", rAddr, rAddr, rOffset)
ArrayAddress(p, array) == IF isArray(array) THEN NewRegister(p) ELSE REG_0

genLoadArrayElement(p, array, rIdx) ==
  LET q == genLoadArrayAddress(p, array, rIdx)
  IN genLW(getNewRegister(q, 1), NewRegister(q), ArrayAddress(p, array))
LoadedElement(p, array, rIdx) == NewRegister(genLoadArrayAddress(p, array, rIdx))

genStoreRegisterToArrayElement(p, array, rIdx, rVal) ==
  genSW(genLoadArrayAddress(p, array, rIdx), rVal, ArrayAddress(p, array))

-----------------------------------------------------------------------------
(* Semantic actions *)

At(action) == phase = "compile" /\ mark <= Len(source) /\ source[mark][1] = action
NextMark == mark' = mark + 1 /\ UNCHANGED <<phase, source>>
ID == source[mark][2]
var == getSymbol(program, ID)

\* The expressions reduced last
Top == Last(values)
Below == values[Len(values) - 1]
Drop(n) == SubSeq(values, 1, Len(values) - n)
Errors(n) == numErrors' = numErrors + n

\* A register of its own for the result of an action
Result1 == NewRegister(program)
Taken1 == getNewRegister(program, 1)

\* declarator
Declare ==
  /\ At("declare")
  /\ LET type == IF Len(source[mark]) = 3 THEN "INT_ARRAY" ELSE "INT"
         size == IF Len(source[mark]) = 3 THEN source[mark][3] ELSE 0
     IN /\ program' = createSymbol(program, ID, type, size)
        /\ Errors(IF CannotCreate(program, ID, type, size) THEN 1 ELSE 0)
  /\ NextMark /\ UNCHANGED <<values, open>>

\* var_id of a name that is not declared: the parser gives up.  The name comes before the
\* expressions that belong to it; nothing is made of what they compile to.
Undeclared ==
  /\ phase = "compile" /\ mark <= Len(source)
  /\ source[mark][1] \in {"load", "element", "assign", "assignElement", "read"}
  /\ ~HasSymbol(program, ID)
  /\ Errors(1)
  /\ phase' = "error"
  /\ UNCHANGED <<source, mark, program, values, open>>
Uses(action) == At(action) /\ HasSymbol(program, ID)

Number ==
  /\ At("number")
  /\ program' = genLI(Taken1, Result1, source[mark][2])
  /\ values' = Append(values, Result1)
  /\ NextMark /\ UNCHANGED <<open, numErrors>>

Variable ==
  /\ Uses("load")
  /\ program' = genLoadVariable(program, var)
  /\ values' = Append(values, LoadedVariable(program, var))
  /\ Errors(MisusedAs(var, "INT"))
  /\ NextMark /\ UNCHANGED open

Element ==
  /\ Uses("element")
  /\ program' = genLoadArrayElement(program, var, Top)
  /\ values' = Append(Drop(1), LoadedElement(program, var, Top))
  /\ Errors(MisusedAs(var, "INT_ARRAY"))
  /\ NextMark /\ UNCHANGED open

\* The operators that one instruction computes
Unary ==
  /\ At("minus") \/ At("not")
  /\ program' = IF At("minus") THEN genRFormatInstruction(Taken1, "SUB", Result1, REG_0, Top)
                ELSE genRFormatInstruction(Taken1, "SEQ", Result1, Top, REG_0)
  /\ values' = Append(Drop(1), Result1)
  /\ NextMark /\ UNCHANGED <<open, numErrors>>

Binary ==
  /\ At("binary")
  /\ program' = genRFormatInstruction(Taken1, source[mark][2], Result1, Below, Top)
  /\ values' = Append(Drop(2), Result1)
  /\ NextMark /\ UNCHANGED <<open, numErrors>>

\* && and ||: of operands made 0 or 1
Logical ==
  /\ At("logical")
  /\ LET first  == genRFormatInstruction(getNewRegister(program, 3), "SNE", Result1, Below, REG_0)
         second == genRFormatInstruction(first, "SNE", Result1 + 1, Top, REG_0)
     IN program' = genRFormatInstruction(second, source[mark][2], Result1 + 2, Result1, Result1 + 1)
  /\ values' = Append(Drop(2), Result1 + 2)
  /\ NextMark /\ UNCHANGED <<open, numErrors>>

Assign ==
  /\ Uses("assign")
  /\ program' = genStoreRegisterToVariable(program, var, Top)
  /\ values' = Drop(1)
  /\ Errors(MisusedAs(var, "INT"))
  /\ NextMark /\ UNCHANGED open

AssignElement ==
  /\ Uses("assignElement")
  /\ program' = genStoreRegisterToArrayElement(program, var, Below, Top)
  /\ values' = Drop(2)
  /\ Errors(MisusedAs(var, "INT_ARRAY"))
  /\ NextMark /\ UNCHANGED open

-----------------------------------------------------------------------------
(* Statements with labels *)

InnermostBecomes(labels) == open' = Append(Front(open), labels)
Innermost == Last(open)

If ==
  /\ At("if")
  /\ LET q == createLabel(program)
     IN /\ program' = genBFormatInstruction(q, "BEQ", Top, REG_0, LastLabel(q))
        /\ open' = Append(open, [lElse |-> LastLabel(q), lExit |-> 0])
  /\ values' = Drop(1)
  /\ NextMark /\ UNCHANGED numErrors

\* Between the parts of an if statement, the second of which may be missing
Else ==
  /\ At("else")
  /\ LET q == createLabel(program)
     IN /\ program' = assignLabel(genJ(q, LastLabel(q)), Innermost.lElse)
        /\ InnermostBecomes([Innermost EXCEPT !.lExit = LastLabel(q)])
  /\ NextMark /\ UNCHANGED <<values, numErrors>>

EndIf ==
  /\ At("endif")
  /\ program' = assignLabel(program, Innermost.lExit)
  /\ open' = Front(open)
  /\ NextMark /\ UNCHANGED <<values, numErrors>>

While ==
  /\ At("while")
  /\ LET q == createLabel(program)
     IN /\ program' = assignLabel(q, LastLabel(q))
        /\ open' = Append(open, [lLoop |-> LastLabel(q), lExit |-> 0])
  /\ NextMark /\ UNCHANGED <<values, numErrors>>

WhileCondition ==
  /\ At("whileCondition")
  /\ LET q == createLabel(program)
     IN /\ program' = genBFormatInstruction(q, "BEQ", Top, REG_0, LastLabel(q))
        /\ InnermostBecomes([Innermost EXCEPT !.lExit = LastLabel(q)])
  /\ values' = Drop(1)
  /\ NextMark /\ UNCHANGED numErrors

EndWhile ==
  /\ At("endwhile")
  /\ program' = assignLabel(genJ(program, Innermost.lLoop), Innermost.lExit)
  /\ open' = Front(open)
  /\ NextMark /\ UNCHANGED <<values, numErrors>>

Do ==
  /\ At("do")
  /\ LET q == createLabel(program)
     IN /\ program' = assignLabel(q, LastLabel(q))
        /\ open' = Append(open, [lLoop |-> LastLabel(q), lExit |-> 0])
  /\ NextMark /\ UNCHANGED <<values, numErrors>>

DoWhile ==
  /\ At("dowhile")
  /\ program' = genBFormatInstruction(program, "BNE", Top, REG_0, Innermost.lLoop)
  /\ values' = Drop(1)
  /\ open' = Front(open)
  /\ NextMark /\ UNCHANGED numErrors

-----------------------------------------------------------------------------
(* System calls, and the end *)

Return ==
  /\ At("return")
  /\ program' = genExit0Syscall(program)
  /\ NextMark /\ UNCHANGED <<values, open, numErrors>>

Read ==
  /\ Uses("read")
  /\ program' = genStoreRegisterToVariable(genReadIntSyscall(Taken1, Result1), var, Result1)
  /\ Errors(MisusedAs(var, "INT"))
  /\ NextMark /\ UNCHANGED <<values, open>>

NewLine == 10
WriteOut ==
  /\ At("write")
  /\ LET q == genPrintIntSyscall(program, Top)
     IN program' = genPrintCharSyscall(genLI(getNewRegister(q, 1), NewRegister(q), NewLine), NewRegister(q))
  /\ values' = Drop(1)
  /\ NextMark /\ UNCHANGED <<open, numErrors>>

\* parseProgram: with errors nothing further is done.  A fatal error ends acse where it is met.
EndOfProgram ==
  /\ At("end")
  /\ program' = genEpilog(program)
  /\ phase' = IF numErrors > 0 \/ program'.fatal THEN "error" ELSE "write"
  /\ UNCHANGED <<source, mark, values, open, numErrors>>

CompilerNext ==
  \/ Declare \/ Undeclared
  \/ Number \/ Variable \/ Element \/ Unary \/ Binary \/ Logical \/ Assign \/ AssignElement
  \/ If \/ Else \/ EndIf \/ While \/ WhileCondition \/ EndWhile \/ Do \/ DoWhile
  \/ Return \/ Read \/ WriteOut \/ EndOfProgram

-----------------------------------------------------------------------------
(* The grammar of statements *)

\* The statements around a place, outermost first, each the part of it that the place is in,
\* after one more semantic action
Goes(around, action) ==
  CASE action = "if" -> Append(around, "then")
    [] action = "while" -> Append(around, "condition")
    [] action = "do" -> Append(around, "repeated")
    [] action = "else" -> Append(Front(around), "else")
    [] action = "whileCondition" -> Append(Front(around), "body")
    [] action \in {"endif", "endwhile", "dowhile"} -> Front(around)
    [] OTHER -> around
Surroundings(text) ==
  LET around[n \in 0..Len(text)] == IF n = 0 THEN <<>> ELSE Goes(around[n - 1], text[n][1]) IN around

\* The part of the innermost statement that an action comes after
Ends == [else |-> "then", endif |-> "else", whileCondition |-> "condition", endwhile |-> "body",
         dowhile |-> "repeated"]
Grammatical(text) ==
  \A k \in DOMAIN text :
    text[k][1] \in DOMAIN Ends =>
      LET around == Surroundings(text)[k - 1] IN around # <<>> /\ Last(around) = Ends[text[k][1]]

-----------------------------------------------------------------------------
(* Tokens of the actions: numbers, and operators that one instruction      *)
(* computes or, between operands made 0 or 1, && and ||.                   *)

BinaryOperators ==
  {"ADD", "SUB", "MUL", "DIV", "REM", "AND", "XOR", "OR", "SLL", "SRA", "SLT", "SGT", "SEQ", "SNE", "SLE", "SGE"}
IsAction(a) ==
  /\ a[1] = "number" => a[2] \in Int
  /\ a[1] = "binary" => a[2] \in BinaryOperators
  /\ a[1] = "logical" => a[2] \in {"AND", "OR"}
  /\ a[1] = "declare" /\ Len(a) = 3 => a[3] \in Int

-----------------------------------------------------------------------------
(* Labels of the program *)

Labels == DOMAIN program.labels

\* The code refers to labels by pointers, the assembly file by names.  Labels that were made
\* one have the same name, all others different ones.
AliasesAgree ==
  \A k, l \in Labels : (getLabelName(program.labels[k]) = getLabelName(program.labels[l]))
                         <=> (program.labels[k].labelID = program.labels[l].labelID)

\* An assigned label is on one instruction at most; no label is assigned twice.
AssignedOnce ==
  /\ ~program.fatal
  /\ \A k \in Labels :
       Cardinality({i \in DOMAIN program.instructions :
                      /\ program.instructions[i].label # 0
                      /\ program.labels[program.instructions[i].label].labelID = program.labels[k].labelID}) <= 1

\* Labels stay the names of one place each, however many of them are pending together.
LabelsSound == AliasesAgree /\ AssignedOnce
===============================================================================
