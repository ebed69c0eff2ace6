------------------------------- MODULE AsmParser -------------------------------
(***************************************************************************)
(* The parser of the assembler (asrv32im/parser.c).  It reads a file line  *)
(* by line, predicting from the next token what must follow; an error ends *)
(* the line.                                                               *)
(***************************************************************************)
EXTENDS Passes

CONSTANT MaxErrors  \* errors after which the parser gives up (10)

ASSUME MaxErrorsAssumption == MaxErrors \in Nat

\* What .align may ask for is a number.
ASSUME AlignmentAssumption == \A n \in 1..(WordBits - 1) : 2 ^ n \in Nat \ {0}

VARIABLES
  file,    \* the lines of the source
  line,    \* the next of them
  parser   \* t_parserState

parserVars == <<file, line, parser>>

\* crashed stands for a use of a null pointer.
InitialParser ==
  [object |-> newObject, curSection |-> "text", numErrors |-> 0, backLabels |-> <<>>,
   forwardLabels |-> <<>>, progressive |-> 0, failed |-> FALSE, crashed |-> FALSE]

Kind(t) == t[1]
Starts(tokens, kind) == tokens # <<>> /\ Kind(Head(tokens)) = kind

parserEmitError(p) == [p EXCEPT !.numErrors = @ + 1]
SyntaxError(p) == [parserEmitError(p) EXCEPT !.failed = TRUE]
\* What comes after a line that is complete is an error.
EndOfLine(p, tokens) == IF tokens = <<>> THEN p ELSE SyntaxError(p)
Emit(p, item) == [p EXCEPT !.object = objSecAppend(@, p.curSection, item)]
EmitAll(p, items) == [p EXCEPT !.object[p.curSection] = @ \o items]

-----------------------------------------------------------------------------
(* Local labels: numbers that may be declared again and again.  nb is the  *)
(* last n declared, nf the next one.  Forward references wait in           *)
(* forwardLabels until their label is declared and moves to backLabels,    *)
(* latest first.                                                           *)

Find(labels, n) == SelectInSeq(labels, LAMBDA l : l.identifier = n)

\* A forward label for n, a new one if none waits
parserGetLocalLabel(p, n) ==
  IF Find(p.forwardLabels, n) # 0 THEN p
  ELSE [p EXCEPT !.forwardLabels = <<[identifier |-> n, label |-> <<".local", n, p.progressive>>]>> \o @,
                 !.progressive = @ + 1]

\* Fault: a declared label is put behind the earlier ones.
DeclaredLast(p, n) ==
  LET q == parserGetLocalLabel(p, n)
      i == Find(q.forwardLabels, n)
      l == q.forwardLabels[i]
  IN Emit([q EXCEPT !.forwardLabels = RemoveAt(@, i), !.backLabels = Append(@, l)], Void(l.label, line))

parserDeclareLocalLabel(p, n) ==
  LET q == parserGetLocalLabel(p, n)
      i == Find(q.forwardLabels, n)
      l == q.forwardLabels[i]
  IN Emit([q EXCEPT !.forwardLabels = RemoveAt(@, i), !.backLabels = <<l>> \o @], Void(l.label, line))

\* The state after a reference, and the label it stands for.  Negative numbers refer back.
IsBack(t) == Kind(t) = "LOCAL_REF" /\ t[2] < 0
Dangles(p, t) == IsBack(t) /\ Find(p.backLabels, -t[2]) = 0
AfterReference(p, t) ==
  IF Dangles(p, t) THEN [p EXCEPT !.crashed = TRUE, !.failed = TRUE]
  ELSE IF Kind(t) = "LOCAL_REF" /\ ~IsBack(t) THEN parserGetLocalLabel(p, t[2])
  ELSE p
LabelOf(p, t) ==
  IF Kind(t) = "ID" THEN t[2]
  ELSE IF IsBack(t) THEN p.backLabels[Find(p.backLabels, -t[2])].label
  ELSE p.forwardLabels[Find(p.forwardLabels, t[2])].label

-----------------------------------------------------------------------------
(* Operands.  The forms of a format are sequences of what must come next:  *)
(* a register for a field, a number of a range, a label, or a token that   *)
(* stands for itself.                                                      *)

Reg(field) == <<"REGISTER", field>>
NumberIn(range) == <<"NUMBER", "constant", range>>
Label(immMode) == <<"LABEL", "label", immMode>>
InParentheses(slot) == <<<<"(">>, slot, <<")">>>>

SmallNumber == 0..(WordBits - 1)
LongNumber  == (-(2 ^ (WordBits - ImmBits - 1)))..(2 ^ (WordBits - ImmBits) - 1)
AnyNumber   == (-(WordSize \div 2))..(WordSize \div 2 - 1)

LowParts  == {<<"%lo", "LO12">>, <<"%pcrel_lo", "PCREL_LO12">>}
HighParts == {<<"%hi", "HI20">>, <<"%pcrel_hi", "PCREL_HI20">>}
expectImmediate(range, parts) ==
  {<<NumberIn(range)>>} \union {<<<<p[1]>>>> \o InParentheses(Label(p[2])) : p \in parts}
Imm5  == expectImmediate(SmallNumber, {})
Imm12 == expectImmediate(Immediate, LowParts)
Imm20 == expectImmediate(LongNumber, LowParts \union HighParts)

Shifts == {"SLLI", "SRLI", "SRAI"}
Loads  == [LB |-> "LB_G", LH |-> "LH_G", LW |-> "LW_G", LBU |-> "LBU_G", LHU |-> "LHU_G"]
Stores == [SB |-> "SB_G", SH |-> "SH_G", SW |-> "SW_G"]

instrOpcodeToFormat(op) ==
  CASE op \in Operations -> "OP"
    [] op \in DOMAIN RegisterForm -> "OPIMM"
    [] op \in DOMAIN Loads -> "LOAD"
    [] op \in DOMAIN Stores -> "STORE"
    [] op \in Conditions \union DOMAIN Swapped -> "BRANCH"
    [] op \in DOMAIN WithZero \union DOMAIN ZeroWith -> "BRANCH_Z"
    [] op \in {"LUI", "AUIPC"} -> "LUI"
    [] op \in {"LA", "JAL"} -> "LA"
    [] op = "JALR" -> "JALR"
    [] op = "J" -> "JUMP"
    [] op = "LI" -> "LI"
    [] op \in {"NOP", "ECALL", "EBREAK"} -> "SYSTEM"

Mnemonics ==
  Operations \union DOMAIN RegisterForm \union DOMAIN Loads \union DOMAIN Stores \union Conditions
    \union DOMAIN Swapped \union DOMAIN WithZero \union DOMAIN ZeroWith
    \union {"LUI", "AUIPC", "LA", "JAL", "JALR", "J", "LI", "NOP", "ECALL", "EBREAK"}

Forms(op) ==
  LET dest == <<Reg("dest"), Comma>>
      src1 == <<Reg("src1"), Comma>>
      src2 == <<Reg("src2"), Comma>>
      Indirect(first) == {first \o i \o InParentheses(Reg("src1")) : i \in Imm12}
      target == <<Label("LBL")>>
      format == instrOpcodeToFormat(op)
  IN CASE format = "OP" -> {dest \o src1 \o <<Reg("src2")>>}
       [] format = "OPIMM" -> {dest \o src1 \o i : i \in IF op \in Shifts THEN Imm5 ELSE Imm12}
       [] format = "LOAD" -> {dest \o target} \union Indirect(dest)
       [] format = "STORE" -> {src2 \o target \o <<Comma, Reg("dest")>>} \union Indirect(src2)
       [] format = "LI" -> {dest \o <<NumberIn(AnyNumber)>>}
       [] format = "LUI" -> {dest \o i : i \in Imm20}
       [] format = "LA" -> {dest \o target, target}
       [] format = "JALR" -> {dest \o src1 \o i : i \in Imm12} \union Indirect(dest)
       [] format = "BRANCH" -> {src1 \o src2 \o target}
       [] format = "BRANCH_Z" -> {src1 \o target}
       [] format = "JUMP" -> {target}
       [] format = "SYSTEM" -> {<<>>}

Accepts(slot, t) ==
  CASE slot[1] = "REGISTER" -> Kind(t) = "REGISTER"
    [] slot[1] = "NUMBER" -> Kind(t) = "NUMBER" /\ t[2] \in slot[3]
    [] slot[1] = "LABEL" -> Kind(t) \in {"ID", "LOCAL_REF"}
    [] OTHER -> Kind(t) = slot[1]

\* How many tokens a form accepts before the first that it does not
Accepted(form, tokens) ==
  LET n == Min({Len(form), Len(tokens)})
  IN Min({k - 1 : k \in {j \in 1..n : ~Accepts(form[j], tokens[j])}} \union {n})

\* What a form that has been followed puts in a field
Field(form, tokens, field, otherwise) ==
  LET i == SelectInSeq(form, LAMBDA slot : Len(slot) > 1 /\ slot[2] = field)
  IN IF i = 0 THEN otherwise ELSE tokens[i][2]

\* A load or a store may name what it accesses.
Named(op) == IF op \in DOMAIN Loads THEN Loads[op] ELSE IF op \in DOMAIN Stores THEN Stores[op] ELSE op

\* The instruction is held to the form that it follows for longest; a label is looked up
\* as soon as it is met, even if an error follows.
expectInstruction(p, op, tokens) ==
  LET form == CHOOSE f \in Forms(op) : \A g \in Forms(op) : Accepted(g, tokens) <= Accepted(f, tokens)
      n    == Accepted(form, tokens)
      at   == SelectInSeq(SubSeq(form, 1, n), LAMBDA slot : slot[1] = "LABEL")
      q    == IF at = 0 THEN p ELSE AfterReference(p, tokens[at])
      mode == form[at][3]
      registers == Instr(op, Field(form, tokens, "dest", IF op \in {"LA", "JAL"} THEN 1 ELSE 0),
                         Field(form, tokens, "src1", 0), Field(form, tokens, "src2", 0))
      instr == IF at = 0 THEN WithConstant(registers, Field(form, tokens, "constant", 0))
               ELSE [WithLabel(registers, mode, LabelOf(q, tokens[at]))
                       EXCEPT !.opcode = IF mode = "LBL" THEN Named(op) ELSE op]
  IN CASE q.crashed -> q
       [] ~q.crashed /\ n < Len(form) -> SyntaxError(q)
       [] ~q.crashed /\ n = Len(form) ->
            EndOfLine(Emit(q, Code(instr, line)), SubSeq(tokens, n + 1, Len(tokens)))

-----------------------------------------------------------------------------
(* Data.  An element of a list that is wrong ends the line, the ones       *)
(* before it stay.                                                         *)

HalfBytes == WordBytes \div 2
Fits(n, bytes) == -(ByteSize ^ bytes \div 2) <= n /\ n < ByteSize ^ bytes
LittleEndian(n, bytes) == [k \in 1..bytes |-> ByteOf(Wrap(n), k - 1)]

IsElement(directive, t) ==
  CASE directive = ".word" -> Kind(t) = "NUMBER"
    [] directive = ".half" -> Kind(t) = "NUMBER" /\ Fits(t[2], HalfBytes)
    [] directive = ".byte" -> \/ Kind(t) = "NUMBER" /\ Fits(t[2], 1)
                              \/ Kind(t) = "CHARACTER" /\ Len(t[2]) = 1
    [] directive = ".ascii" -> Kind(t) = "STRING"

\* The items of an element; a string has one for each byte.
ItemsOf(directive, t) ==
  IF Kind(t) = "NUMBER"
    THEN <<Data(LittleEndian(t[2], CASE directive = ".word" -> WordBytes
                                     [] directive = ".half" -> HalfBytes
                                     [] directive = ".byte" -> 1), line)>>
    ELSE [k \in DOMAIN t[2] |-> Data(<<t[2][k]>>, line)]

expectData(p, directive, tokens) ==
  LET IsList(k) == \A i \in 1..(2 * k - 1) :
                     IF i % 2 = 1 THEN IsElement(directive, tokens[i]) ELSE tokens[i] = Comma
      n == Max({k \in 0..((Len(tokens) + 1) \div 2) : k = 0 \/ IsList(k)})
      items == FlattenSeq([k \in 1..n |-> ItemsOf(directive, tokens[2 * k - 1])])
  IN IF n = 0 THEN SyntaxError(p)
     ELSE EndOfLine(EmitAll(p, items), SubSeq(tokens, 2 * n, Len(tokens)))

\* A negative number of bytes becomes a large one.
expectSpace(p, tokens) ==
  IF ~Starts(tokens, "NUMBER") THEN SyntaxError(p)
  ELSE EndOfLine(Emit(p, Space(Wrap(Head(tokens)[2]), line)), Tail(tokens))

expectAlign(p, directive, tokens) ==
  LET amount == Head(tokens)[2]
      modulo == IF directive = ".align" THEN 2 ^ amount ELSE amount
      padded == Len(tokens) > 1 /\ tokens[2] = Comma
      Padding(t) == Kind(t) = "NUMBER" /\ -(ByteSize \div 2) <= t[2] /\ t[2] <= ByteSize
  IN CASE ~Starts(tokens, "NUMBER") -> SyntaxError(p)
       [] Starts(tokens, "NUMBER") /\ (amount <= 0 \/ (directive = ".align" /\ amount >= WordBits)) -> SyntaxError(p)
       [] OTHER ->
            IF ~padded
              THEN EndOfLine(Emit(p, Alignment(modulo, p.curSection = "text", 0, line)), Tail(tokens))
            ELSE IF Len(tokens) > 2 /\ Padding(tokens[3])
              THEN EndOfLine(Emit(p, Alignment(modulo, FALSE, tokens[3][2] % ByteSize, line)), SubSeq(tokens, 4, Len(tokens)))
            ELSE SyntaxError(p)

-----------------------------------------------------------------------------
(* Lines *)

expectLineContent(p, tokens) ==
  LET kind == Kind(Head(tokens))
      rest == Tail(tokens)
  IN CASE kind = "MNEMONIC" -> expectInstruction(p, Head(tokens)[2], rest)
       [] kind = ".space" -> expectSpace(p, rest)
       [] kind \in {".word", ".half", ".byte", ".ascii"} -> expectData(p, kind, rest)
       [] kind \in {".align", ".balign"} -> expectAlign(p, kind, rest)
       [] OTHER -> SyntaxError(p)
AfterLabel(p, tokens) == IF tokens = <<>> THEN p ELSE expectLineContent(p, tokens)

\* A label declared twice is an error that does not end the line.
DeclareNamed(p, label) ==
  IF IsDeclared(p.object, label) THEN parserEmitError(p) ELSE Emit(p, Void(label, line))

Declaration(tokens) == Len(tokens) > 1 /\ tokens[2] = <<":">>

expectLine(p, tokens) ==
  LET kind == Kind(Head(tokens))
      rest == Tail(tokens)
  IN IF tokens = <<>> THEN p
     ELSE CASE kind = ".text" -> EndOfLine([p EXCEPT !.curSection = "text"], rest)
            [] kind = ".data" -> EndOfLine([p EXCEPT !.curSection = "data"], rest)
            [] kind = ".global" -> IF Starts(rest, "ID") THEN EndOfLine(p, Tail(rest)) ELSE SyntaxError(p)
            [] kind = "NUMBER" -> IF Head(tokens)[2] < 0 \/ ~Declaration(tokens) THEN SyntaxError(p)
                                  ELSE AfterLabel(parserDeclareLocalLabel(p, Head(tokens)[2]), Tail(rest))
            [] kind = "ID" -> IF ~Declaration(tokens) THEN SyntaxError(p)
                              ELSE AfterLabel(DeclareNamed(p, Head(tokens)[2]), Tail(rest))
            [] OTHER -> expectLineContent(p, tokens)

\* Files as the lexer takes them apart: there is no local label 0 to refer to, and a local label
\* is no name.
IsToken(t) ==
  /\ Kind(t) = "NUMBER" => t = Constant(t[2]) /\ t[2] \in Int
  /\ Kind(t) = "LOCAL_REF" => t[2] \in Int \ {0}
  /\ Kind(t) = "MNEMONIC" => t[2] \in Mnemonics
  /\ Kind(t) = "ID" => t[2][1] # ".local"
  /\ Kind(t) \in {"CHARACTER", "STRING"} => t[2] \in Seq(Range(t[2]))
IsLine(tokens) == tokens \in Seq(Range(tokens)) /\ \A t \in Range(tokens) : IsToken(t)
IsFile(lines) == lines \in Seq(Range(lines)) /\ \A tokens \in Range(lines) : IsLine(tokens)

\* One line; after too many errors the rest of the file is not read.
ParseLine ==
  /\ phase = "parse" /\ line <= Len(file)
  /\ parser' = expectLine([parser EXCEPT !.failed = FALSE], file[line])
  /\ line' = line + 1
  /\ phase' = CASE parser'.crashed -> "crashed"
               [] ~parser'.crashed /\ parser'.failed /\ parser'.numErrors > MaxErrors -> "rejected"
               [] OTHER -> "parse"
  /\ UNCHANGED file
===============================================================================
