--------------------------------- MODULE Lance ---------------------------------
(***************************************************************************)
(* What a LANCE program means, whatever it is compiled to: statements run  *)
(* one after the other on variables that start as 0, and read and write    *)
(* numbers.  The text is the sequence of the semantic actions of the       *)
(* grammar, as in Compiler, expressions after their operands.  It is the   *)
(* specification that the toolchain implements.                            *)
(***************************************************************************)
EXTENDS RiscV, SequencesExt

CONSTANT Inputs  \* numbers the user may type

VARIABLES
  prog,   \* the text, which does not change
  at,     \* where the statement to be executed begins
  store,  \* the words of the variables, by name and index
  said    \* what the last step read or wrote, if it did

lanceVars == <<prog, at, store, said>>

-----------------------------------------------------------------------------
(* Structure of the text *)

Openers == {"if", "while", "do"}
Closers == {"endif", "endwhile", "dowhile"}
\* Each of these ends a statement, or the condition of one, and takes an expression or none.
StatementKinds == {"assign", "assignElement", "if", "whileCondition", "dowhile", "read", "write", "return", "end"}

KindAt(text, i) == text[i][1]
\* How many statements are open around a place, those that it opens or closes included
Level(text, i) ==
  Cardinality({j \in 1..i : KindAt(text, j) \in Openers}) - Cardinality({j \in 1..(i - 1) : KindAt(text, j) \in Closers})

Later(text, i, kind) ==
  Min({j \in i..Len(text) : KindAt(text, j) = kind /\ Level(text, j) = Level(text, i)})
Earlier(text, i, kind) ==
  Max({j \in 1..i : KindAt(text, j) = kind /\ Level(text, j) = Level(text, i)})

\* Where control goes from a place at which nothing is executed
Onward(text, i) ==
  CASE KindAt(text, i) \in {"declare", "endif", "while", "do"} -> i + 1
    [] KindAt(text, i) = "else" -> Later(text, i, "endif")
    [] KindAt(text, i) = "endwhile" -> Earlier(text, i, "while")
    [] OTHER -> i
Settled(text, i) ==
  LET settled[j \in DOMAIN text] == IF Onward(text, j) = j THEN j ELSE settled[Onward(text, j)] IN settled[i]

\* The place that ends the statement that begins at i, and where control goes after it:
\* to what follows it, or if the condition is false to behind the else, or the loop, and
\* if that of a do loop is true back to its begin.
Statement(text, i) == Min({j \in i..Len(text) : KindAt(text, j) \in StatementKinds})
After(text, i) == IF KindAt(text, i) = "end" THEN i ELSE Settled(text, Statement(text, i) + 1)
WhenFalse(text, i) ==
  LET s == Statement(text, i)
  IN CASE KindAt(text, s) = "if" -> Settled(text, Later(text, s, "else") + 1)
       [] KindAt(text, s) = "whileCondition" -> Settled(text, Later(text, s, "endwhile") + 1)
       [] OTHER -> After(text, i)
WhenTrue(text, i) ==
  LET s == Statement(text, i)
  IN IF KindAt(text, s) = "dowhile" THEN Settled(text, Earlier(text, s, "do")) ELSE After(text, i)

-----------------------------------------------------------------------------
(* Declarations and expressions *)

Declarations(text) == {i \in DOMAIN text : KindAt(text, i) = "declare"}
IsArray(d) == Len(d) = 3
Size(d) == IF IsArray(d) THEN d[3] ELSE 1

InitialStore(text) ==
  [v \in UNION {{<<text[i][2], k>> : k \in 0..(Size(text[i]) - 1)} : i \in Declarations(text)} |-> 0]

\* Names are declared once, with a size that makes sense, and used for what they are.
WellFormed(text) ==
  /\ \A i, j \in Declarations(text) : text[i][2] = text[j][2] => i = j
  /\ \A i \in Declarations(text) : IsArray(text[i]) => text[i][3] > 0
  /\ \A i \in DOMAIN text :
       KindAt(text, i) \in {"load", "assign", "read", "element", "assignElement"} =>
         \E j \in Declarations(text) :
           text[j][2] = text[i][2] /\ (IsArray(text[j]) <=> KindAt(text, i) \in {"element", "assignElement"})

Comparison(op, a, b) ==
  Bool(CASE op = "SEQ" -> a = b
         [] op = "SNE" -> a # b
         [] op = "SLT" -> Signed(a) < Signed(b)
         [] op = "SLE" -> Signed(a) <= Signed(b)
         [] op = "SGT" -> Signed(a) > Signed(b)
         [] op = "SGE" -> Signed(a) >= Signed(b))
ValueOf(op, a, b) ==
  IF op \in {"SEQ", "SNE", "SLT", "SLE", "SGT", "SGE"} THEN Comparison(op, a, b) ELSE Result(op, a, b)
\* && is AND of truth values, || is OR of them.
Connective(op, a, b) == Bool(IF op = "AND" THEN a # 0 /\ b # 0 ELSE a # 0 \/ b # 0)

\* The stack of values after one more action of an expression
Evaluate(values, action) ==
  LET n     == Len(values)
      kind  == action[1]
      On(k, v) == Append(SubSeq(values, 1, n - k), v)
  IN CASE kind = "number" -> Append(values, Wrap(action[2]))
       [] kind = "load" -> Append(values, store[<<action[2], 0>>])
       [] kind = "element" -> On(1, store[<<action[2], values[n]>>])
       [] kind = "minus" -> On(1, Wrap(-values[n]))
       [] kind = "not" -> On(1, Bool(values[n] = 0))
       [] kind = "binary" -> On(2, ValueOf(action[2], values[n - 1], values[n]))
       [] kind = "logical" -> On(2, Connective(action[2], values[n - 1], values[n]))

\* The values of the expressions of the statement to be executed
Operands == FoldLeft(Evaluate, <<>>, SubSeq(prog, at, Statement(prog, at) - 1))
statement == prog[Statement(prog, at)]

-----------------------------------------------------------------------------

LanceInit ==
  /\ at = Settled(prog, 1)
  /\ store = InitialStore(prog)
  /\ said = <<>>

Executes(kind) == statement[1] = kind /\ said \notin {<<"EXIT">>, <<"FAULT">>}
Quietly == said' = <<>>
GoesOn == at' = After(prog, at)

Assigns ==
  /\ Executes("assign")
  /\ store' = [store EXCEPT ![<<statement[2], 0>>] = Operands[1]]
  /\ GoesOn /\ Quietly

Element == <<statement[2], Operands[1]>>

AssignsElement ==
  /\ Executes("assignElement") /\ Element \in DOMAIN store
  /\ store' = [store EXCEPT ![Element] = Operands[2]]
  /\ GoesOn /\ Quietly

\* An index out of bounds leads outside of memory; where it leads elsewhere is not specified.
Strays ==
  /\ Executes("assignElement") /\ Element \notin DOMAIN store
  /\ said' = <<"FAULT">>
  /\ UNCHANGED <<at, store>>

Tests ==
  /\ Executes("if") \/ Executes("whileCondition") \/ Executes("dowhile")
  /\ at' = IF Operands[1] = 0 THEN WhenFalse(prog, at) ELSE WhenTrue(prog, at)
  /\ Quietly /\ UNCHANGED store

\* A number is read, then it is stored.
Reads ==
  /\ Executes("read")
  /\ IF said # <<>> /\ said[1] = "READ_INT"
       THEN /\ store' = [store EXCEPT ![<<statement[2], 0>>] = said[2]]
            /\ GoesOn /\ Quietly
       ELSE /\ \E v \in Inputs : said' = <<"READ_INT", v>>
            /\ UNCHANGED <<at, store>>

\* A number is printed, then the end of the line.
Writes ==
  /\ Executes("write")
  /\ IF said # <<>> /\ said[1] = "PRINT_INT"
       THEN said' = <<"PRINT_CHAR", 10>> /\ GoesOn
       ELSE said' = <<"PRINT_INT", Operands[1]>> /\ UNCHANGED at
  /\ UNCHANGED store

Exits ==
  /\ Executes("return") \/ Executes("end")
  /\ said' = <<"EXIT">>
  /\ UNCHANGED <<at, store>>

LanceNext == UNCHANGED prog /\ (Assigns \/ AssignsElement \/ Strays \/ Tests \/ Reads \/ Writes \/ Exits)

\* A program with errors never runs.
LanceSpec == LanceInit /\ [][WellFormed(prog) /\ LanceNext]_lanceVars
===============================================================================
