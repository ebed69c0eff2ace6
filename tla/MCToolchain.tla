------------------------------ MODULE MCToolchain ------------------------------
(***************************************************************************)
(* Words of 16 bits with immediates of 6: the text starts at 64, branches  *)
(* reach 64 bytes, jumps 1024.                                             *)
(***************************************************************************)
EXTENDS Toolchain

-----------------------------------------------------------------------------
(* LANCE programs *)

Scalar(v) == <<<<"declare", v>>>>
Array(v, n) == <<<<"declare", v, n>>>>
N(n) == <<<<"number", n>>>>
V(v) == <<<<"load", v>>>>
ElementOf(v, index) == index \o <<<<"element", v>>>>
Minus(e) == e \o <<<<"minus">>>>
Not(e)   == e \o <<<<"not">>>>
Op(op, d, e) == d \o e \o <<<<"binary", op>>>>
Both(d, e)   == d \o e \o <<<<"logical", "AND">>>>
Either(d, e) == d \o e \o <<<<"logical", "OR">>>>

Set(v, e) == e \o <<<<"assign", v>>>>
SetElement(v, index, e) == index \o e \o <<<<"assignElement", v>>>>
Ask(v) == <<<<"read", v>>>>
Show(e) == e \o <<<<"write">>>>
Leave == <<<<"return">>>>
IfThen(c, s, t) == c \o <<<<"if">>>> \o s \o <<<<"else">>>> \o t \o <<<<"endif">>>>
Loop(c, s)   == <<<<"while">>>> \o c \o <<<<"whileCondition">>>> \o s \o <<<<"endwhile">>>>
Repeat(s, c) == <<<<"do">>>> \o s \o c \o <<<<"dowhile">>>>
Program(s) == s \o <<<<"end">>>>

\* Each of the statements with labels around each of the others, with and without something
\* between the ends, and around two of them
Around(c, s) == {IfThen(c, s, <<>>), IfThen(c, <<>>, s), Loop(c, s), Repeat(s, c)}
Nested ==
  {Program(Scalar("n") \o Ask("n") \o outer) :
     outer \in UNION {Around(V("n"), inner \o after) :
                        inner \in Around(Op("SLT", V("n"), N(1)), Set("n", N(0))), after \in {<<>>, Set("n", N(0))}}}
  \union
  {Program(Scalar("n") \o outer) :
     outer \in UNION {Around(V("n"), middle) :
                        middle \in UNION {Around(Not(V("n")), inner) : inner \in Around(V("n"), <<>>)}}}
\* Labels pending together at the start, at the end and behind one another
Pending ==
  {Program(Scalar("n") \o Repeat(Repeat(Loop(V("n"), Ask("n")) \o Ask("n"), V("n")), Not(V("n")))),
   Program(Scalar("n") \o IfThen(V("n"), <<>>, <<>>) \o IfThen(N(1), Leave, <<>>)),
   Program(Loop(N(0), Loop(N(0), <<>>)) \o Loop(N(0), <<>>)),
   Program(Scalar("n") \o Ask("n") \o IfThen(V("n"), IfThen(V("n"), Show(V("n")), <<>>), Leave) \o Leave),
   Program(<<>>), Program(Leave)}

Computing ==
  {Program(Scalar("i") \o Array("a", 2) \o Scalar("s") \o
           Ask("i") \o SetElement("a", V("i"), N(-40)) \o SetElement("a", Op("SUB", N(1), V("i")), Minus(V("i"))) \o
           Set("s", Op("ADD", ElementOf("a", N(0)), ElementOf("a", N(1)))) \o Show(V("s")))}
  \union
  {Program(Scalar("m") \o Scalar("n") \o Ask("m") \o Ask("n") \o Show(e)) :
     e \in {Op(op, V("m"), V("n")) : op \in {"SGT", "SLE", "SGE", "SEQ", "SNE", "MUL", "DIV", "REM", "SRA"}}
             \union {Both(V("m"), V("n")), Either(V("m"), Not(V("n")))}}

TooLong == Program(Scalar("n") \o IfThen(V("n"), Show(N(1)) \o Show(N(2)) \o Show(N(3)) \o Show(N(4)) \o Show(N(5)), <<>>))
OutOfBounds == Program(Array("a", 1) \o SetElement("a", N(300), N(1)))

WithErrors ==
  {Program(Scalar("n") \o Array("n", 2)), Program(Array("a", 0)), Program(Show(V("n"))),
   Program(Array("a", 2) \o Show(V("a"))), Program(Scalar("n") \o Set("n", ElementOf("n", N(0)))),
   Program(Array("a", 2) \o Set("a", N(1))), Program(Scalar("n") \o SetElement("n", N(0), N(1))),
   Program(Array("a", 2) \o Ask("a")), Program(Set("n", N(1))), Program(Scalar("m") \o IfThen(V("m"), Ask("n"), <<>>))}

MCPrograms == Nested \union Pending \union Computing \union {TooLong, OutOfBounds} \union WithErrors

-----------------------------------------------------------------------------
(* Assembly files *)

LabelA == <<"l_", "a">>
LabelB == <<"l_", "b">>
Def(label) == <<Name(label), Colon>>
Here(n) == <<Constant(n), Colon>>
Local(n) == <<"LOCAL_REF", n>>
Jump_(to) == <<Mnemonic("J"), to>>
If0(r, to) == <<Mnemonic("BEQZ"), Register(r), Comma, to>>
Nop == <<Mnemonic("NOP")>>
D(directive) == <<<<directive>>>>
D1(directive, n) == <<<<directive>>, Constant(n)>>
Text == D(".text")
DataSection == D(".data")
Part(kind, label) == <<<<kind>>, <<"(">>, Name(label), <<")">>>>
R1(op) == <<Mnemonic(op), Register(1), Comma>>
R2(op) == <<Mnemonic(op), Register(1), Comma, Register(2), Comma>>

\* All files of a few lines
ManyLocalLabels ==
  [1..4 -> {Here(1), Here(2) \o Nop, Jump_(Local(1)), If0(1, Local(2)), Here(1) \o Jump_(Local(-1))}]
LocalLabels ==
  {\* the same number again and again, on lines of its own or not, in both sections
   <<Here(1), Jump_(Local(1)), Here(1) \o Jump_(Local(-1)), Here(2), If0(1, Local(1)), If0(1, Local(-2)),
     Here(1) \o Nop, Jump_(Local(-1)), Jump_(Local(1)), DataSection, Here(1), Text, Jump_(Local(-1))>>,
   \* one that is never declared
   <<Jump_(Local(1)), Nop>>, <<Nop, Jump_(Local(-1))>>,
   \* a line with an error
   <<Jump_(Local(1)) \o Nop, Here(1) \o <<Comma>>, Jump_(Local(-1))>>}

Addresses ==
  {<<Text, Def(LabelA) \o R1("LA") \o <<Name(LabelB)>>, R1("LW") \o <<Name(LabelB)>>,
     <<Mnemonic("SW"), Register(1), Comma, Name(LabelB), Comma, Register(2)>>,
     R1("LUI") \o Part("%hi", LabelB), R2("ADDI") \o Part("%lo", LabelB), R1("LUI") \o Part("%lo", LabelB),
     Here(1) \o R1("AUIPC") \o Part("%pcrel_hi", LabelB), Nop,
     R1("LW") \o <<<<"%pcrel_lo">>, <<"(">>, Local(-1), <<")">>, <<"(">>, Register(1), <<")">>>>,
     R1("JALR") \o <<Register(1), Comma, Constant(-4)>>, <<Mnemonic("JAL"), Name(LabelA)>>,
     DataSection, D1(".space", n), Def(LabelB) \o D1(".word", 7)>> : n \in {0, 20, 33, 5000}}
  \union
  {\* out of reach, not declared, and a low part of no high part
   <<Def(LabelA), D1(".space", 64), If0(1, Name(LabelA))>>, <<Def(LabelA), D1(".space", 66), If0(1, Name(LabelA))>>,
   <<Jump_(Name(LabelB)), D1(".space", 1022), Def(LabelB) \o Nop>>,
   <<Jump_(Name(LabelB)), D1(".space", 1020), Def(LabelB) \o Nop>>,
   <<R1("LA") \o <<Name(LabelB)>>>>, <<Def(LabelA), Nop, R2("ADDI") \o Part("%pcrel_lo", LabelA)>>}

Layouts ==
  {<<DataSection, D1(".byte", 1), D1(directive, n), Def(LabelB) \o D1(".word", -1),
     Text, Nop, <<<<".ascii">>, <<"STRING", <<65, 66, 67>>>>>>, D1(directive, n), Def(LabelA) \o R1("LA") \o <<Name(LabelB)>>>> :
     directive \in {".align", ".balign"}, n \in {1, 2, 3, 4}}
  \union
  {<<Text, Nop, D1(".balign", n), Jump_(Name(LabelA)), D1(".balign", 6) \o <<Comma, Constant(255)>>, Def(LabelA) \o Nop>> : n \in {5, 8}}
  \union
  {<<<<<<".byte">>, Constant(1), Comma, <<"CHARACTER", <<65>>>>>>, <<<<".half">>, Constant(-128), Comma, Constant(255)>>>>,
   <<D1(".space", 65000), Nop, DataSection, D1(".space", 1000)>>,
   \* sections that end with the last byte of memory, and go on behind it
   <<D1(".space", 65472), Def(LabelA), DataSection, Def(LabelB)>>,
   <<D1(".space", 65470), Nop, Jump_(Name(LabelA)), Def(LabelA), DataSection, D1(".space", 80)>>, <<<<<<".space">>, Constant(-1)>>>>}

Wrong ==
  {<<Def(LabelA), Def(LabelA) \o Nop>>, <<D1(".space", 1) \o <<Comma>>, Nop, <<Comma>>, Nop, <<Comma>>, <<Comma>>, Nop>>,
   <<D1(".byte", 256), D1(".align", 16)>>, <<R2("ADDI") \o <<Constant(32)>>>>, <<R2("SLLI") \o <<Constant(16)>>>>,
   <<D1(".balign", 0), <<Name(LabelA)>>>>, <<R1("LI") \o <<Constant(-40)>>, R1("LI") \o <<Comma>>>>,
   <<R1("ADD") \o <<Register(1), Comma, Register(2)>>, <<<<".global">>, Name(LabelA)>>, <<<<".global">>>>>>}

MCFiles == ManyLocalLabels \union LocalLabels \union Addresses \union Layouts \union Wrong
===============================================================================
