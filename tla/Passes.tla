--------------------------------- MODULE Passes ---------------------------------
(***************************************************************************)
(* The programs of the toolchain run one after the other, each a sequence  *)
(* of passes.  The phase is the pass that runs: compile (acse), write (its *)
(* assembly file), parse, expand, address, resolve, encode (asrv32im),     *)
(* elf (its output), load and run (simrv32im).  Or it is how the work      *)
(* ended: error (of acse), rejected or failed (by asrv32im, or its output  *)
(* by the loader), crashed (asrv32im), exited or fault (the program).      *)
(***************************************************************************)
EXTENDS Instructions, SequencesExt

VARIABLE phase

-----------------------------------------------------------------------------
(* Lines of an assembly file, as acse writes them and the lexer of the     *)
(* assembler (asrv32im/lexer.c) takes them apart: a line is the tokens     *)
(* before its end, a token its kind, and its value if it has one.  A name  *)
(* is a tuple, the name of a label the program gave it or <<"l", ID>>.     *)

Comma == <<",">>
Colon == <<":">>
Mnemonic(op) == <<"MNEMONIC", op>>
Register(r)  == <<"REGISTER", r>>
Constant(n)  == <<"NUMBER", n>>
Name(n)      == <<"ID", n>>

-----------------------------------------------------------------------------
(* Object files of the assembler (asrv32im/object.c): two sections, each a *)
(* list of items in the order of the source.  A label points to an empty   *)
(* item of its own, put where it is declared.                              *)

Sections == {"text", "data"}

\* An item has the fields of every class; the ones that are not of its class stay as here.
\* The line it comes from is what the locations of the code amount to.  What the encoder
\* makes of an instruction is its word.
Item(class, line) ==
  [class |-> class, line |-> line, address |-> 0, size |-> 0, label |-> NoLabel,
   instr |-> Instr("NOP", 0, 0, 0), bytes |-> <<>>, modulo |-> 1, nopFill |-> FALSE, fillByte |-> 0,
   word |-> <<>>, offset |-> 0]

Void(label, line) == [Item("VOID", line) EXCEPT !.label = label]
Code(instr, line) == [Item("INSTR", line) EXCEPT !.instr = instr]
Data(bytes, line) == [Item("DATA", line) EXCEPT !.size = Len(bytes), !.bytes = bytes]
Space(size, line) == [Item("DATA", line) EXCEPT !.size = size]
Alignment(modulo, nopFill, fillByte, line) ==
  [Item("ALIGN", line) EXCEPT !.modulo = modulo, !.nopFill = nopFill, !.fillByte = fillByte]

newObject == [s \in Sections |-> <<>>]

objSecAppend(object, sec, item) == [object EXCEPT ![sec] = Append(@, item)]

\* The place of the item that a label points to
PlacesOf(object, label) ==
  UNION {{<<s, i>> : i \in {j \in DOMAIN object[s] : object[s][j].label = label}} : s \in Sections}
IsDeclared(object, label) == PlacesOf(object, label) # {}
PlaceOf(object, label) == CHOOSE p \in PlacesOf(object, label) : TRUE
ItemAt(object, p) == object[p[1]][p[2]]

objLabelGetPointer(object, label) ==
  IF IsDeclared(object, label) THEN ItemAt(object, PlaceOf(object, label)).address ELSE 0

\* The first item after a label that is not empty, or else the last of the section
objLabelGetPointedItem(object, label) ==
  LET sec  == PlaceOf(object, label)[1]
      from == PlaceOf(object, label)[2]
      last == Len(object[sec])
  IN <<sec, Min({i \in from..last : object[sec][i].class # "VOID" \/ i = last})>>
===============================================================================
