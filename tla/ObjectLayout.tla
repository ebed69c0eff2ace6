------------------------------ MODULE ObjectLayout ------------------------------
(***************************************************************************)
(* From an object to an executable: objMaterialize (asrv32im/object.c),    *)
(* encResolveImmediates and encPhysicalInstruction (encode.c) and          *)
(* outputToELF (output.c).  Each pass goes through the sections, text      *)
(* first, an item at a time.                                               *)
(***************************************************************************)
EXTENDS Passes

VARIABLES
  object,
  sec, pos, \* the item the pass has come to
  curAddr,
  start, size,  \* of the sections
  fileOffset    \* where the next byte of the file goes

layoutVars == <<object, sec, pos, curAddr, start, size, fileOffset>>

FirstAddress == 2 ^ ImmBits  \* 0x1000

ASSUME AddressAssumption == WordSize \in Nat /\ FirstAddress \in Word

LayoutInit ==
  /\ sec = "text" /\ pos = 1
  /\ curAddr = FirstAddress
  /\ start = [s \in Sections |-> FirstAddress]
  /\ size = [s \in Sections |-> 0]
  /\ fileOffset = 0

AtItem(pass) == phase = pass /\ pos <= Len(object[sec])
item == object[sec][pos]
Becomes(i) == object' = [object EXCEPT ![sec][pos] = i]
NextItem == pos' = pos + 1 /\ UNCHANGED sec

\* After the data section, the next pass
EndOfSection(pass, next) ==
  /\ phase = pass /\ pos > Len(object[sec])
  /\ pos' = 1
  /\ IF sec = "text" THEN sec' = "data" /\ phase' = phase ELSE sec' = "text" /\ phase' = next

-----------------------------------------------------------------------------
(* objSecExpandPseudoInstructions *)

ExpandedItem ==
  IF item.class = "INSTR"
    THEN LET code == encExpandPseudoInstruction(item.instr)
         IN [k \in DOMAIN code |-> Code(code[k], item.line)]
    ELSE <<item>>

\* Fault: the list has changed, so the loop starts over, even after an instruction that stayed as it was.
ExpandStartingOver ==
  /\ AtItem("expand")
  /\ object' = [object EXCEPT ![sec] = SubSeq(@, 1, pos - 1) \o ExpandedItem \o SubSeq(@, pos + 1, Len(@))]
  /\ pos' = IF item.class = "INSTR" THEN 1 ELSE pos + 1
  /\ UNCHANGED <<phase, sec, curAddr, start, size, fileOffset>>

\* Instructions take the place of a pseudo-instruction and are not expanded themselves.
Expand ==
  /\ AtItem("expand")
  /\ object' = [object EXCEPT ![sec] = SubSeq(@, 1, pos - 1) \o ExpandedItem \o SubSeq(@, pos + 1, Len(@))]
  /\ pos' = pos + Len(ExpandedItem)
  /\ UNCHANGED <<phase, sec, curAddr, start, size, fileOffset>>

Expanded ==
  /\ EndOfSection("expand", "address")
  /\ UNCHANGED <<object, curAddr, start, size, fileOffset>>

-----------------------------------------------------------------------------
(* objSecMaterializeAddresses *)

Instruction == WordBytes  \* encGetInstrLength
Padding(address, modulo) == IF address % modulo = 0 THEN 0 ELSE modulo - (address % modulo)

SizeOf(i, address) ==
  CASE i.class = "DATA" -> i.size
    [] i.class = "ALIGN" -> Padding(address, i.modulo)
    [] i.class = "INSTR" -> Instruction
    [] i.class = "VOID" -> 0

\* Fault: padding in the text is always made of instructions.
FillsWhenAsked(i, address, n) == i.nopFill

\* Padding in the text is made of instructions, if they fit.
FillsWithNops(i, address, n) == i.nopFill /\ n % Instruction = 0 /\ address % Instruction = 0

Placed(i, address) ==
  LET n == SizeOf(i, address)
  IN [i EXCEPT !.address = address,
               !.size = IF i.class = "ALIGN" THEN n ELSE @,
               !.nopFill = IF sec = "text" THEN FillsWithNops(i, address, n) ELSE @]

Place ==
  /\ AtItem("address")
  /\ LET n == SizeOf(item, curAddr)
     IN /\ Becomes(Placed(item, curAddr))
        /\ IF n > WordSize - curAddr
             THEN phase' = "failed" /\ UNCHANGED <<size, curAddr>>
             ELSE /\ size' = [size EXCEPT ![sec] = @ + n]
                  /\ curAddr' = Wrap(curAddr + n)
                  /\ UNCHANGED phase
  /\ NextItem
  /\ UNCHANGED <<start, fileOffset>>

AllPlaced ==
  /\ EndOfSection("address", "resolve")
  /\ start' = IF sec = "text" THEN [start EXCEPT !["data"] = curAddr] ELSE start
  /\ UNCHANGED <<object, curAddr, size, fileOffset>>

-----------------------------------------------------------------------------
(* encResolveImmediates *)

\* Numbers of so many bits, the highest one being their sign
SignedBits(n) == (-(2 ^ (n - 1)))..(2 ^ (n - 1) - 1)
Reach(op) ==
  CASE op = "JAL" -> SignedBits(WordBits - ImmBits + 1)
    [] op = "JALR" -> SignedBits(ImmBits)
    [] op \in Conditions -> SignedBits(ImmBits + 1)
    [] OTHER -> SignedBits(WordBits)

Pointer(label) == objLabelGetPointer(object, label)
\* How far a label is from an address, as a signed number
Distance(label, address) == Signed(Wrap(Pointer(label) - address))

\* Of the instruction that %pcrel_lo names: it must load the high part of an address.
HighPartOf(label) == ItemAt(object, objLabelGetPointedItem(object, label))
IsHighPart(i) == i.class = "INSTR" /\ i.instr.immMode = "PCREL_HI20"

Resolvable(i) ==
  LET instr == i.instr
      label == instr.label
  IN CASE instr.immMode = "CONST" -> TRUE
       [] instr.immMode # "CONST" /\ ~IsDeclared(object, label) -> FALSE
       [] instr.immMode = "LBL" /\ IsDeclared(object, label) -> Distance(label, i.address) \in Reach(instr.opcode)
       [] instr.immMode = "PCREL_LO12" /\ IsDeclared(object, label) ->
            IsHighPart(HighPartOf(label)) /\ IsDeclared(object, HighPartOf(label).instr.label)
       [] OTHER -> TRUE

\* The high part of a pair that an expansion made is in the instruction before.
\* Fault: the low part is relative to the instruction that it is in.
LowPartAddress(i) == i.address
HighPartAddress(i) == i.address - Instruction

Resolved(i) ==
  LET instr == i.instr
      label == instr.label
      far(address) == Wrap(Pointer(label) - address)
  IN CASE instr.immMode = "CONST" -> instr.constant
       [] instr.immMode = "LBL" -> Distance(label, i.address)
       [] instr.immMode = "LO12" -> LO_12(Pointer(label))
       [] instr.immMode = "HI20" -> HI_20(Pointer(label))
       [] instr.immMode = "PCREL_HI20" -> HI_20(far(i.address))
       [] instr.immMode = "PCREL_LO12_DIRECT" -> LO_12(far(HighPartAddress(i)))
       [] instr.immMode = "PCREL_LO12" ->
            LO_12(Wrap(Pointer(HighPartOf(label).instr.label) - HighPartOf(label).address))

Resolve ==
  /\ AtItem("resolve")
  /\ IF item.class # "INSTR" \/ Resolvable(item)
       THEN /\ Becomes(IF item.class = "INSTR" THEN [item EXCEPT !.instr.constant = Resolved(item)] ELSE item)
            /\ UNCHANGED phase
       ELSE phase' = "failed" /\ UNCHANGED object
  /\ NextItem
  /\ UNCHANGED <<curAddr, start, size, fileOffset>>

AllResolved ==
  /\ EndOfSection("resolve", "encode")
  /\ UNCHANGED <<object, curAddr, start, size, fileOffset>>

-----------------------------------------------------------------------------
(* encPhysicalInstruction.  Encoding has the bits; here a word is its      *)
(* fields, the immediate cut to the bits its format has.                   *)

\* The number that a field of n bits, their sign first, keeps of x
Cut(x, n) == LET low == x % 2 ^ n IN IF low >= 2 ^ (n - 1) THEN low - 2 ^ n ELSE low
Even(x) == x - (x % 2)

\* x is the constant of the instruction, and the bits its opcode sets there.
FieldOf(format, x) ==
  CASE format \in {"I", "S"} -> Cut(x, ImmBits)
    [] format = "B" -> Even(Cut(x, ImmBits + 1))
    [] format = "J" -> Even(Cut(x, WordBits - ImmBits + 1))
    [] format = "U" -> x % 2 ^ (WordBits - ImmBits)
    [] format = "R" -> 0

WordOf(instr) ==
  LET info == opInstData[instr.opcode]
  IN [opcode |-> instr.opcode, rd |-> instr.dest, rs1 |-> instr.src1, rs2 |-> instr.src2,
      imm |-> FieldOf(info[1], IF info[1] \in {"I", "S"} THEN instr.constant + info[4] ELSE instr.constant)]

\* An instruction becomes data.  What it was is kept, for the properties only.
Encode ==
  /\ AtItem("encode")
  /\ Becomes(IF item.class = "INSTR"
               THEN [item EXCEPT !.class = "DATA", !.size = Instruction, !.word = WordOf(item.instr)]
               ELSE item)
  /\ NextItem
  /\ UNCHANGED <<phase, curAddr, start, size, fileOffset>>

-----------------------------------------------------------------------------
(* outputToELF, and the loader of the simulator (simrv32im/loader.c).  The *)
(* bytes of the sections follow the header.                                *)

HeaderSize == 52 + 2 * 32 + 4 * 40
SectionOffset(s) == HeaderSize + (IF s = "data" THEN size["text"] ELSE 0)

AllEncoded ==
  /\ EndOfSection("encode", "elf")
  /\ fileOffset' = HeaderSize
  /\ UNCHANGED <<object, curAddr, start, size>>

\* Bytes that an item puts in the file
Written(i) ==
  IF i.nopFill THEN Instruction * ((i.size + Instruction - 1) \div Instruction) ELSE i.size

Write ==
  /\ AtItem("elf")
  /\ Becomes([item EXCEPT !.offset = fileOffset])
  /\ fileOffset' = fileOffset + Written(item)
  /\ NextItem
  /\ UNCHANGED <<phase, curAddr, start, size>>

SectionWritten ==
  /\ EndOfSection("elf", "load")
  /\ fileOffset' = SectionOffset("data")
  /\ UNCHANGED <<object, curAddr, start, size>>

\* A label that was referred to only has no pointer, but then it was not resolved either.
Entry == IF IsDeclared(object, <<"_start">>) THEN Pointer(<<"_start">>) ELSE start["text"]

\* Where the loader puts the first byte of an item: a segment is read to its address.
LoadAddress(s, i) == start[s] + i.offset - SectionOffset(s)
SegmentsApart ==
  LET SpanOf(s) == start[s]..(start[s] + size[s] - 1) IN SpanOf("text") \intersect SpanOf("data") = {}

Load ==
  /\ phase = "load"
  /\ phase' = IF SegmentsApart THEN "run" ELSE "failed"
  /\ UNCHANGED layoutVars

\* Items as the parser makes them; only in the text padding may be made of instructions.
WellFormedItem(s, i) ==
  /\ {"class", "label", "address", "size", "instr", "modulo", "nopFill", "word", "offset"} \subseteq DOMAIN i
  /\ i.class \in {"VOID", "DATA", "ALIGN", "INSTR"}
  /\ i.size \in Nat /\ (i.class = "VOID" => i.size = 0)
  /\ i.modulo \in Nat \ {0}
  /\ i.nopFill => s = "text"
ItemsWellFormed ==
  /\ DOMAIN object = Sections
  /\ \A s \in Sections :
       /\ object[s] \in Seq(Range(object[s]))
       /\ \A i \in Range(object[s]) : WellFormedItem(s, i)

\* What an instruction takes from a label its format has room for.
HighModes == {"HI20", "PCREL_HI20"}
LowModes  == {"LO12", "PCREL_LO12", "PCREL_LO12_DIRECT"}
Jumps     == Conditions \union {"JAL"}
Pseudo ==
  {"LA", "J"} \union DOMAIN GlobalLoads \union DOMAIN GlobalStores
    \union DOMAIN Swapped \union DOMAIN WithZero \union DOMAIN ZeroWith
\* The opcode sets no bit of the immediate.
AddsNothing(op) ==
  op \in DOMAIN opInstData /\ (opInstData[op][1] \in {"I", "S"} => opInstData[op][4] = 0)
TakesWhatFits(instr, jumps) ==
  /\ {"opcode", "immMode", "constant", "label"} \subseteq DOMAIN instr
  /\ instr.immMode \in HighModes => instr.opcode \in {"LUI", "AUIPC"}
  /\ instr.immMode \in LowModes => AddsNothing(instr.opcode)
  /\ instr.immMode = "LBL" => instr.opcode \in jumps
\* Only an expansion makes low parts of the instruction before.
OfFile(instr) == TakesWhatFits(instr, Jumps \union Pseudo) /\ instr.immMode # "PCREL_LO12_DIRECT"
ParsedItem(i) == i.word = <<>> /\ (i.class = "INSTR" => OfFile(i.instr))
ReferencesFit == \A s \in Sections : \A k \in DOMAIN object[s] : ParsedItem(object[s][k])

LayoutNext ==
  \/ Expand \/ Expanded \/ Place \/ AllPlaced \/ Resolve \/ AllResolved
  \/ Encode \/ AllEncoded \/ Write \/ SectionWritten

LayoutSpec ==
  /\ phase = "expand" /\ LayoutInit /\ ItemsWellFormed /\ ReferencesFit
  /\ [][LayoutNext \/ Load]_<<phase, layoutVars>>

-----------------------------------------------------------------------------
(* Properties *)

\* The loader puts every item where its label says it is, one after the other from the start
\* of its section to the end, padded as asked, and the sections apart if they fit into memory.
\* Addresses wrap, so that what follows a section that ends with the last byte of memory is at 0.
ImageMatchesLayout ==
  /\ phase = "expand" => ItemsWellFormed
  /\ phase = "load" =>
       /\ FirstAddress + size["text"] + size["data"] <= WordSize => SegmentsApart
       /\ \A s \in Sections : \A k \in DOMAIN object[s] :
            LET i == object[s][k]
                end == i.address + i.size
            IN /\ Wrap(LoadAddress(s, i)) = i.address
               /\ Wrap(end) = IF k = Len(object[s]) THEN Wrap(start[s] + size[s]) ELSE object[s][k + 1].address
               /\ i.class = "ALIGN" => end % i.modulo = 0
===============================================================================
