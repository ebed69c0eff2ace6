--------------------------- MODULE ToolchainProofs ---------------------------
(***************************************************************************)
(* Proofs about the toolchain.  For every object that a parser could make, *)
(* of whatever size, the bytes of the executable come to where the labels  *)
(* say, and its jumps and addresses lead to them.  For every LANCE         *)
(* program, however its statements are nested, the labels of the code that *)
(* acse makes are sound.                                                   *)
(***************************************************************************)
EXTENDS Toolchain, SequenceTheorems, FiniteSetTheorems, WellFoundedInduction, TLAPS

-----------------------------------------------------------------------------
(* Remainders *)

LEMMA Division ==
  ASSUME NEW a \in Int, NEW m \in Nat \ {0}
  PROVE  /\ (a % m) \in 0..(m - 1)
         /\ (a \div m) \in Int
         /\ a = (m * (a \div m)) + (a % m)
  OBVIOUS

LEMMA Remainder1 ==
  ASSUME NEW m \in Nat \ {0}, NEW q \in Int, NEW r \in 0..(m - 1)
  PROVE  ((m * q) + r) % m = r
  <1> DEFINE z == (m * q) + r
  <1>1. z \in Int
    OBVIOUS
  <1>2. z = (m * (z \div m)) + (z % m) /\ (z % m) \in 0..(m - 1) /\ (z \div m) \in Int
    BY <1>1, Division
  <1> DEFINE d == q - (z \div m)
  <1>3. m * d = (z % m) - r /\ d \in Int
    BY <1>2
  <1> HIDE DEF z, d
  <1>4. CASE d = 0
    BY <1>2, <1>3, <1>4 DEF z
  <1>5. CASE d >= 1
    <2>1. m * d >= m
      BY <1>3, <1>5
    <2>2. QED BY <2>1, <1>2, <1>3 DEF z
  <1>6. CASE d <= -1
    <2>1. m * d <= -m
      BY <1>3, <1>6
    <2>2. QED BY <2>1, <1>2, <1>3 DEF z
  <1>7. QED BY <1>3, <1>4, <1>5, <1>6 DEF z

\* Wrapping a sum again changes nothing.
LEMMA SumOfRemainder ==
  ASSUME NEW m \in Nat \ {0}, NEW a \in Int, NEW b \in Int
  PROVE  ((a % m) + b) % m = (a + b) % m
  <1> DEFINE q == a \div m
             y == (a % m) + b
             p == y \div m
             r == y % m
  <1>1. a = (m * q) + (a % m) /\ q \in Int /\ (a % m) \in Int
    BY Division
  <1>2. y = (m * p) + r /\ p \in Int /\ r \in 0..(m - 1)
    <2>1. y \in Int
      BY <1>1
    <2> HIDE DEF y
    <2>2. QED BY <2>1, Division
  <1>3. a + b = (m * (q + p)) + r
    BY <1>1, <1>2
  <1>4. q + p \in Int
    BY <1>1, <1>2
  <1> HIDE DEF q, p, y
  <1>5. ((m * (q + p)) + r) % m = r
    BY <1>2, <1>4, Remainder1
  <1>6. QED BY <1>3, <1>5 DEF y

LEMMA SmallRemainder ==
  ASSUME NEW m \in Nat \ {0}, NEW r \in 0..(m - 1)
  PROVE  r % m = r
  <1>1. ((m * 0) + r) % m = r
    BY Remainder1
  <1>2. QED BY <1>1

\* What padding is for
LEMMA PaddingAligns ==
  ASSUME NEW address \in Nat, NEW modulo \in Nat \ {0}
  PROVE  Padding(address, modulo) \in Nat /\ (address + Padding(address, modulo)) % modulo = 0
  <1> DEFINE q == address \div modulo
  <1>1. address = (modulo * q) + (address % modulo) /\ q \in Int /\ (address % modulo) \in 0..(modulo - 1)
    BY Division
  <1>2. CASE address % modulo = 0
    BY <1>1, <1>2 DEF Padding
  <1>3. CASE address % modulo # 0
    <2>1. address + Padding(address, modulo) = (modulo * (q + 1)) + 0 /\ q + 1 \in Int
      BY <1>1, <1>3 DEF Padding
    <2>2. ((modulo * (q + 1)) + 0) % modulo = 0
      BY <2>1, Remainder1
    <2>3. QED BY <2>1, <2>2, <1>1, <1>3 DEF Padding
  <1>4. QED BY <1>2, <1>3

\* Padding made of whole instructions is written as long as it is.
LEMMA WholeInstructions ==
  ASSUME NEW n \in Nat, NEW m \in Nat \ {0}, n % m = 0
  PROVE  m * ((n + m - 1) \div m) = n
  <1> DEFINE q == n \div m
             z == n + m - 1
  <1>1. n = m * q /\ q \in Int
    BY Division
  <1>2. z = (m * q) + (m - 1)
    BY <1>1
  <1>3. z % m = m - 1
    <2>1. m - 1 \in 0..(m - 1)
      OBVIOUS
    <2> DEFINE r == m - 1
    <2> HIDE DEF q, r
    <2>2. ((m * q) + r) % m = r
      BY <2>1, <1>1, Remainder1 DEF r
    <2>3. QED BY <2>2, <1>2 DEF r
  <1>4. z \in Int /\ z = (m * (z \div m)) + (z % m)
    BY Division
  <1>5. m * (z \div m) = n
    BY <1>1, <1>2, <1>3, <1>4
  <1>6. QED BY <1>5

-----------------------------------------------------------------------------
(* The inductive invariant *)

Extent(i) == IF i.class = "INSTR" THEN Instruction ELSE i.size

\* An item has its address, and what follows it begins at next.
LaidItem(i, next) ==
  /\ i.address \in Word
  /\ Wrap(i.address + Extent(i)) = next
  /\ i.class = "ALIGN" => (i.address + i.size) % i.modulo = 0
  /\ i.nopFill => Extent(i) % Instruction = 0

\* The first n items of q lie one after the other between two addresses.
Laid(q, from, n, to) ==
  /\ n = 0 => to = from
  /\ n > 0 => q[1].address = from
  /\ \A k \in 1..n : LaidItem(q[k], IF k = n THEN to ELSE q[k + 1].address)

Types ==
  /\ sec \in Sections
  /\ pos \in Nat \ {0}
  /\ curAddr \in Word
  /\ start \in [Sections -> Word]
  /\ size \in [Sections -> Nat]
  /\ fileOffset \in Nat
  /\ ItemsWellFormed
  /\ pos <= Len(object[sec]) + 1

\* The items that the pass has gone through
Behind(s) == {k \in DOMAIN object[s] : (s = sec /\ k < pos) \/ (s = "text" /\ sec = "data")}
EndOf(s) == Wrap(start[s] + size[s])

Expanding ==
  phase = "expand" =>
    /\ curAddr = FirstAddress
    /\ start = [s \in Sections |-> FirstAddress]
    /\ size = [s \in Sections |-> 0]

Addressing ==
  phase = "address" =>
    /\ start["text"] = FirstAddress
    /\ curAddr = EndOf(sec)
    /\ Laid(object[sec], start[sec], pos - 1, curAddr)
    /\ sec = "text" => start["data"] = FirstAddress /\ size["data"] = 0
    /\ sec = "data" => /\ start["data"] = EndOf("text")
                       /\ Laid(object["text"], FirstAddress, Len(object["text"]), start["data"])

Addressed ==
  phase \in {"resolve", "encode", "elf", "load"} =>
    /\ start["text"] = FirstAddress
    /\ start["data"] = EndOf("text")
    /\ \A s \in Sections : Laid(object[s], start[s], Len(object[s]), EndOf(s))

\* There are no instructions left.
Encoded ==
  \A s \in Sections : \A k \in DOMAIN object[s] :
    phase \in {"elf", "load"} \/ (phase = "encode" /\ k \in Behind(s)) => object[s][k].class # "INSTR"

\* The place in the file goes along with the address in memory.
Filed ==
  /\ phase = "elf" =>
       Wrap(start[sec] + fileOffset - SectionOffset(sec))
         = IF pos <= Len(object[sec]) THEN object[sec][pos].address ELSE EndOf(sec)
  /\ \A s \in Sections : \A k \in DOMAIN object[s] :
       phase = "load" \/ (phase = "elf" /\ k \in Behind(s)) =>
         /\ object[s][k].offset \in Nat
         /\ Wrap(LoadAddress(s, object[s][k])) = object[s][k].address

IInv == Types /\ Expanding /\ Addressing /\ Addressed /\ Encoded /\ Filed

-----------------------------------------------------------------------------
(* Sequences of items *)

LEMMA Constants1 == WordSize \in Nat \ {0} /\ Instruction \in Nat \ {0} /\ FirstAddress \in Word /\ Word \subseteq Nat
  BY AddressAssumption, WidthAssumption DEF Word, Instruction

LEMMA AddressIsNumber ==
  ASSUME NEW a \in Word
  PROVE  a \in Nat /\ a \in Int
  BY AddressAssumption DEF Word

LEMMA WrapProperties ==
  ASSUME NEW a \in Int, NEW b \in Int
  PROVE  /\ Wrap(a) \in Word
         /\ Wrap(Wrap(a) + b) = Wrap(a + b)
         /\ a \in Word => Wrap(a) = a
  <1>1. Wrap(a) \in Word
    BY Constants1, Division DEF Wrap, Word
  <1>2. Wrap(Wrap(a) + b) = Wrap(a + b)
    BY Constants1, SumOfRemainder DEF Wrap
  <1>3. a \in Word => Wrap(a) = a
    BY Constants1, SmallRemainder DEF Wrap, Word
  <1>4. QED BY <1>1, <1>2, <1>3

LEMMA SequenceOfItsElements ==
  ASSUME NEW T, NEW q \in Seq(T)
  PROVE  q \in Seq(Range(q)) /\ Len(q) \in Nat /\ DOMAIN q = 1..Len(q)
  <1>1. /\ q \in [1..Len(q) -> Range(q)]
        /\ Len(q) \in Nat
    BY DEF Range
  <1>2. QED BY <1>1

LEMMA ItemFacts ==
  ASSUME ItemsWellFormed, NEW s \in Sections
  PROVE  /\ Len(object[s]) \in Nat
         /\ DOMAIN object[s] = 1..Len(object[s])
         /\ \A k \in 1..Len(object[s]) : WellFormedItem(s, object[s][k])
  <1>1. object[s] \in Seq(Range(object[s]))
    BY DEF ItemsWellFormed
  <1>2. Len(object[s]) \in Nat /\ DOMAIN object[s] = 1..Len(object[s])
    BY <1>1, SequenceOfItsElements
  <1>3. QED BY <1>2 DEF ItemsWellFormed, Range

\* A well-formed item in the place of another one
LEMMA Replacement ==
  ASSUME ItemsWellFormed, sec \in Sections, pos \in 1..Len(object[sec]),
         NEW j, WellFormedItem(sec, j), Becomes(j)
  PROVE  /\ ItemsWellFormed'
         /\ \A s \in Sections : Len(object'[s]) = Len(object[s])
         /\ \A s \in Sections : \A k \in 1..Len(object[s]) :
              object'[s][k] = IF s = sec /\ k = pos THEN j ELSE object[s][k]
  <1> DEFINE q == object[sec]
             r == [q EXCEPT ![pos] = j]
  <1>1. DOMAIN object = Sections /\ q \in Seq(Range(q))
    BY DEF ItemsWellFormed
  <1>2. /\ DOMAIN object' = Sections
        /\ object'[sec] = r
        /\ \A s \in Sections \ {sec} : object'[s] = object[s]
    BY <1>1 DEF Becomes
  <1>3. DOMAIN q = 1..Len(q) /\ Len(q) \in Nat
    BY <1>1, SequenceOfItsElements
  <1>4. r \in Seq(Range(q) \union {j}) /\ Len(r) = Len(q)
    BY <1>1, <1>3 DEF Range
  <1>5. \A k \in 1..Len(q) : r[k] = IF k = pos THEN j ELSE q[k]
    BY <1>3
  <1>6. r \in Seq(Range(r)) /\ DOMAIN r = 1..Len(q)
    BY <1>4, SequenceOfItsElements
  <1>7. \A i \in Range(r) : WellFormedItem(sec, i)
    BY <1>5, <1>6, ItemFacts DEF Range
  <1>8. ItemsWellFormed'
    BY <1>2, <1>6, <1>7 DEF ItemsWellFormed
  <1> HIDE DEF r
  <1>9. QED BY <1>2, <1>4, <1>5, <1>8

-----------------------------------------------------------------------------
(* Laying out *)

\* One more item, put where the ones before end
LEMMA LaidOneMore ==
  ASSUME NEW q, NEW r, NEW n \in Nat, NEW from, NEW to, NEW next,
         Laid(q, from, n, to),
         \A k \in 1..n : r[k] = q[k],
         r[n + 1].address = to,
         LaidItem(r[n + 1], next)
  PROVE  Laid(r, from, n + 1, next)
  <1>1. r[1].address = from
    BY DEF Laid
  <1>2. ASSUME NEW k \in 1..(n + 1)
        PROVE  LaidItem(r[k], IF k = n + 1 THEN next ELSE r[k + 1].address)
    <2>1. CASE k = n + 1
      BY <2>1
    <2>2. CASE k = n /\ k # n + 1
      <3>1. LaidItem(q[k], to)
        BY <2>2, <1>2 DEF Laid
      <3>2. QED BY <3>1, <2>2, <1>2
    <2>3. CASE k < n
      <3>1. LaidItem(q[k], q[k + 1].address)
        BY <2>3, <1>2 DEF Laid
      <3>2. r[k] = q[k] /\ r[k + 1] = q[k + 1]
        BY <2>3, <1>2
      <3>3. QED BY <3>1, <3>2, <2>3
    <2>4. QED BY <1>2, <2>1, <2>2, <2>3
  <1>3. n + 1 # 0
    OBVIOUS
  <1>4. QED BY <1>1, <1>2, <1>3 DEF Laid

\* Nothing that matters to the layout changes in an item.
Alike(i, j) ==
  /\ j.address = i.address
  /\ Extent(j) = Extent(i)
  /\ j.class = "ALIGN" => i.class = "ALIGN" /\ j.size = i.size /\ j.modulo = i.modulo
  /\ j.nopFill => i.nopFill

LEMMA LaidAlike ==
  ASSUME NEW q, NEW r, NEW n \in Nat, NEW from, NEW to,
         Laid(q, from, n, to),
         \A k \in 1..n : Alike(q[k], r[k])
  PROVE  Laid(r, from, n, to)
  <1>1. n > 0 => r[1].address = from
    BY DEF Laid, Alike
  <1>2. ASSUME NEW k \in 1..n
        PROVE  LaidItem(r[k], IF k = n THEN to ELSE r[k + 1].address)
    <2> DEFINE next(p) == IF k = n THEN to ELSE p[k + 1].address
    <2>1. LaidItem(q[k], next(q))
      BY DEF Laid
    <2>2. next(r) = next(q)
      BY DEF Alike
    <2>3. Alike(q[k], r[k])
      OBVIOUS
    <2> HIDE DEF next
    <2>4. LaidItem(r[k], next(r))
      BY <2>1, <2>2, <2>3 DEF LaidItem, Alike
    <2>5. QED BY <2>4 DEF next
  <1>3. n = 0 => to = from
    BY DEF Laid
  <1>4. QED BY <1>1, <1>2, <1>3 DEF Laid

\* An item that is placed where there is room for it
LEMMA PlacedIsLaid ==
  ASSUME sec \in Sections, NEW i, WellFormedItem(sec, i), NEW a \in Word
  PROVE  /\ WellFormedItem(sec, Placed(i, a))
         /\ SizeOf(i, a) \in Nat
         /\ Placed(i, a).address = a
         /\ LaidItem(Placed(i, a), Wrap(a + SizeOf(i, a)))
  <1> DEFINE n == SizeOf(i, a)
             j == Placed(i, a)
  <1>1. a \in Nat
    BY Constants1
  <1>2. i.modulo \in Nat \ {0} /\ i.size \in Nat
    BY DEF WellFormedItem
  <1>3. Padding(a, i.modulo) \in Nat /\ (a + Padding(a, i.modulo)) % i.modulo = 0
    BY <1>1, <1>2, PaddingAligns
  <1>4. n \in Nat
    BY <1>2, <1>3, Constants1 DEF SizeOf, WellFormedItem
  <1>5. /\ DOMAIN j = DOMAIN i
        /\ j.class = i.class /\ j.modulo = i.modulo /\ j.address = a
        /\ j.size = IF i.class = "ALIGN" THEN n ELSE i.size
        /\ j.nopFill = IF sec = "text" THEN FillsWithNops(i, a, n) ELSE i.nopFill
    BY DEF Placed, WellFormedItem
  <1>6. Extent(j) = n
    BY <1>5, <1>2 DEF Extent, SizeOf, WellFormedItem
  <1>7. j.nopFill => sec = "text" /\ n % Instruction = 0
    BY <1>5 DEF FillsWithNops, WellFormedItem
  <1>8. j.class = "ALIGN" => j.size = Padding(a, j.modulo)
    BY <1>5 DEF SizeOf
  <1>9. WellFormedItem(sec, j)
    BY <1>2, <1>4, <1>5, <1>7 DEF WellFormedItem
  <1> HIDE DEF n, j
  <1>10. LaidItem(j, Wrap(a + n))
    BY <1>3, <1>5, <1>6, <1>7, <1>8 DEF LaidItem
  <1>11. QED BY <1>4, <1>5, <1>9, <1>10 DEF n, j

-----------------------------------------------------------------------------
(* The invariant holds initially, and every step keeps it *)

LEMMA InitInvariant ==
  ASSUME phase = "expand", LayoutInit, ItemsWellFormed
  PROVE  IInv
  <1>1. Types
    BY Constants1, ItemFacts DEF LayoutInit, Types, Sections
  <1>2. Expanding /\ Addressing /\ Addressed /\ Encoded /\ Filed
    BY DEF LayoutInit, Expanding, Addressing, Addressed, Encoded, Filed
  <1>3. QED BY <1>1, <1>2 DEF IInv

\* What an instruction expands to is one or two instructions.
LEMMA Expansion ==
  ASSUME NEW i, NEW l
  PROVE  LET e == encExpandPseudoInstruction(i)
             code == [k \in DOMAIN e |-> Code(e[k], l)]
         IN code \in Seq(Range(code)) /\ \A k \in DOMAIN code : \A s \in Sections : WellFormedItem(s, code[k])
  <1> DEFINE e == encExpandPseudoInstruction(i)
             code == [k \in DOMAIN e |-> Code(e[k], l)]
  <1>1. \E a, b : e = <<a>> \/ e = <<a, b>>
    BY DEF encExpandPseudoInstruction
  <1>2. PICK a, b : e = <<a>> \/ e = <<a, b>>
    BY <1>1
  <1> HIDE DEF e
  <1>3. DOMAIN code \in {1..1, 1..2}
    BY <1>2
  <1>4. code \in Seq(Range(code))
    BY <1>3 DEF Range
  <1>5. ASSUME NEW k \in DOMAIN code, NEW s \in Sections
        PROVE  WellFormedItem(s, code[k])
    BY <1>5 DEF WellFormedItem, Code, Item
  <1>6. QED BY <1>4, <1>5 DEF e

\* A sequence in the place of one element of another
LEMMA Splice ==
  ASSUME NEW T, NEW q \in Seq(T), NEW c \in Seq(T), NEW p \in 1..Len(q)
  PROVE  /\ SubSeq(q, 1, p - 1) \o c \o SubSeq(q, p + 1, Len(q)) \in Seq(T)
         /\ Len(SubSeq(q, 1, p - 1) \o c \o SubSeq(q, p + 1, Len(q))) = Len(q) - 1 + Len(c)
  <1> DEFINE before == SubSeq(q, 1, p - 1)
             after  == SubSeq(q, p + 1, Len(q))
  <1>1. before \in Seq(T) /\ Len(before) = p - 1
    OBVIOUS
  <1>2. after \in Seq(T) /\ Len(after) = Len(q) - p
    OBVIOUS
  <1> HIDE DEF before, after
  <1> DEFINE first == before \o c
  <1>3. first \in Seq(T) /\ Len(first) = (p - 1) + Len(c)
    BY <1>1
  <1> HIDE DEF first
  <1>4. first \o after \in Seq(T) /\ Len(first \o after) = Len(first) + Len(after)
    BY <1>2, <1>3, ConcatProperties
  <1>5. Len(q) \in Nat /\ Len(c) \in Nat /\ p \in Int
    OBVIOUS
  <1>6. Len(first \o after) = Len(q) - 1 + Len(c)
    BY <1>2, <1>3, <1>4, <1>5
  <1>7. QED BY <1>4, <1>6 DEF before, after, first

LEMMA ExpandStep == IInv /\ Expand => IInv'
  <1> SUFFICES ASSUME IInv, Expand PROVE IInv'
    OBVIOUS
  <1> DEFINE code == IF item.class = "INSTR"
                       THEN [k \in DOMAIN encExpandPseudoInstruction(item.instr) |->
                               Code(encExpandPseudoInstruction(item.instr)[k], item.line)]
                       ELSE <<item>>
             q == object[sec]
             r == SubSeq(q, 1, pos - 1) \o code \o SubSeq(q, pos + 1, Len(q))
  <1>1. /\ phase = "expand" /\ UNCHANGED <<phase, sec, curAddr, start, size, fileOffset>>
        /\ pos' = pos + Len(code)
        /\ object' = [object EXCEPT ![sec] = r]
        /\ sec \in Sections /\ ItemsWellFormed /\ pos \in 1..Len(q)
        /\ q \in Seq(Range(q)) /\ DOMAIN object = Sections
    BY DEF Expand, ExpandedItem, AtItem, IInv, Types, ItemsWellFormed
  <1>2. DOMAIN q = 1..Len(q) /\ Len(q) \in Nat /\ \A k \in 1..Len(q) : WellFormedItem(sec, q[k])
    BY <1>1, ItemFacts
  <1>3. code \in Seq(Range(code)) /\ \A k \in DOMAIN code : WellFormedItem(sec, code[k])
    <2>1. CASE item.class = "INSTR"
      BY <1>1, <2>1, Expansion
    <2>2. CASE item.class # "INSTR"
      <3>1. code = <<q[pos]>> /\ WellFormedItem(sec, q[pos])
        BY <1>1, <1>2, <2>2 DEF item
      <3> HIDE DEF code
      <3>2. code \in Seq({q[pos]}) /\ DOMAIN code = {1} /\ code[1] = q[pos]
        BY <3>1
      <3>3. QED BY <3>1, <3>2, SequenceOfItsElements
    <2>3. QED BY <2>1, <2>2
  <1> HIDE DEF code
  <1> DEFINE T == Range(q) \union Range(code)
  <1>4. q \in Seq(T) /\ code \in Seq(T) /\ Len(code) \in Nat
    BY <1>1, <1>3
  <1>5. r \in Seq(T) /\ Len(r) = Len(q) - 1 + Len(code)
    <2> HIDE DEF T, q
    <2>1. QED BY <1>1, <1>4, Splice
  <1>6. \A i \in T : WellFormedItem(sec, i)
    BY <1>2, <1>3 DEF Range
  <1>7. r \in Seq(Range(r)) /\ \A i \in Range(r) : WellFormedItem(sec, i)
    <2> HIDE DEF r, T
    <2>1. \A i \in Range(r) : i \in T
      BY <1>5 DEF Range
    <2>2. QED BY <1>5, <1>6, <2>1, SequenceOfItsElements
  <1> HIDE DEF r, T
  <1>8. ItemsWellFormed' /\ object'[sec] = r
    BY <1>1, <1>7 DEF ItemsWellFormed
  <1>9. Types'
    BY <1>1, <1>2, <1>4, <1>5, <1>8 DEF IInv, Types
  <1>10. Expanding' /\ Addressing' /\ Addressed' /\ Encoded' /\ Filed'
    BY <1>1 DEF IInv, Expanding, Addressing, Addressed, Encoded, Filed
  <1>11. QED BY <1>9, <1>10 DEF IInv

LEMMA ExpandedStep == IInv /\ Expanded => IInv'
  <1> SUFFICES ASSUME IInv, Expanded PROVE IInv'
    OBVIOUS
  <1>1. /\ phase = "expand" /\ pos' = 1 /\ UNCHANGED <<object, curAddr, start, size, fileOffset>>
        /\ phase' \in {"expand", "address"} /\ sec' \in Sections
        /\ phase' = "address" => sec' = "text"
        /\ Types /\ curAddr = FirstAddress
        /\ start = [s \in Sections |-> FirstAddress] /\ size = [s \in Sections |-> 0]
    BY DEF Expanded, EndOfSection, IInv, Expanding, Sections
  <1>2. ItemsWellFormed'
    BY <1>1 DEF Types, ItemsWellFormed, Sections
  <1>3. Types'
    BY <1>1, <1>2, ItemFacts DEF Types, Sections
  <1>4. Wrap(FirstAddress + 0) = FirstAddress
    BY Constants1, WrapProperties
  <1>5. Addressing'
    <2> SUFFICES ASSUME phase' = "address" PROVE Addressing'
      BY DEF Addressing
    <2>1. Laid(object'[sec'], FirstAddress, 0, FirstAddress)
      BY DEF Laid
    <2>2. QED BY <1>1, <1>4, <2>1 DEF Addressing, EndOf, Sections
  <1>6. Expanding' /\ Addressed' /\ Encoded' /\ Filed'
    BY <1>1 DEF IInv, Expanding, Addressed, Encoded, Filed
  <1>7. QED BY <1>3, <1>5, <1>6 DEF IInv

LEMMA PlaceStep == IInv /\ Place => IInv'
  <1> SUFFICES ASSUME IInv, Place PROVE IInv'
    OBVIOUS
  <1> DEFINE n == SizeOf(item, curAddr)
             j == Placed(item, curAddr)
             q == object[sec]
             r == object'[sec]
  <1>1. /\ phase = "address" /\ sec \in Sections /\ sec' = sec /\ pos' = pos + 1 /\ pos \in 1..Len(q)
        /\ Becomes(j) /\ UNCHANGED <<start, fileOffset>>
        /\ Types /\ Addressing /\ curAddr \in Word
    BY DEF Place, AtItem, NextItem, IInv, Types
  <1>2. ItemsWellFormed /\ Len(q) \in Nat /\ item = q[pos] /\ WellFormedItem(sec, q[pos])
    BY <1>1, ItemFacts DEF Types, item
  <1>3. /\ WellFormedItem(sec, j) /\ n \in Nat /\ j.address = curAddr
        /\ LaidItem(j, Wrap(curAddr + n))
    BY <1>1, <1>2, PlacedIsLaid
  <1> HIDE DEF j, n
  <1>4. /\ ItemsWellFormed'
        /\ \A s \in Sections : Len(object'[s]) = Len(object[s])
        /\ \A s \in Sections : \A k \in 1..Len(object[s]) :
              object'[s][k] = IF s = sec /\ k = pos THEN j ELSE object[s][k]
    BY <1>1, <1>2, <1>3, Replacement
  <1>5. pos' \in Nat \ {0} /\ pos' <= Len(object'[sec']) + 1
    BY <1>1, <1>2, <1>4
  <1>6. CASE phase' = "failed"
    <2>1. UNCHANGED <<size, curAddr>>
      BY <1>1, <1>6 DEF Place
    <2>2. Types'
      BY <1>1, <1>4, <1>5, <2>1 DEF Types
    <2>3. QED BY <1>6, <2>2 DEF IInv, Expanding, Addressing, Addressed, Encoded, Filed
  <1>7. CASE phase' # "failed"
    <2>1. /\ phase' = "address" /\ curAddr' = Wrap(curAddr + n)
          /\ size' = [size EXCEPT ![sec] = @ + n]
      BY <1>1, <1>7 DEF Place, n
    <2>2. curAddr \in Int /\ curAddr' \in Word
      BY <1>1, <1>3, <2>1, Constants1, WrapProperties
    <2>3. size' \in [Sections -> Nat] /\ size'[sec] = size[sec] + n
      BY <1>1, <1>3, <2>1 DEF Types
    <2>4. Types'
      BY <1>1, <1>4, <1>5, <2>2, <2>3 DEF Types
    <2>5. curAddr' = EndOf(sec)'
      <3> DEFINE a == start[sec] + size[sec]
      <3>1. start[sec] \in Word /\ size[sec] \in Nat
        BY <1>1 DEF Types
      <3>2. start[sec] \in Int /\ a \in Int
        <4>1. start[sec] \in Int
          BY <3>1, AddressIsNumber
        <4>2. QED BY <4>1, <3>1
      <3>3. curAddr = Wrap(a)
        BY <1>1 DEF Addressing, EndOf
      <3>4. a + n = start[sec] + (size[sec] + n)
        BY <3>1, <3>2, <1>3
      <3> HIDE DEF a
      <3>5. Wrap(Wrap(a) + n) = Wrap(a + n)
        BY <3>2, <1>3, WrapProperties
      <3>6. QED BY <1>1, <2>1, <2>3, <3>3, <3>4, <3>5 DEF EndOf
    <2>6. Laid(r, start[sec], pos, curAddr')
      <3>1. Laid(q, start[sec], pos - 1, curAddr) /\ pos - 1 \in Nat
        BY <1>1 DEF Addressing
      <3>2. \A k \in 1..(pos - 1) : r[k] = q[k]
        BY <1>1, <1>2, <1>4
      <3>3. r[(pos - 1) + 1] = j
        BY <1>1, <1>4
      <3> HIDE DEF q, r
      <3>4. Laid(r, start[sec], (pos - 1) + 1, Wrap(curAddr + n))
        BY <1>3, <3>1, <3>2, <3>3, LaidOneMore
      <3>5. (pos - 1) + 1 = pos
        BY <1>1
      <3>6. QED BY <3>4, <3>5, <2>1
    <2>7. (pos + 1) - 1 = pos
      BY <1>1
    <2>8. sec = "text" => start["data"] = FirstAddress /\ size'["data"] = 0
      BY <1>1, <2>1 DEF Addressing, Types, Sections
    <2>9. sec = "data" => /\ start["data"] = EndOf("text")'
                          /\ Laid(object'["text"], FirstAddress, Len(object'["text"]), start["data"])
      <3> SUFFICES ASSUME sec = "data"
                   PROVE  /\ start["data"] = EndOf("text")'
                          /\ Laid(object'["text"], FirstAddress, Len(object'["text"]), start["data"])
        OBVIOUS
      <3>1. size'["text"] = size["text"]
        BY <2>1, <1>1 DEF Types, Sections
      <3>2. object'["text"] = object["text"]
        BY <1>1, <1>2 DEF Becomes, ItemsWellFormed, Sections
      <3>3. QED BY <1>1, <3>1, <3>2 DEF Addressing, EndOf
    <2>10. Addressing'
      BY <1>1, <2>1, <2>5, <2>6, <2>7, <2>8, <2>9 DEF Addressing
    <2>11. Expanding' /\ Addressed' /\ Encoded' /\ Filed'
      BY <2>1 DEF Expanding, Addressed, Encoded, Filed
    <2>12. QED BY <2>4, <2>10, <2>11 DEF IInv
  <1>8. QED BY <1>6, <1>7

LEMMA AllPlacedStep == IInv /\ AllPlaced => IInv'
  <1> SUFFICES ASSUME IInv, AllPlaced PROVE IInv'
    OBVIOUS
  <1>1. /\ phase = "address" /\ pos' = 1 /\ pos > Len(object[sec])
        /\ UNCHANGED <<object, curAddr, size, fileOffset>>
        /\ Types /\ Addressing
    BY DEF AllPlaced, EndOfSection, IInv
  <1>2. pos = Len(object[sec]) + 1 /\ Len(object[sec]) \in Nat /\ pos - 1 = Len(object[sec])
    BY <1>1, ItemFacts DEF Types
  <1>3. ItemsWellFormed'
    BY <1>1 DEF Types, ItemsWellFormed, Sections
  <1>4. Laid(object[sec], start[sec], Len(object[sec]), curAddr)
    BY <1>1, <1>2 DEF Addressing
  <1>5. CASE sec = "text"
    <2>1. sec' = "data" /\ phase' = "address" /\ start' = [start EXCEPT !["data"] = curAddr]
      BY <1>1, <1>5 DEF AllPlaced, EndOfSection
    <2>2. Types'
      BY <1>1, <1>3, <2>1, ItemFacts DEF Types, Sections
    <2>3. start'["data"] = curAddr /\ start'["text"] = FirstAddress
      BY <1>1, <2>1 DEF Types, Addressing, Sections
    <2>4. curAddr = Wrap(curAddr + 0)
      BY <1>1, Constants1, WrapProperties DEF Types
    <2>5. Laid(object'["data"], curAddr, 0, curAddr)
      BY DEF Laid
    <2>6. Addressing'
      BY <1>1, <1>4, <1>5, <2>1, <2>3, <2>4, <2>5 DEF Addressing, EndOf
    <2>7. Expanding' /\ Addressed' /\ Encoded' /\ Filed'
      BY <2>1 DEF Expanding, Addressed, Encoded, Filed
    <2>8. QED BY <2>2, <2>6, <2>7 DEF IInv
  <1>6. CASE sec = "data"
    <2>1. sec' = "text" /\ phase' = "resolve" /\ start' = start
      BY <1>1, <1>6 DEF AllPlaced, EndOfSection
    <2>2. Types'
      BY <1>1, <1>3, <2>1, ItemFacts DEF Types, Sections
    <2>3. Addressed'
      BY <1>1, <1>4, <1>6, <2>1 DEF Addressed, Addressing, EndOf, Sections
    <2>4. Expanding' /\ Addressing' /\ Encoded' /\ Filed'
      BY <2>1 DEF Expanding, Addressing, Encoded, Filed
    <2>5. QED BY <2>2, <2>3, <2>4 DEF IInv
  <1>7. QED BY <1>1, <1>5, <1>6 DEF Types, Sections

\* After the address pass an item is only replaced by one that is laid out alike.
LEMMA AlikeStep ==
  ASSUME IInv, phase \in {"resolve", "encode", "elf"}, pos <= Len(object[sec]),
         NEW j, WellFormedItem(sec, j), Alike(item, j), Becomes(j),
         pos' = pos + 1, fileOffset' \in Nat, UNCHANGED <<phase, sec, curAddr, start, size>>
  PROVE  /\ Types' /\ Expanding' /\ Addressing' /\ Addressed'
         /\ pos \in 1..Len(object[sec])
         /\ \A s \in Sections : Len(object'[s]) = Len(object[s]) /\ DOMAIN object'[s] = DOMAIN object[s]
         /\ \A s \in Sections : \A k \in DOMAIN object[s] :
              object'[s][k] = IF s = sec /\ k = pos THEN j ELSE object[s][k]
  <1>1. Types /\ Addressed /\ ItemsWellFormed /\ sec \in Sections /\ pos \in 1..Len(object[sec])
    BY ItemFacts DEF IInv, Types
  <1>2. /\ ItemsWellFormed'
        /\ \A s \in Sections : Len(object'[s]) = Len(object[s])
        /\ \A s \in Sections : \A k \in 1..Len(object[s]) :
              object'[s][k] = IF s = sec /\ k = pos THEN j ELSE object[s][k]
    BY <1>1, Replacement
  <1>3. \A s \in Sections : /\ Len(object[s]) \in Nat
                            /\ DOMAIN object[s] = 1..Len(object[s])
                            /\ DOMAIN object'[s] = 1..Len(object'[s])
    <2>1. ASSUME NEW s \in Sections
          PROVE  Len(object[s]) \in Nat /\ DOMAIN object[s] = 1..Len(object[s])
      BY <1>1, ItemFacts
    <2>2. ASSUME NEW s \in Sections
          PROVE  DOMAIN object'[s] = 1..Len(object'[s])
      BY <1>2, SequenceOfItsElements DEF ItemsWellFormed
    <2>3. QED BY <2>1, <2>2
  <1>4. Types'
    BY <1>1, <1>2, <1>3 DEF Types
  <1>5. ASSUME NEW s \in Sections
        PROVE  Laid(object'[s], start[s], Len(object[s]), EndOf(s))
    <2>1. Laid(object[s], start[s], Len(object[s]), EndOf(s)) /\ Len(object[s]) \in Nat
      BY <1>1, <1>3 DEF Addressed
    <2>2. ASSUME NEW k \in 1..Len(object[s])
          PROVE  Alike(object[s][k], object'[s][k])
      <3>1. CASE s = sec /\ k = pos
        BY <1>2, <3>1 DEF item
      <3>2. CASE ~(s = sec /\ k = pos)
        <4>1. object'[s][k] = object[s][k]
          BY <1>2, <3>2
        <4>2. QED BY <4>1 DEF Alike
      <3>3. QED BY <3>1, <3>2
    <2>3. QED BY <2>1, <2>2, LaidAlike
  <1>6. Addressed'
    BY <1>1, <1>2, <1>5 DEF Addressed, EndOf
  <1>7. Expanding' /\ Addressing'
    BY DEF Expanding, Addressing
  <1>8. QED BY <1>1, <1>2, <1>3, <1>4, <1>6, <1>7

LEMMA ResolveStep == IInv /\ Resolve => IInv'
  <1> SUFFICES ASSUME IInv, Resolve PROVE IInv'
    OBVIOUS
  <1>1. /\ phase = "resolve" /\ pos <= Len(object[sec]) /\ pos' = pos + 1
        /\ UNCHANGED <<sec, curAddr, start, size, fileOffset>>
        /\ Types /\ sec \in Sections /\ pos \in 1..Len(object[sec]) /\ fileOffset' \in Nat
    BY ItemFacts DEF Resolve, AtItem, NextItem, IInv, Types
  <1>2. WellFormedItem(sec, item)
    BY <1>1, ItemFacts DEF Types, item
  <1>3. CASE phase' = "failed"
    <2>1. UNCHANGED object
      BY <1>1, <1>3 DEF Resolve
    <2>2. Types'
      BY <1>1, <2>1, ItemFacts DEF Types, ItemsWellFormed
    <2>3. QED BY <1>3, <2>2 DEF IInv, Expanding, Addressing, Addressed, Encoded, Filed
  <1>4. CASE phase' # "failed"
    <2> DEFINE j == IF item.class = "INSTR" THEN [item EXCEPT !.instr.constant = Resolved(item)] ELSE item
    <2>1. UNCHANGED phase /\ Becomes(j)
      BY <1>1, <1>4 DEF Resolve
    <2>2. WellFormedItem(sec, j) /\ Alike(item, j)
      BY <1>2 DEF WellFormedItem, Alike, Extent
    <2> HIDE DEF j
    <2>3. Types' /\ Expanding' /\ Addressing' /\ Addressed'
      BY <1>1, <2>1, <2>2, AlikeStep
    <2>4. QED BY <1>1, <2>1, <2>3 DEF IInv, Encoded, Filed
  <1>5. QED BY <1>3, <1>4

LEMMA AllResolvedStep == IInv /\ AllResolved => IInv'
  <1> SUFFICES ASSUME IInv, AllResolved PROVE IInv'
    OBVIOUS
  <1>1. /\ phase = "resolve" /\ pos' = 1 /\ sec' \in Sections
        /\ phase' \in {"resolve", "encode"} /\ (phase' = "encode" => sec' = "text")
        /\ UNCHANGED <<object, curAddr, start, size, fileOffset>>
        /\ Types /\ Addressed
    BY DEF AllResolved, EndOfSection, IInv, Sections
  <1>2. ItemsWellFormed'
    BY <1>1 DEF Types, ItemsWellFormed, Sections
  <1>3. Types'
    BY <1>1, <1>2, ItemFacts DEF Types, Sections
  <1>4. Addressed'
    BY <1>1 DEF Addressed, EndOf
  <1>5. Encoded'
    <2>1. ASSUME NEW s \in Sections, phase' = "encode"
          PROVE  Behind(s)' = {}
      BY <1>1, <2>1, ItemFacts DEF Behind, Types
    <2>2. QED BY <1>1, <2>1 DEF Encoded
  <1>6. Expanding' /\ Addressing' /\ Filed'
    BY <1>1 DEF Expanding, Addressing, Filed
  <1>7. QED BY <1>3, <1>4, <1>5, <1>6 DEF IInv

LEMMA EncodeStep == IInv /\ Encode => IInv'
  <1> SUFFICES ASSUME IInv, Encode PROVE IInv'
    OBVIOUS
  <1> DEFINE j == IF item.class = "INSTR"
                    THEN [item EXCEPT !.class = "DATA", !.size = Instruction, !.word = WordOf(item.instr)]
                    ELSE item
  <1>1. /\ phase = "encode" /\ pos <= Len(object[sec]) /\ pos' = pos + 1 /\ Becomes(j)
        /\ UNCHANGED <<phase, sec, curAddr, start, size, fileOffset>>
        /\ Types /\ Encoded /\ fileOffset' \in Nat
    BY DEF Encode, AtItem, NextItem, IInv, Types
  <1>2. WellFormedItem(sec, item)
    BY <1>1, ItemFacts DEF Types, item
  <1>3. WellFormedItem(sec, j) /\ Alike(item, j) /\ j.class # "INSTR"
    BY <1>2, Constants1 DEF WellFormedItem, Alike, Extent
  <1> HIDE DEF j
  <1>4. /\ Types' /\ Expanding' /\ Addressing' /\ Addressed'
        /\ pos \in 1..Len(object[sec])
        /\ \A s \in Sections : DOMAIN object'[s] = DOMAIN object[s]
        /\ \A s \in Sections : \A k \in DOMAIN object[s] :
              object'[s][k] = IF s = sec /\ k = pos THEN j ELSE object[s][k]
    BY <1>1, <1>3, AlikeStep
  <1>5. ASSUME NEW s \in Sections, NEW k \in DOMAIN object[s], k \in Behind(s)'
        PROVE  object'[s][k].class # "INSTR"
    <2>1. CASE s = sec /\ k = pos
      BY <1>3, <1>4, <2>1
    <2>2. CASE ~(s = sec /\ k = pos)
      <3>1. k \in 1..Len(object[s])
        BY <1>1, ItemFacts DEF Types
      <3>2. k \in Behind(s)
        BY <1>1, <1>4, <1>5, <2>2, <3>1 DEF Behind
      <3>3. QED BY <1>1, <1>4, <2>2, <3>2 DEF Encoded
    <2>3. QED BY <2>1, <2>2
  <1>6. Encoded'
    BY <1>1, <1>4, <1>5 DEF Encoded
  <1>7. Filed'
    BY <1>1 DEF Filed
  <1>8. QED BY <1>4, <1>6, <1>7 DEF IInv

LEMMA AllEncodedStep == IInv /\ AllEncoded => IInv'
  <1> SUFFICES ASSUME IInv, AllEncoded PROVE IInv'
    OBVIOUS
  <1>1. /\ phase = "encode" /\ pos' = 1 /\ sec' \in Sections /\ pos > Len(object[sec])
        /\ sec = "text" => sec' = "data" /\ phase' = "encode"
        /\ sec = "data" => sec' = "text" /\ phase' = "elf"
        /\ phase' \in {"encode", "elf"} /\ fileOffset' = HeaderSize
        /\ UNCHANGED <<object, curAddr, start, size>>
        /\ Types /\ Addressed /\ Encoded /\ sec \in Sections
    BY DEF AllEncoded, EndOfSection, IInv, Types, Sections
  <1>2. ItemsWellFormed'
    BY <1>1 DEF Types, ItemsWellFormed, Sections
  <1>3. Types'
    BY <1>1, <1>2, ItemFacts DEF Types, Sections, HeaderSize
  <1>4. Addressed'
    BY <1>1 DEF Addressed, EndOf
  <1>5. Encoded'
    <2>1. \A k \in DOMAIN object[sec] : k \in Behind(sec)
      BY <1>1, ItemFacts DEF Behind, Types
    <2>2. CASE sec = "text"
      <3>1. \A s \in Sections : \A k \in Behind(s)' : s = "text"
        BY <1>1, <2>2, ItemFacts DEF Behind, Types
      <3>2. QED BY <1>1, <2>1, <2>2, <3>1 DEF Encoded, Sections
    <2>3. CASE sec = "data"
      <3>1. \A s \in Sections : \A k \in DOMAIN object[s] : k \in Behind(s)
        BY <2>1, <2>3 DEF Behind, Sections
      <3>2. QED BY <1>1, <3>1 DEF Encoded
    <2>4. QED BY <1>1, <2>2, <2>3 DEF Sections
  <1>6. Filed'
    <2> SUFFICES ASSUME phase' = "elf" PROVE Filed'
      BY <1>1 DEF Filed
    <2>1. sec' = "text"
      BY <1>1 DEF Sections
    <2>2. \A s \in Sections : Behind(s)' = {}
      BY <1>1, <2>1, ItemFacts DEF Behind, Types
    <2>3. start["text"] + HeaderSize - SectionOffset("text") = FirstAddress
      BY <1>1, Constants1, AddressIsNumber DEF SectionOffset, HeaderSize, Addressed
    <2>4. Wrap(FirstAddress) = FirstAddress
      BY Constants1, AddressIsNumber, WrapProperties
    <2>5. FirstAddress = IF 1 <= Len(object["text"]) THEN object["text"][1].address ELSE EndOf("text")
      <3>1. Laid(object["text"], FirstAddress, Len(object["text"]), EndOf("text"))
        BY <1>1 DEF Addressed, Sections
      <3>2. Len(object["text"]) \in Nat
        BY <1>1, ItemFacts DEF Types, Sections
      <3>3. QED BY <3>1, <3>2 DEF Laid
    <2>6. Wrap(start["text"] + HeaderSize - SectionOffset("text"))
            = IF 1 <= Len(object["text"]) THEN object["text"][1].address ELSE EndOf("text")
      BY <2>3, <2>4, <2>5
    <2>7. SectionOffset("text")' = SectionOffset("text") /\ EndOf("text")' = EndOf("text")
      BY <1>1 DEF SectionOffset, EndOf
    <2>8. QED BY <1>1, <2>1, <2>2, <2>6, <2>7 DEF Filed
  <1>7. Expanding' /\ Addressing'
    BY <1>1 DEF Expanding, Addressing
  <1>8. QED BY <1>3, <1>4, <1>5, <1>6, <1>7 DEF IInv

\* Everything is written as long as it is in memory.
LEMMA WrittenWhole ==
  ASSUME NEW s, NEW i, WellFormedItem(s, i), i.class # "INSTR", i.nopFill => Extent(i) % Instruction = 0
  PROVE  Written(i) = Extent(i) /\ Extent(i) \in Nat
  <1>1. Extent(i) = i.size /\ i.size \in Nat
    BY DEF Extent, WellFormedItem
  <1>2. CASE i.nopFill
    <2>1. Instruction * ((i.size + Instruction - 1) \div Instruction) = i.size
      BY <1>1, <1>2, Constants1, WholeInstructions
    <2>2. QED BY <1>1, <1>2, <2>1 DEF Written
  <1>3. CASE ~i.nopFill
    BY <1>1, <1>3 DEF Written
  <1>4. QED BY <1>2, <1>3

LEMMA WriteStep == IInv /\ Write => IInv'
  <1> SUFFICES ASSUME IInv, Write PROVE IInv'
    OBVIOUS
  <1> DEFINE j == [item EXCEPT !.offset = fileOffset]
             q == object[sec]
             next == IF pos = Len(q) THEN EndOf(sec) ELSE q[pos + 1].address
             base == start[sec] - SectionOffset(sec)
  <1>1. /\ phase = "elf" /\ pos <= Len(q) /\ pos' = pos + 1 /\ Becomes(j)
        /\ fileOffset' = fileOffset + Written(item)
        /\ UNCHANGED <<phase, sec, curAddr, start, size>>
        /\ Types /\ Encoded /\ Filed /\ Addressed
    BY DEF Write, AtItem, NextItem, IInv
  <1>2. /\ WellFormedItem(sec, item) /\ sec \in Sections /\ pos \in 1..Len(q) /\ item = q[pos]
        /\ DOMAIN q = 1..Len(q) /\ Len(q) \in Nat
    BY <1>1, ItemFacts DEF Types, item
  <1>3. LaidItem(item, next)
    BY <1>1, <1>2 DEF Addressed, Laid
  <1>4. item.class # "INSTR"
    BY <1>1, <1>2 DEF Encoded
  <1>5. Written(item) = Extent(item) /\ Extent(item) \in Nat
    BY <1>2, <1>3, <1>4, WrittenWhole DEF LaidItem
  <1>6. WellFormedItem(sec, j) /\ Alike(item, j) /\ j.offset = fileOffset /\ j.class = item.class /\ j.address = item.address
    BY <1>2 DEF WellFormedItem, Alike, Extent
  <1> HIDE DEF j
  <1>7. fileOffset \in Nat /\ fileOffset' \in Nat
    BY <1>1, <1>5 DEF Types
  <1>8. /\ Types' /\ Expanding' /\ Addressing' /\ Addressed'
        /\ \A s \in Sections : Len(object'[s]) = Len(object[s]) /\ DOMAIN object'[s] = DOMAIN object[s]
        /\ \A s \in Sections : \A k \in DOMAIN object[s] :
              object'[s][k] = IF s = sec /\ k = pos THEN j ELSE object[s][k]
    BY <1>1, <1>6, <1>7, AlikeStep
  <1>9. Encoded'
    BY <1>1, <1>4, <1>6, <1>8 DEF Encoded
  <1>10. /\ base \in Int
         /\ \A n \in Nat : start[sec] + n - SectionOffset(sec) = base + n
    <2>1. start[sec] \in Int
      BY <1>1, <1>2, AddressIsNumber DEF Types
    <2>2. SectionOffset(sec) \in Int
      BY <1>1 DEF SectionOffset, HeaderSize, Types, Sections
    <2>3. QED BY <2>1, <2>2
  <1>11. Wrap(base + fileOffset) = item.address /\ item.address \in Int
    <2>1. Wrap(start[sec] + fileOffset - SectionOffset(sec)) = item.address
      BY <1>1, <1>2 DEF Filed
    <2>2. item.address \in Int
      BY <1>3, AddressIsNumber DEF LaidItem
    <2> HIDE DEF base
    <2>3. QED BY <1>7, <1>10, <2>1, <2>2
  <1>12. Wrap(base + fileOffset') = next
    <2> DEFINE a == base + fileOffset
               n == Extent(item)
    <2>1. a \in Int /\ base + fileOffset' = a + n
      BY <1>1, <1>5, <1>7, <1>10
    <2>2. Wrap(a) = item.address
      BY <1>11
    <2> HIDE DEF a, n
    <2>3. Wrap(Wrap(a) + n) = Wrap(a + n)
      BY <1>5, <2>1, WrapProperties DEF n
    <2>4. Wrap(item.address + n) = next
      BY <1>3 DEF LaidItem, n
    <2>5. QED BY <2>1, <2>2, <2>3, <2>4
  <1>13. Wrap(start[sec] + fileOffset' - SectionOffset(sec)) = next
    <2> HIDE DEF base
    <2>1. QED BY <1>7, <1>10, <1>12
  <1>14. next = IF pos + 1 <= Len(q) THEN object'[sec][pos + 1].address ELSE EndOf(sec)
    BY <1>2, <1>8
  <1>15. \A s \in Sections : SectionOffset(s)' = SectionOffset(s) /\ EndOf(s)' = EndOf(s)
    BY <1>1 DEF SectionOffset, EndOf
  <1>16. ASSUME NEW s \in Sections, NEW k \in DOMAIN object[s], k \in Behind(s)'
         PROVE  /\ object'[s][k].offset \in Nat
                /\ Wrap(start[s] + object'[s][k].offset - SectionOffset(s)) = object'[s][k].address
    <2>1. CASE s = sec /\ k = pos
      <3>1. object'[s][k] = j
        BY <1>8, <2>1
      <3>2. Wrap(start[sec] + fileOffset - SectionOffset(sec)) = item.address
        BY <1>1, <1>2 DEF Filed
      <3>3. QED BY <1>6, <1>7, <2>1, <3>1, <3>2
    <2>2. CASE ~(s = sec /\ k = pos)
      <3>1. k \in 1..Len(object[s])
        BY <1>1, ItemFacts DEF Types
      <3>2. k \in Behind(s)
        BY <1>1, <1>2, <1>8, <1>16, <2>2, <3>1 DEF Behind
      <3>3. object'[s][k] = object[s][k]
        BY <1>8, <2>2
      <3>4. QED BY <1>1, <3>2, <3>3 DEF Filed, LoadAddress
    <2>3. QED BY <2>1, <2>2
  <1>17. Filed'
    <2>1. Wrap(start[sec] + fileOffset' - SectionOffset(sec))
            = IF pos' <= Len(object'[sec]) THEN object'[sec][pos'].address ELSE EndOf(sec)
      BY <1>1, <1>2, <1>8, <1>13, <1>14
    <2> HIDE DEF next, base
    <2>2. ASSUME NEW s \in Sections, NEW k \in DOMAIN object'[s], phase' = "load" \/ (phase' = "elf" /\ k \in Behind(s)')
          PROVE  object'[s][k].offset \in Nat /\ Wrap(LoadAddress(s, object[s][k]))' = object'[s][k].address
      <3>1. k \in DOMAIN object[s] /\ k \in Behind(s)'
        BY <1>1, <1>8, <2>2
      <3>2. Wrap(LoadAddress(s, object[s][k]))' = Wrap(start[s] + object'[s][k].offset - SectionOffset(s))
        BY <1>1, <1>15 DEF LoadAddress, Wrap
      <3>3. QED BY <1>16, <3>1, <3>2
    <2>3. QED BY <1>1, <1>2, <1>15, <2>1, <2>2 DEF Filed
  <1>18. QED BY <1>8, <1>9, <1>17 DEF IInv

LEMMA SectionWrittenStep == IInv /\ SectionWritten => IInv'
  <1> SUFFICES ASSUME IInv, SectionWritten PROVE IInv'
    OBVIOUS
  <1>1. /\ phase = "elf" /\ pos' = 1 /\ sec' \in Sections /\ pos > Len(object[sec])
        /\ sec = "text" => sec' = "data" /\ phase' = "elf"
        /\ sec = "data" => sec' = "text" /\ phase' = "load"
        /\ phase' \in {"elf", "load"} /\ fileOffset' = SectionOffset("data")
        /\ UNCHANGED <<object, curAddr, start, size>>
        /\ Types /\ Addressed /\ Encoded /\ Filed /\ sec \in Sections
    BY DEF SectionWritten, EndOfSection, IInv, Types, Sections
  <1>2. ItemsWellFormed'
    BY <1>1 DEF Types, ItemsWellFormed, Sections
  <1>3. SectionOffset("data") \in Nat
    BY <1>1 DEF SectionOffset, HeaderSize, Types, Sections
  <1>4. Types'
    BY <1>1, <1>2, <1>3, ItemFacts DEF Types, Sections
  <1>5. Addressed'
    BY <1>1 DEF Addressed, EndOf
  <1>6. Encoded'
    BY <1>1 DEF Encoded
  <1>7. \A s \in Sections : SectionOffset(s)' = SectionOffset(s) /\ EndOf(s)' = EndOf(s)
    BY <1>1 DEF SectionOffset, EndOf
  <1>8. \A k \in DOMAIN object[sec] : k \in Behind(sec)
    BY <1>1, ItemFacts DEF Behind, Types
  <1>9. CASE sec = "text"
    <2>1. \A s \in Sections : \A k \in Behind(s)' : s = "text"
      BY <1>1, <1>9, ItemFacts DEF Behind, Types
    <2>2. start["data"] \in Word /\ start["data"] = EndOf("text")
      BY <1>1 DEF Types, Addressed, Sections
    <2>3. Wrap(start["data"] + SectionOffset("data") - SectionOffset("data")) = start["data"]
      <3>1. start["data"] + SectionOffset("data") - SectionOffset("data") = start["data"]
        BY <1>3, <2>2, AddressIsNumber
      <3>2. Wrap(start["data"]) = start["data"]
        BY <2>2, AddressIsNumber, WrapProperties
      <3>3. QED BY <3>1, <3>2
    <2>4. start["data"] = IF 1 <= Len(object["data"]) THEN object["data"][1].address ELSE EndOf("data")
      <3>1. Laid(object["data"], start["data"], Len(object["data"]), EndOf("data"))
        BY <1>1 DEF Addressed, Sections
      <3>2. Len(object["data"]) \in Nat
        BY <1>1, ItemFacts DEF Types, Sections
      <3>3. QED BY <3>1, <3>2 DEF Laid
    <2>5. Wrap(start[sec] + fileOffset - SectionOffset(sec))'
            = (IF pos <= Len(object[sec]) THEN object[sec][pos].address ELSE EndOf(sec))'
      BY <1>1, <1>7, <1>9, <2>3, <2>4 DEF Wrap, Sections
    <2>6. ASSUME NEW s \in Sections, NEW k \in DOMAIN object[s], k \in Behind(s)'
          PROVE  /\ object[s][k].offset \in Nat
                 /\ Wrap(LoadAddress(s, object[s][k])) = object[s][k].address
      BY <1>1, <1>8, <1>9, <2>1, <2>6 DEF Filed
    <2>7. \A s \in Sections : \A k \in DOMAIN object[s] :
            Wrap(LoadAddress(s, object[s][k]))' = Wrap(LoadAddress(s, object[s][k]))
      BY <1>1, <1>7 DEF LoadAddress, Wrap
    <2>8. Filed'
      BY <1>1, <1>9, <2>5, <2>6, <2>7 DEF Filed
    <2>9. Expanding' /\ Addressing'
      BY <1>1 DEF Expanding, Addressing
    <2>10. QED BY <1>4, <1>5, <1>6, <2>8, <2>9 DEF IInv
  <1>10. CASE sec = "data"
    <2>1. \A s \in Sections : \A k \in DOMAIN object[s] : k \in Behind(s)
      BY <1>8, <1>10 DEF Behind, Sections
    <2>2. \A s \in Sections : \A k \in DOMAIN object[s] :
            Wrap(LoadAddress(s, object[s][k]))' = Wrap(LoadAddress(s, object[s][k]))
      BY <1>1, <1>7 DEF LoadAddress, Wrap
    <2>3. Filed'
      BY <1>1, <1>10, <2>1, <2>2 DEF Filed
    <2>4. Expanding' /\ Addressing'
      BY <1>1 DEF Expanding, Addressing
    <2>5. QED BY <1>4, <1>5, <1>6, <2>3, <2>4 DEF IInv
  <1>11. QED BY <1>1, <1>9, <1>10 DEF Sections

LEMMA LoadStep == IInv /\ Load => IInv'
  <1> SUFFICES ASSUME IInv, Load PROVE IInv'
    OBVIOUS
  <1>1. phase' \in {"run", "failed"} /\ UNCHANGED layoutVars
    BY DEF Load
  <1>2. Types'
    BY <1>1 DEF IInv, Types, ItemsWellFormed, layoutVars
  <1>3. Expanding' /\ Addressing' /\ Addressed' /\ Encoded' /\ Filed'
    BY <1>1 DEF Expanding, Addressing, Addressed, Encoded, Filed
  <1>4. QED BY <1>2, <1>3 DEF IInv

LEMMA Stutter == IInv /\ UNCHANGED <<phase, layoutVars>> => IInv'
  <1> SUFFICES ASSUME IInv, UNCHANGED <<phase, layoutVars>> PROVE IInv'
    OBVIOUS
  <1>1. \A s \in Sections : EndOf(s)' = EndOf(s) /\ Behind(s)' = Behind(s) /\ SectionOffset(s)' = SectionOffset(s)
    BY DEF EndOf, Behind, SectionOffset, layoutVars
  <1>2. Types'
    BY DEF IInv, Types, ItemsWellFormed, layoutVars
  <1>3. Expanding' /\ Addressing' /\ Addressed'
    BY DEF IInv, Expanding, Addressing, Addressed, EndOf, layoutVars
  <1>4. Encoded'
    BY <1>1 DEF IInv, Encoded, layoutVars
  <1>5. Filed'
    BY DEF IInv, Filed, Behind, LoadAddress, EndOf, SectionOffset, Wrap, layoutVars
  <1>6. QED BY <1>2, <1>3, <1>4, <1>5 DEF IInv

THEOREM LayoutInvariant == LayoutSpec => []IInv
  <1>1. phase = "expand" /\ LayoutInit /\ ItemsWellFormed => IInv
    BY InitInvariant
  <1>2. IInv /\ [LayoutNext \/ Load]_<<phase, layoutVars>> => IInv'
    BY ExpandStep, ExpandedStep, PlaceStep, AllPlacedStep, ResolveStep, AllResolvedStep,
       EncodeStep, AllEncodedStep, WriteStep, SectionWrittenStep, LoadStep, Stutter DEF LayoutNext
  <1>3. QED BY <1>1, <1>2, PTL DEF LayoutSpec

-----------------------------------------------------------------------------
(* What it is for *)

\* The sections come one after the other.
LEMMA Apart ==
  ASSUME Types, start["text"] = FirstAddress, start["data"] = EndOf("text"),
         FirstAddress + size["text"] + size["data"] <= WordSize
  PROVE  SegmentsApart
  <1> DEFINE m == size["text"]
             n == size["data"]
  <1>1. m \in Nat /\ n \in Nat /\ FirstAddress \in Nat
    BY Constants1, AddressIsNumber DEF Types, Sections
  <1>2. start["data"] = Wrap(FirstAddress + m)
    BY DEF EndOf
  <1> HIDE DEF m, n
  <1>3. CASE FirstAddress + m < WordSize
    <2>1. FirstAddress + m \in Word /\ FirstAddress + m \in Int
      BY <1>1, <1>3, Constants1 DEF Word
    <2>2. start["data"] = FirstAddress + m
      BY <1>2, <2>1, WrapProperties
    <2>3. FirstAddress..(FirstAddress + m - 1) \intersect (FirstAddress + m)..(FirstAddress + m + n - 1) = {}
      BY <1>1
    <2>4. QED BY <2>2, <2>3 DEF SegmentsApart, m, n
  <1>4. CASE FirstAddress + m >= WordSize
    <2>1. n = 0
      BY <1>1, <1>4, Constants1 DEF m, n
    <2>2. start["data"] \in Int
      BY AddressIsNumber DEF Types, Sections
    <2>3. start["data"]..(start["data"] + n - 1) = {}
      BY <2>1, <2>2
    <2>4. QED BY <2>3 DEF SegmentsApart, n
  <1>5. QED BY <1>1, <1>3, <1>4, Constants1

LEMMA LaidImage == IInv => ImageMatchesLayout
  <1> SUFFICES ASSUME IInv PROVE ImageMatchesLayout
    OBVIOUS
  <1>1. ItemsWellFormed
    BY DEF IInv, Types
  <1>2. ASSUME phase = "load", FirstAddress + size["text"] + size["data"] <= WordSize
        PROVE  SegmentsApart
    BY <1>2, Apart DEF IInv, Addressed
  <1>3. ASSUME phase = "load", NEW s \in Sections, NEW k \in DOMAIN object[s]
        PROVE  LET i == object[s][k]
                   end == i.address + i.size
               IN /\ Wrap(LoadAddress(s, i)) = i.address
                  /\ Wrap(end) = IF k = Len(object[s]) THEN Wrap(start[s] + size[s]) ELSE object[s][k + 1].address
                  /\ i.class = "ALIGN" => end % i.modulo = 0
    <2>1. Wrap(LoadAddress(s, object[s][k])) = object[s][k].address
      BY <1>3 DEF IInv, Filed
    <2>2. k \in 1..Len(object[s])
      BY <1>1, ItemFacts
    <2>3. LaidItem(object[s][k], IF k = Len(object[s]) THEN EndOf(s) ELSE object[s][k + 1].address)
      BY <1>3, <2>2 DEF IInv, Addressed, Laid
    <2>4. object[s][k].class # "INSTR"
      BY <1>3 DEF IInv, Encoded
    <2>5. QED BY <2>1, <2>3, <2>4 DEF LaidItem, Extent, EndOf
  <1>4. QED BY <1>1, <1>2, <1>3 DEF ImageMatchesLayout

\* The image is the layout, for every well-formed object and every width.
THEOREM ImageCorrect == LayoutSpec => []ImageMatchesLayout
  <1>1. QED BY LaidImage, LayoutInvariant, PTL

-----------------------------------------------------------------------------
(* Addresses in two parts *)

LEMMA Quotient1 ==
  ASSUME NEW m \in Nat \ {0}, NEW q \in Int, NEW r \in 0..(m - 1)
  PROVE  ((m * q) + r) \div m = q
  <1> DEFINE z == (m * q) + r
             p == z \div m
  <1>1. z \in Int
    OBVIOUS
  <1>2. z = (m * p) + (z % m) /\ p \in Int
    BY <1>1, Division
  <1>3. z % m = r
    BY Remainder1
  <1>4. m * p = m * q
    BY <1>2, <1>3
  <1> DEFINE d == p - q
  <1> HIDE DEF z, p
  <1>5. m * d = 0 /\ d \in Int
    BY <1>2, <1>4
  <1> HIDE DEF d
  <1>6. d = 0
    <2>1. CASE d >= 1
      BY <1>5, <2>1
    <2>2. CASE d <= -1
      BY <1>5, <2>2
    <2>3. QED BY <1>5, <2>1, <2>2
  <1>7. QED BY <1>2, <1>6 DEF d, p, z

\* The high part is rounded up when the low part will be taken for a negative number:
\* an address is the sum of its parts, in every word.
THEOREM PartsMakeTheWhole ==
  ASSUME NEW z \in Word
  PROVE  Wrap(HI_20(z) * 2 ^ ImmBits + Cut(LO_12(z), ImmBits)) = z
  <1> DEFINE A == 2 ^ ImmBits
             H == 2 ^ (ImmBits - 1)
             B == 2 ^ (WordBits - ImmBits)
             h == z \div A
             l == z % A
             b == IF l >= H THEN 1 ELSE 0
             c == h + b
             u == c % B
             q == c \div B
  <1>1. A \in Nat \ {0} /\ H \in Nat \ {0} /\ B \in Nat \ {0} /\ A = 2 * H /\ WordSize = A * B
    BY PowersAssumption
  <1>2. z \in Int
    BY AddressIsNumber
  <1> HIDE DEF A, H, B
  <1>3. z = (A * h) + l /\ h \in Int /\ l \in 0..(A - 1)
    BY <1>1, <1>2, Division
  <1> HIDE DEF h, l
  <1>4. (z \div H) % 2 = b
    <2>1. CASE l < H
      <3>1. z = (H * (2 * h)) + l /\ 2 * h \in Int /\ l \in 0..(H - 1)
        BY <1>1, <1>3, <2>1
      <3>2. z \div H = 2 * h
        BY <1>1, <3>1, Quotient1
      <3>3. ((2 * h) + 0) % 2 = 0
        BY <1>3, Remainder1
      <3>4. QED BY <1>1, <1>3, <2>1, <3>2, <3>3
    <2>2. CASE l >= H
      <3>1. z = (H * ((2 * h) + 1)) + (l - H) /\ (2 * h) + 1 \in Int /\ l - H \in 0..(H - 1)
        BY <1>1, <1>3, <2>2
      <3>2. z \div H = (2 * h) + 1
        BY <1>1, <3>1, Quotient1
      <3>3. ((2 * h) + 1) % 2 = 1
        BY <1>3, Remainder1
      <3>4. QED BY <2>2, <3>2, <3>3
    <2>3. QED BY <1>1, <1>3, <2>1, <2>2
  <1>5. HI_20(z) = u
    BY <1>4 DEF HI_20, Bit, A, H, B, h, u, c
  <1>6. LO_12(z) = l
    BY DEF LO_12, A, l
  <1>7. l % A = l
    BY <1>1, <1>3, SmallRemainder
  <1>8. Cut(l, ImmBits) = l - (b * A)
    <2>1. CASE l >= H
      BY <1>1, <1>3, <1>7, <2>1 DEF Cut, A, H
    <2>2. CASE ~(l >= H)
      BY <1>1, <1>3, <1>7, <2>2 DEF Cut, A, H
    <2>3. QED BY <2>1, <2>2
  <1>9. b \in Int /\ c \in Int
    BY <1>3
  <1> HIDE DEF b, c
  <1>10. c = (B * q) + u /\ q \in Int /\ u \in Int
    BY <1>1, <1>9, Division
  <1> HIDE DEF q, u
  <1>11. (u * A) + (l - (b * A)) = (WordSize * (-q)) + z
    <2>1. u = c - (B * q)
      BY <1>1, <1>9, <1>10
    <2>2. u * A = (c * A) - ((B * q) * A)
      BY <1>1, <1>9, <1>10, <2>1
    <2>3. (B * q) * A = WordSize * q
      BY <1>1, <1>10
    <2>4. c * A = (A * h) + (b * A)
      BY <1>1, <1>3, <1>9 DEF c
    <2>5. QED BY <1>1, <1>2, <1>3, <1>9, <1>10, <2>2, <2>3, <2>4
  <1>12. ((WordSize * (-q)) + z) % WordSize = z
    BY <1>10, Constants1, Remainder1 DEF Word
  <1>13. QED BY <1>5, <1>6, <1>8, <1>11, <1>12 DEF Wrap, A

-----------------------------------------------------------------------------
(* Labels of a program *)

Fields == {"symbols", "instructions", "firstUnusedReg", "labels", "firstUnusedLblID", "pendingLabel", "fatal"}
LabelFields == {"labelID", "name", "global", "isAlias"}
IsSeq(q) == q \in Seq(Range(q))

IDOf(p, k) == p.labels[k].labelID
IsOfSymbol(p, k) == \E n \in DOMAIN p.symbols : p.symbols[n].label = k
IsOnCode(p, k) == \E n \in DOMAIN p.instructions : p.instructions[n].label = k

TypedProgram(p) ==
  /\ Fields \subseteq DOMAIN p
  /\ IsSeq(p.symbols) /\ IsSeq(p.instructions) /\ IsSeq(p.labels)
  /\ p.firstUnusedLblID \in Nat \ {0}
  /\ \A k \in DOMAIN p.labels :
       DOMAIN p.labels[k] = LabelFields /\ IDOf(p, k) \in Nat /\ IDOf(p, k) < p.firstUnusedLblID
  /\ \A n \in DOMAIN p.instructions : p.instructions[n].label \in {0} \union DOMAIN p.labels
  /\ \A n \in DOMAIN p.symbols : p.symbols[n].label \in DOMAIN p.labels
  /\ p.pendingLabel \in {0} \union DOMAIN p.labels
  /\ p.fatal = FALSE

\* The label at the start and those of the symbols have a name, others none.
NamedCode(p) ==
  \A k \in DOMAIN p.labels :
    /\ IDOf(p, k) = 0 => p.labels[k].name = <<"_start">>
    /\ IDOf(p, k) # 0 /\ ~IsOfSymbol(p, k) => p.labels[k].name = NoLabel
NamedSymbols(p) ==
  /\ \A n \in DOMAIN p.symbols :
       LET k == p.symbols[n].label
       IN /\ p.labels[k].name = <<"l_", p.symbols[n].ID>>
          /\ IDOf(p, k) # 0
          /\ p.pendingLabel # k
          /\ \A l \in DOMAIN p.labels : IDOf(p, l) = IDOf(p, k) => l = k
  /\ \A n, m \in DOMAIN p.symbols : p.symbols[n].ID = p.symbols[m].ID => n = m

OnePlace(p) ==
  /\ \A n, m \in DOMAIN p.instructions :
       LET k == p.instructions[n].label
           l == p.instructions[m].label
       IN k # 0 /\ l # 0 /\ IDOf(p, k) = IDOf(p, l) => n = m
  /\ p.pendingLabel # 0 =>
       \A n \in DOMAIN p.instructions :
         p.instructions[n].label # 0 => IDOf(p, p.instructions[n].label) # IDOf(p, p.pendingLabel)

GoodLabels(p) == TypedProgram(p) /\ NamedCode(p) /\ NamedSymbols(p) /\ OnePlace(p)

\* A label that nothing has been done with yet but to refer to it
Unassigned(p, k) ==
  /\ k \in DOMAIN p.labels
  /\ IDOf(p, k) # 0
  /\ ~IsOfSymbol(p, k) /\ ~IsOnCode(p, k) /\ p.pendingLabel # k
  /\ \A l \in DOMAIN p.labels : IDOf(p, l) = IDOf(p, k) => l = k

\* Labels stay good, and unassigned ones unassigned, but for one.
KeepsBut(p, q, a) ==
  GoodLabels(q) /\ \A k : k # a /\ Unassigned(p, k) => Unassigned(q, k)
Keeps(p, q) == KeepsBut(p, q, 0)

LEMMA Appended ==
  ASSUME NEW q, IsSeq(q), NEW e
  PROVE  /\ IsSeq(Append(q, e))
         /\ Len(q) \in Nat /\ DOMAIN q = 1..Len(q)
         /\ Len(Append(q, e)) = Len(q) + 1
         /\ DOMAIN Append(q, e) = 1..(Len(q) + 1)
         /\ \A k \in DOMAIN q : Append(q, e)[k] = q[k]
         /\ Append(q, e)[Len(q) + 1] = e
  <1> DEFINE T == Range(q) \union {e}
             r == Append(q, e)
  <1>1. q \in Seq(Range(q))
    BY DEF IsSeq
  <1>2. q \in Seq(T) /\ e \in T
    <2> HIDE DEF r
    <2>1. QED BY <1>1
  <1>3. Len(q) \in Nat /\ DOMAIN q = 1..Len(q)
    BY <1>1, SequenceOfItsElements
  <1>4. r \in Seq(T) /\ Len(r) = Len(q) + 1 /\ (\A k \in 1..Len(q) : r[k] = q[k]) /\ r[Len(q) + 1] = e
    <2> HIDE DEF T
    <2>1. QED BY <1>2, AppendProperties
  <1>5. r \in Seq(Range(r)) /\ DOMAIN r = 1..Len(r)
    <2> HIDE DEF T, r
    <2>1. QED BY <1>4, SequenceOfItsElements
  <1>6. QED BY <1>3, <1>4, <1>5 DEF IsSeq

LEMMA SameLabels ==
  ASSUME NEW p, NEW q, GoodLabels(p), Fields \subseteq DOMAIN q,
         q.labels = p.labels, q.symbols = p.symbols, q.instructions = p.instructions,
         q.firstUnusedLblID = p.firstUnusedLblID, q.pendingLabel = p.pendingLabel, q.fatal = p.fatal
  PROVE  Keeps(p, q)
  <1>1. GoodLabels(q)
    BY DEF GoodLabels, TypedProgram, NamedCode, NamedSymbols, OnePlace, IDOf, IsOfSymbol
  <1>2. \A k : Unassigned(p, k) => Unassigned(q, k)
    BY DEF Unassigned, IDOf, IsOfSymbol, IsOnCode
  <1>3. QED BY <1>1, <1>2 DEF Keeps, KeepsBut

LEMMA KeepsTwice ==
  ASSUME NEW p, NEW q, NEW r, NEW a, KeepsBut(p, q, a), Keeps(q, r)
  PROVE  KeepsBut(p, r, a)
  <1>1. \A k : Unassigned(q, k) => k # 0
    <2>1. GoodLabels(q) => 0 \notin DOMAIN q.labels
      BY SequenceOfItsElements DEF GoodLabels, TypedProgram, IsSeq
    <2>2. GoodLabels(q)
      BY DEF KeepsBut
    <2>3. QED BY <2>1, <2>2 DEF Unassigned
  <1>2. QED BY <1>1 DEF Keeps, KeepsBut

LEMMA RegisterKeeps ==
  ASSUME NEW p, GoodLabels(p), NEW n
  PROVE  Keeps(p, getNewRegister(p, n))
  <1> DEFINE q == getNewRegister(p, n)
  <1>1. Fields \subseteq DOMAIN p
    BY DEF GoodLabels, TypedProgram
  <1>2. /\ Fields \subseteq DOMAIN q
        /\ q.labels = p.labels /\ q.symbols = p.symbols /\ q.instructions = p.instructions
        /\ q.firstUnusedLblID = p.firstUnusedLblID /\ q.pendingLabel = p.pendingLabel /\ q.fatal = p.fatal
    BY <1>1 DEF getNewRegister, Fields
  <1> HIDE DEF q
  <1>3. Keeps(p, q)
    BY <1>2, SameLabels
  <1>4. QED BY <1>3 DEF q

LEMMA AddKeeps ==
  ASSUME NEW p, GoodLabels(p), NEW instr, "label" \in DOMAIN instr
  PROVE  Keeps(p, addInstruction(p, instr))
  <1> DEFINE q == addInstruction(p, instr)
             j == [instr EXCEPT !.label = p.pendingLabel]
             N == Len(p.instructions)
  <1>1. Fields \subseteq DOMAIN p /\ IsSeq(p.instructions)
    BY DEF GoodLabels, TypedProgram
  <1>2. /\ Fields \subseteq DOMAIN q
        /\ q.labels = p.labels /\ q.symbols = p.symbols /\ q.instructions = Append(p.instructions, j)
        /\ q.firstUnusedLblID = p.firstUnusedLblID /\ q.pendingLabel = 0 /\ q.fatal = p.fatal
    BY <1>1 DEF addInstruction, Fields
  <1>3. j.label = p.pendingLabel
    OBVIOUS
  <1> HIDE DEF q, j
  <1>4. /\ IsSeq(q.instructions)
        /\ N \in Nat /\ DOMAIN p.instructions = 1..N /\ DOMAIN q.instructions = 1..(N + 1)
        /\ \A n \in DOMAIN p.instructions : q.instructions[n] = p.instructions[n]
        /\ q.instructions[N + 1].label = p.pendingLabel
    BY <1>1, <1>2, <1>3, Appended
  <1> HIDE DEF N
  <1>5. \A n \in DOMAIN q.instructions :
          \/ n \in DOMAIN p.instructions /\ n # N + 1 /\ q.instructions[n] = p.instructions[n]
          \/ n = N + 1 /\ q.instructions[n].label = p.pendingLabel
    BY <1>4
  <1>6. TypedProgram(q)
    <2>1. \A n \in DOMAIN q.instructions : q.instructions[n].label \in {0} \union DOMAIN q.labels
      BY <1>5, <1>2 DEF GoodLabels, TypedProgram
    <2>2. QED BY <2>1, <1>2, <1>4 DEF GoodLabels, TypedProgram, IDOf
  <1>7. NamedCode(q) /\ NamedSymbols(q)
    <2>0. \A n \in DOMAIN p.symbols : p.symbols[n].label # 0
      BY SequenceOfItsElements DEF GoodLabels, TypedProgram, IsSeq
    <2>1. QED BY <1>2, <2>0 DEF GoodLabels, NamedCode, NamedSymbols, IDOf, IsOfSymbol
  <1>8. OnePlace(q)
    BY <1>2, <1>5 DEF GoodLabels, OnePlace, IDOf
  <1>9. \A k : Unassigned(p, k) => Unassigned(q, k)
    <2> SUFFICES ASSUME NEW k, Unassigned(p, k) PROVE Unassigned(q, k)
      OBVIOUS
    <2>1. ~IsOnCode(q, k)
      BY <1>5 DEF Unassigned, IsOnCode
    <2>2. k # 0
      BY SequenceOfItsElements DEF GoodLabels, TypedProgram, IsSeq, Unassigned
    <2>3. QED BY <1>2, <2>1, <2>2 DEF Unassigned, IsOfSymbol, IDOf
  <1>10. Keeps(p, q)
    BY <1>6, <1>7, <1>8, <1>9 DEF Keeps, KeepsBut, GoodLabels
  <1>11. QED BY <1>10 DEF q

LEMMA CreateKeeps ==
  ASSUME NEW p, GoodLabels(p)
  PROVE  /\ Keeps(p, createLabel(p))
         /\ Unassigned(createLabel(p), LastLabel(createLabel(p)))
         /\ LastLabel(createLabel(p)) \notin DOMAIN p.labels
         /\ LastLabel(createLabel(p)) \in Nat
  <1> DEFINE q == createLabel(p)
             e == [labelID |-> p.firstUnusedLblID, name |-> NoLabel, global |-> FALSE, isAlias |-> FALSE]
             N == Len(p.labels)
  <1>1. Fields \subseteq DOMAIN p /\ IsSeq(p.labels)
    BY DEF GoodLabels, TypedProgram
  <1>2. /\ Fields \subseteq DOMAIN q
        /\ q.labels = Append(p.labels, e) /\ q.symbols = p.symbols /\ q.instructions = p.instructions
        /\ q.firstUnusedLblID = p.firstUnusedLblID + 1 /\ q.pendingLabel = p.pendingLabel /\ q.fatal = p.fatal
    BY <1>1 DEF createLabel, Fields
  <1>3. e.labelID = p.firstUnusedLblID /\ e.name = NoLabel /\ DOMAIN e = LabelFields
    BY DEF LabelFields
  <1> HIDE DEF q, e
  <1>4. /\ IsSeq(q.labels)
        /\ N \in Nat /\ DOMAIN p.labels = 1..N /\ DOMAIN q.labels = 1..(N + 1)
        /\ \A k \in DOMAIN p.labels : q.labels[k] = p.labels[k]
        /\ q.labels[N + 1] = e /\ Len(q.labels) = N + 1
    BY <1>1, <1>2, Appended
  <1> HIDE DEF N
  <1>5. \A k \in DOMAIN q.labels :
          \/ k \in DOMAIN p.labels /\ k # N + 1 /\ q.labels[k] = p.labels[k]
          \/ k = N + 1 /\ q.labels[k] = e
    BY <1>4
  <1>6. /\ p.firstUnusedLblID \in Nat \ {0}
        /\ \A k \in DOMAIN p.labels : IDOf(q, k) = IDOf(p, k) /\ IDOf(p, k) \in Nat /\ IDOf(p, k) < p.firstUnusedLblID
        /\ IDOf(q, N + 1) = p.firstUnusedLblID
        /\ N + 1 \notin DOMAIN p.labels /\ N + 1 # 0
        /\ DOMAIN p.labels \subseteq DOMAIN q.labels
    BY <1>3, <1>4 DEF GoodLabels, TypedProgram, IDOf
  <1>7. /\ \A n \in DOMAIN p.instructions : p.instructions[n].label \in {0} \union DOMAIN p.labels
        /\ \A n \in DOMAIN p.symbols : p.symbols[n].label \in DOMAIN p.labels
        /\ p.pendingLabel \in {0} \union DOMAIN p.labels
    BY DEF GoodLabels, TypedProgram
  <1>8. 0 \notin DOMAIN p.labels
    BY <1>4
  <1>9. TypedProgram(q)
    <2>1. \A k \in DOMAIN q.labels :
            DOMAIN q.labels[k] = LabelFields /\ IDOf(q, k) \in Nat /\ IDOf(q, k) < q.firstUnusedLblID
      BY <1>2, <1>3, <1>5, <1>6 DEF GoodLabels, TypedProgram
    <2>2. QED BY <2>1, <1>2, <1>4, <1>6, <1>7 DEF GoodLabels, TypedProgram
  <1>10. NamedCode(q)
    <2>1. \A k : IsOfSymbol(q, k) <=> IsOfSymbol(p, k)
      BY <1>2 DEF IsOfSymbol
    <2>2. QED BY <2>1, <1>3, <1>5, <1>6 DEF GoodLabels, NamedCode
  <1>11. NamedSymbols(q)
    <2>1. \A n \in DOMAIN p.symbols : p.symbols[n].label \in DOMAIN p.labels /\ p.symbols[n].label # N + 1
      BY <1>6, <1>7
    <2>2. \A n \in DOMAIN q.symbols :
            LET k == q.symbols[n].label
            IN /\ q.labels[k].name = <<"l_", q.symbols[n].ID>>
               /\ IDOf(q, k) # 0
               /\ q.pendingLabel # k
               /\ \A l \in DOMAIN q.labels : IDOf(q, l) = IDOf(q, k) => l = k
      <3> SUFFICES ASSUME NEW n \in DOMAIN p.symbols, NEW k, k = p.symbols[n].label
                   PROVE  /\ q.labels[k].name = <<"l_", p.symbols[n].ID>>
                          /\ IDOf(q, k) # 0
                          /\ p.pendingLabel # k
                          /\ \A l \in DOMAIN q.labels : IDOf(q, l) = IDOf(q, k) => l = k
        BY <1>2
      <3>1. k \in DOMAIN p.labels
        BY <1>7
      <3>2. /\ p.labels[k].name = <<"l_", p.symbols[n].ID>>
            /\ IDOf(p, k) # 0
            /\ p.pendingLabel # k
            /\ \A l \in DOMAIN p.labels : IDOf(p, l) = IDOf(p, k) => l = k
        BY DEF GoodLabels, NamedSymbols
      <3>3. q.labels[k] = p.labels[k] /\ IDOf(q, k) = IDOf(p, k)
        BY <3>1, <1>4, <1>6
      <3>4. ASSUME NEW l \in DOMAIN q.labels, IDOf(q, l) = IDOf(q, k) PROVE l = k
        <4>1. CASE l \in DOMAIN p.labels
          BY <4>1, <3>1, <3>2, <3>4, <1>6
        <4>2. CASE l = N + 1
          <5>1. IDOf(q, l) = p.firstUnusedLblID /\ IDOf(q, k) < p.firstUnusedLblID /\ IDOf(q, k) \in Nat
            BY <4>2, <3>1, <1>6
          <5>2. QED BY <5>1, <3>4, <1>6
        <4>3. QED BY <4>1, <4>2, <1>5
      <3>5. QED BY <3>2, <3>3, <3>4
    <2>3. QED BY <2>2, <1>2 DEF GoodLabels, NamedSymbols
  <1>12. OnePlace(q)
    BY <1>2, <1>6, <1>7 DEF GoodLabels, OnePlace
  <1>13. \A k : Unassigned(p, k) => Unassigned(q, k)
    <2> SUFFICES ASSUME NEW k, Unassigned(p, k) PROVE Unassigned(q, k)
      OBVIOUS
    <2>1. /\ k \in DOMAIN p.labels /\ IDOf(p, k) # 0
          /\ ~IsOfSymbol(p, k) /\ ~IsOnCode(p, k) /\ p.pendingLabel # k
          /\ \A l \in DOMAIN p.labels : IDOf(p, l) = IDOf(p, k) => l = k
      BY DEF Unassigned
    <2>2. k \in DOMAIN q.labels /\ IDOf(q, k) = IDOf(p, k)
      BY <2>1, <1>6
    <2>3. ~IsOfSymbol(q, k) /\ ~IsOnCode(q, k) /\ q.pendingLabel # k
      BY <2>1, <1>2 DEF IsOfSymbol, IsOnCode
    <2>4. ASSUME NEW l \in DOMAIN q.labels, IDOf(q, l) = IDOf(q, k) PROVE l = k
      <3>1. CASE l \in DOMAIN p.labels
        BY <3>1, <2>1, <2>4, <1>6
      <3>2. CASE l = N + 1
        <4>1. IDOf(q, l) = p.firstUnusedLblID /\ IDOf(q, k) < p.firstUnusedLblID /\ IDOf(q, k) \in Nat
          BY <3>2, <2>1, <1>6
        <4>2. QED BY <4>1, <2>4, <1>6
      <3>3. QED BY <3>1, <3>2, <1>5
    <2>5. QED BY <2>1, <2>2, <2>3, <2>4 DEF Unassigned
  <1>14. Unassigned(q, N + 1)
    <2>1. ~IsOfSymbol(q, N + 1) /\ ~IsOnCode(q, N + 1) /\ q.pendingLabel # N + 1
      BY <1>2, <1>6, <1>7 DEF IsOfSymbol, IsOnCode
    <2>2. ASSUME NEW l \in DOMAIN q.labels, IDOf(q, l) = IDOf(q, N + 1) PROVE l = N + 1
      <3>1. CASE l \in DOMAIN p.labels
        <4>1. IDOf(q, l) < p.firstUnusedLblID /\ IDOf(q, l) \in Nat /\ IDOf(q, N + 1) = p.firstUnusedLblID
          BY <3>1, <1>6
        <4>2. QED BY <4>1, <2>2, <1>6
      <3>2. QED BY <3>1, <1>5
    <2>3. N + 1 \in DOMAIN q.labels /\ IDOf(q, N + 1) # 0
      BY <1>4, <1>6
    <2>4. QED BY <2>1, <2>2, <2>3 DEF Unassigned
  <1>15. Keeps(p, q) /\ Unassigned(q, LastLabel(q)) /\ LastLabel(q) \notin DOMAIN p.labels /\ LastLabel(q) \in Nat
    BY <1>4, <1>6, <1>9, <1>10, <1>11, <1>12, <1>13, <1>14 DEF Keeps, KeepsBut, GoodLabels, LastLabel
  <1>16. QED BY <1>15 DEF q

LEMMA AssignKeeps ==
  ASSUME NEW p, GoodLabels(p), NEW a, Unassigned(p, a)
  PROVE  KeepsBut(p, assignLabel(p, a), a)
  <1>1. /\ a \in DOMAIN p.labels /\ IDOf(p, a) # 0
        /\ ~IsOfSymbol(p, a) /\ ~IsOnCode(p, a) /\ p.pendingLabel # a
        /\ \A l \in DOMAIN p.labels : IDOf(p, l) = IDOf(p, a) => l = a
    BY DEF Unassigned
  <1>2. /\ Fields \subseteq DOMAIN p
        /\ IsSeq(p.symbols) /\ IsSeq(p.instructions) /\ IsSeq(p.labels)
        /\ p.firstUnusedLblID \in Nat \ {0}
        /\ \A k \in DOMAIN p.labels :
             DOMAIN p.labels[k] = LabelFields /\ IDOf(p, k) \in Nat /\ IDOf(p, k) < p.firstUnusedLblID
        /\ \A n \in DOMAIN p.instructions : p.instructions[n].label \in {0} \union DOMAIN p.labels
        /\ \A n \in DOMAIN p.symbols : p.symbols[n].label \in DOMAIN p.labels
        /\ p.pendingLabel \in {0} \union DOMAIN p.labels
        /\ p.fatal = FALSE
    BY DEF GoodLabels, TypedProgram
  <1>3. a \in Nat /\ a # 0
    BY <1>1, <1>2, SequenceOfItsElements DEF IsSeq
  <1>4. \A n \in DOMAIN p.instructions : p.instructions[n].label # 0 => IDOf(p, p.instructions[n].label) # IDOf(p, a)
    BY <1>1, <1>2 DEF IsOnCode
  <1>5. ~IsAssigned(p, a)
    BY <1>4 DEF IsAssigned, IDOf
  <1>6. CASE p.pendingLabel = 0
    <2> DEFINE q == assignLabel(p, a)
    <2>1. q = [p EXCEPT !.pendingLabel = a]
      BY <1>5, <1>6 DEF assignLabel
    <2>2. /\ Fields \subseteq DOMAIN q
          /\ q.labels = p.labels /\ q.symbols = p.symbols /\ q.instructions = p.instructions
          /\ q.firstUnusedLblID = p.firstUnusedLblID /\ q.pendingLabel = a /\ q.fatal = p.fatal
      BY <2>1, <1>2 DEF Fields
    <2> HIDE DEF q
    <2>3. TypedProgram(q)
      BY <2>2, <1>1, <1>2 DEF TypedProgram, IDOf
    <2>4. NamedCode(q)
      BY <2>2 DEF GoodLabels, NamedCode, IDOf, IsOfSymbol
    <2>5. NamedSymbols(q)
      BY <2>2, <1>1 DEF GoodLabels, NamedSymbols, IDOf, IsOfSymbol
    <2>6. OnePlace(q)
      BY <2>2, <1>4 DEF GoodLabels, OnePlace, IDOf
    <2>7. \A k : k # a /\ Unassigned(p, k) => Unassigned(q, k)
      BY <2>2 DEF Unassigned, IDOf, IsOfSymbol, IsOnCode
    <2>8. KeepsBut(p, q, a)
      BY <2>3, <2>4, <2>5, <2>6, <2>7 DEF KeepsBut, GoodLabels
    <2>9. QED BY <2>8 DEF q
  <1>7. CASE p.pendingLabel # 0
    <2> DEFINE b       == p.pendingLabel
               pending == p.labels[b]
               new     == p.labels[a]
               older   == new.labelID # 0 /\ new.labelID < pending.labelID
               name    == IF pending.name = NoLabel \/ older THEN new.name ELSE pending.name
               aliased == [p EXCEPT !.labels[a].labelID = pending.labelID,
                                    !.labels[a].isAlias = TRUE,
                                    !.labels[a].global = new.global \/ pending.global,
                                    !.labels[b].global = new.global \/ pending.global]
               q       == setRawLabelName(aliased, a, name)
    <2>1. assignLabel(p, a) = q
      BY <1>5, <1>7 DEF assignLabel
    <2>2. b \in DOMAIN p.labels /\ b # a
      BY <1>1, <1>2, <1>7
    <2>3. /\ DOMAIN p.labels[a] = LabelFields /\ DOMAIN p.labels[b] = LabelFields
          /\ Fields \subseteq DOMAIN p
      BY <1>1, <1>2, <2>2
    \* The name stays what it is.
    <2>4. name = pending.name
      <3>1. new.name = NoLabel
        BY <1>1 DEF GoodLabels, NamedCode
      <3>2. pending.name # NoLabel => IDOf(p, b) = 0
        BY <2>2 DEF GoodLabels, NamedCode, NamedSymbols, IsOfSymbol
      <3>3. IDOf(p, a) \in Nat
        BY <1>1, <1>2
      <3>4. IDOf(p, b) = 0 => ~older
        BY <3>3 DEF IDOf
      <3>5. QED BY <3>1, <3>2, <3>4
    <2>5. /\ Fields \subseteq DOMAIN aliased
          /\ DOMAIN aliased.labels = DOMAIN p.labels
          /\ aliased.symbols = p.symbols /\ aliased.instructions = p.instructions
          /\ aliased.firstUnusedLblID = p.firstUnusedLblID /\ aliased.pendingLabel = b /\ aliased.fatal = p.fatal
      BY <2>3 DEF Fields
    <2>6. /\ \A k \in DOMAIN p.labels : k # a /\ k # b => aliased.labels[k] = p.labels[k]
          /\ DOMAIN aliased.labels[a] = LabelFields /\ DOMAIN aliased.labels[b] = LabelFields
          /\ aliased.labels[a].labelID = pending.labelID /\ aliased.labels[b].labelID = pending.labelID
          /\ aliased.labels[a].name = new.name /\ aliased.labels[b].name = pending.name
      BY <1>1, <2>2, <2>3 DEF LabelFields, Fields
    <2>7. /\ Fields \subseteq DOMAIN q
          /\ q.symbols = p.symbols /\ q.instructions = p.instructions
          /\ q.firstUnusedLblID = p.firstUnusedLblID /\ q.pendingLabel = b /\ q.fatal = p.fatal
          /\ q.labels = [k \in DOMAIN aliased.labels |->
                          IF aliased.labels[k].labelID = aliased.labels[a].labelID
                            THEN [aliased.labels[k] EXCEPT !.name = name] ELSE aliased.labels[k]]
      <3> HIDE DEF aliased, name
      <3>1. QED BY <2>5 DEF setRawLabelName, Fields
    <2> HIDE DEF q, aliased, name
    <2>8. DOMAIN q.labels = DOMAIN p.labels /\ IsSeq(q.labels)
      <3>1. DOMAIN q.labels = DOMAIN p.labels /\ DOMAIN q.labels = 1..Len(p.labels) /\ Len(p.labels) \in Nat
        BY <2>5, <2>7, <1>2, SequenceOfItsElements DEF IsSeq
      <3>2. q.labels \in [1..Len(p.labels) -> Range(q.labels)]
        BY <3>1, <2>7 DEF Range
      <3>3. QED BY <3>1, <3>2 DEF IsSeq
    <2>9. \A k \in DOMAIN p.labels :
            /\ DOMAIN q.labels[k] = LabelFields
            /\ IDOf(q, k) = IF k = a THEN IDOf(p, b) ELSE IDOf(p, k)
            /\ q.labels[k].name = IF IDOf(q, k) = IDOf(p, b) THEN p.labels[b].name ELSE p.labels[k].name
      <3> SUFFICES ASSUME NEW k \in DOMAIN p.labels
                   PROVE  /\ DOMAIN q.labels[k] = LabelFields
                          /\ IDOf(q, k) = IF k = a THEN IDOf(p, b) ELSE IDOf(p, k)
                          /\ q.labels[k].name = IF IDOf(q, k) = IDOf(p, b) THEN p.labels[b].name ELSE p.labels[k].name
        OBVIOUS
      <3> DEFINE l == aliased.labels[k]
      <3>1. /\ DOMAIN l = LabelFields
            /\ l.labelID = IF k = a THEN IDOf(p, b) ELSE IDOf(p, k)
            /\ k # a => l.name = p.labels[k].name
        BY <2>6, <1>2 DEF IDOf
      <3>2. q.labels[k] = IF l.labelID = IDOf(p, b) THEN [l EXCEPT !.name = p.labels[b].name] ELSE l
        BY <2>4, <2>5, <2>6, <2>7 DEF IDOf
      <3> HIDE DEF l
      <3>3. CASE l.labelID = IDOf(p, b)
        BY <3>1, <3>2, <3>3 DEF LabelFields, IDOf
      <3>4. CASE l.labelID # IDOf(p, b)
        BY <3>1, <3>2, <3>4 DEF LabelFields, IDOf
      <3>5. QED BY <3>3, <3>4
    <2>10. \A n \in DOMAIN p.symbols :
             LET k == p.symbols[n].label
             IN /\ k \in DOMAIN p.labels /\ k # a /\ k # b
                /\ p.labels[k].name = <<"l_", p.symbols[n].ID>>
                /\ IDOf(p, k) # 0
                /\ \A l \in DOMAIN p.labels : IDOf(p, l) = IDOf(p, k) => l = k
      BY <1>1, <1>2 DEF GoodLabels, NamedSymbols, IsOfSymbol
    <2>11. TypedProgram(q)
      <3>1. \A k \in DOMAIN q.labels : IDOf(q, k) \in Nat /\ IDOf(q, k) < q.firstUnusedLblID
        BY <2>2, <2>7, <2>8, <2>9, <1>2
      <3>2. QED BY <3>1, <2>2, <2>7, <2>8, <2>9, <1>2 DEF TypedProgram
    <2>12. NamedCode(q)
      <3>1. \A k : IsOfSymbol(q, k) <=> IsOfSymbol(p, k)
        BY <2>7 DEF IsOfSymbol
      <3>2. ~IsOfSymbol(p, b)
        BY <2>10 DEF IsOfSymbol
      <3>3. QED BY <3>1, <3>2, <2>2, <2>8, <2>9 DEF GoodLabels, NamedCode
    <2>13. NamedSymbols(q)
      <3>1. \A n \in DOMAIN p.symbols :
              LET k == p.symbols[n].label
              IN /\ q.labels[k].name = <<"l_", p.symbols[n].ID>>
                 /\ IDOf(q, k) # 0
                 /\ q.pendingLabel # k
                 /\ \A l \in DOMAIN q.labels : IDOf(q, l) = IDOf(q, k) => l = k
        BY <2>2, <2>7, <2>8, <2>9, <2>10
      <3>2. QED BY <3>1, <2>7 DEF GoodLabels, NamedSymbols
    <2>14. OnePlace(q)
      <3>1. \A n \in DOMAIN p.instructions :
              p.instructions[n].label # 0 => IDOf(q, p.instructions[n].label) = IDOf(p, p.instructions[n].label)
        BY <2>9, <1>1, <1>2 DEF IsOnCode
      <3>2. IDOf(q, b) = IDOf(p, b)
        BY <2>2, <2>9
      <3>3. QED BY <3>1, <3>2, <2>7 DEF GoodLabels, OnePlace
    <2>15. \A k : k # a /\ Unassigned(p, k) => Unassigned(q, k)
      <3>1. \A k : /\ IsOfSymbol(q, k) <=> IsOfSymbol(p, k)
                   /\ IsOnCode(q, k) <=> IsOnCode(p, k)
        BY <2>7 DEF IsOfSymbol, IsOnCode
      <3>2. QED BY <3>1, <2>2, <2>7, <2>8, <2>9 DEF Unassigned
    <2>16. KeepsBut(p, q, a)
      BY <2>11, <2>12, <2>13, <2>14, <2>15 DEF KeepsBut, GoodLabels
    <2>17. QED BY <2>1, <2>16
  <1>8. QED BY <1>6, <1>7

LEMMA DifferentNames ==
  /\ \A a, b : <<"l_", a>> = <<"l_", b>> => a = b
  /\ \A a, b : <<"l", a>> = <<"l", b>> => a = b
  /\ \A a, b : <<"l", a>> # <<"l_", b>>
  /\ \A a : <<"_start">> # <<"l_", a>> /\ <<"_start">> # <<"l", a>>
  /\ \A a : <<"l_", a>> # NoLabel
  /\ <<"_start">> # NoLabel
  BY DEF NoLabel

\* What the assembly file calls a label
LEMMA NamesOfLabels ==
  ASSUME NEW p, GoodLabels(p), NEW k \in DOMAIN p.labels
  PROVE  /\ IDOf(p, k) = 0 => getLabelName(p.labels[k]) = <<"_start">>
         /\ \A n \in DOMAIN p.symbols : p.symbols[n].label = k => getLabelName(p.labels[k]) = <<"l_", p.symbols[n].ID>>
         /\ IDOf(p, k) # 0 /\ ~IsOfSymbol(p, k) => getLabelName(p.labels[k]) = <<"l", IDOf(p, k)>>
  <1>1. IDOf(p, k) = 0 => getLabelName(p.labels[k]) = <<"_start">>
    BY DifferentNames DEF GoodLabels, NamedCode, getLabelName
  <1>2. ASSUME NEW n \in DOMAIN p.symbols, p.symbols[n].label = k
        PROVE  getLabelName(p.labels[k]) = <<"l_", p.symbols[n].ID>>
    <2>1. p.labels[k].name = <<"l_", p.symbols[n].ID>>
      BY <1>2 DEF GoodLabels, NamedSymbols
    <2>2. QED BY <2>1, DifferentNames DEF getLabelName
  <1>3. IDOf(p, k) # 0 /\ ~IsOfSymbol(p, k) => getLabelName(p.labels[k]) = <<"l", IDOf(p, k)>>
    BY DEF GoodLabels, NamedCode, getLabelName, IDOf
  <1>4. QED BY <1>1, <1>2, <1>3

LEMMA SymbolKeeps ==
  ASSUME NEW p, GoodLabels(p), NEW id, NEW type, NEW arraySize
  PROVE  Keeps(p, createSymbol(p, id, type, arraySize))
  <1>1. CASE CannotCreate(p, id, type, arraySize)
    <2>1. createSymbol(p, id, type, arraySize) = p
      BY <1>1 DEF createSymbol
    <2>2. Keeps(p, p)
      BY DEF Keeps, KeepsBut
    <2>3. QED BY <2>1, <2>2
  <1>2. CASE ~CannotCreate(p, id, type, arraySize)
    <2> DEFINE c == createLabel(p)
               a == LastLabel(c)
               named == setLabelName(c, a, <<"l_", id>>)
               e == [ID |-> id, type |-> type, arraySize |-> arraySize, label |-> a]
               q == [named EXCEPT !.symbols = Append(@, e)]
    <2>1. createSymbol(p, id, type, arraySize) = q
      BY <1>2 DEF createSymbol
    <2>2. Keeps(p, c) /\ Unassigned(c, a) /\ a \notin DOMAIN p.labels /\ GoodLabels(c)
      BY CreateKeeps DEF Keeps, KeepsBut
    <2>3. c.symbols = p.symbols
      BY DEF createLabel, GoodLabels, TypedProgram, Fields
    <2>4. e.ID = id /\ e.label = a
      OBVIOUS
    <2> HIDE DEF c, a, e
    <2>5. \A n \in DOMAIN c.symbols : c.symbols[n].ID # id
      BY <1>2, <2>3 DEF CannotCreate, HasSymbol
    <2>6. /\ a \in DOMAIN c.labels /\ IDOf(c, a) # 0
          /\ ~IsOfSymbol(c, a) /\ ~IsOnCode(c, a) /\ c.pendingLabel # a
          /\ \A l \in DOMAIN c.labels : IDOf(c, l) = IDOf(c, a) => l = a
      BY <2>2 DEF Unassigned
    <2>7. /\ Fields \subseteq DOMAIN c
          /\ IsSeq(c.symbols) /\ IsSeq(c.instructions) /\ IsSeq(c.labels)
          /\ c.firstUnusedLblID \in Nat \ {0}
          /\ \A k \in DOMAIN c.labels :
               DOMAIN c.labels[k] = LabelFields /\ IDOf(c, k) \in Nat /\ IDOf(c, k) < c.firstUnusedLblID
          /\ \A n \in DOMAIN c.instructions : c.instructions[n].label \in {0} \union DOMAIN c.labels
          /\ \A n \in DOMAIN c.symbols : c.symbols[n].label \in DOMAIN c.labels
          /\ c.pendingLabel \in {0} \union DOMAIN c.labels
          /\ c.fatal = FALSE
      BY <2>2 DEF GoodLabels, TypedProgram
    \* No other label has the name.
    <2>8. \A k \in DOMAIN c.labels : k # a => getLabelName(c.labels[k]) # <<"l_", id>>
      <3> SUFFICES ASSUME NEW k \in DOMAIN c.labels, k # a PROVE getLabelName(c.labels[k]) # <<"l_", id>>
        OBVIOUS
      <3>1. CASE IDOf(c, k) = 0
        BY <3>1, <2>2, NamesOfLabels, DifferentNames
      <3>2. CASE IsOfSymbol(c, k)
        BY <3>2, <2>2, <2>5, NamesOfLabels, DifferentNames DEF IsOfSymbol
      <3>3. CASE IDOf(c, k) # 0 /\ ~IsOfSymbol(c, k)
        BY <3>3, <2>2, NamesOfLabels, DifferentNames
      <3>4. QED BY <3>1, <3>2, <3>3
    <2>9. named = setRawLabelName(c, a, <<"l_", id>>)
      <3> DEFINE others == {k \in DOMAIN c.labels : c.labels[k].labelID # c.labels[a].labelID}
                 taken  == {getLabelName(c.labels[k]) : k \in others}
      <3>1. <<"l_", id>> \notin taken
        BY <2>8
      <3>2. QED BY <3>1 DEF setLabelName
    <2>10. /\ Fields \subseteq DOMAIN named
           /\ named.symbols = c.symbols /\ named.instructions = c.instructions
           /\ named.firstUnusedLblID = c.firstUnusedLblID /\ named.pendingLabel = c.pendingLabel /\ named.fatal = c.fatal
           /\ named.labels = [k \in DOMAIN c.labels |-> IF c.labels[k].labelID = c.labels[a].labelID
                                             THEN [c.labels[k] EXCEPT !.name = <<"l_", id>>] ELSE c.labels[k]]
      BY <2>7, <2>9 DEF setRawLabelName, Fields
    <2>11. /\ Fields \subseteq DOMAIN q
           /\ q.symbols = Append(c.symbols, e) /\ q.instructions = c.instructions
           /\ q.firstUnusedLblID = c.firstUnusedLblID /\ q.pendingLabel = c.pendingLabel /\ q.fatal = c.fatal
           /\ q.labels = named.labels
      <3> HIDE DEF named
      <3>1. QED BY <2>10 DEF Fields
    <2> HIDE DEF named, q
    <2>12. DOMAIN q.labels = DOMAIN c.labels /\ IsSeq(q.labels)
      <3>1. DOMAIN q.labels = DOMAIN c.labels /\ DOMAIN q.labels = 1..Len(c.labels) /\ Len(c.labels) \in Nat
        BY <2>7, <2>10, <2>11, SequenceOfItsElements DEF IsSeq
      <3>2. q.labels \in [1..Len(c.labels) -> Range(q.labels)]
        BY <3>1, <2>10, <2>11 DEF Range
      <3>3. QED BY <3>1, <3>2 DEF IsSeq
    <2>13. /\ \A k \in DOMAIN c.labels : k # a => q.labels[k] = c.labels[k]
           /\ DOMAIN q.labels[a] = LabelFields /\ q.labels[a].labelID = c.labels[a].labelID
           /\ q.labels[a].name = <<"l_", id>>
      <3>1. \A k \in DOMAIN c.labels : k # a => c.labels[k].labelID # c.labels[a].labelID
        BY <2>6 DEF IDOf
      <3>2. q.labels[a] = [c.labels[a] EXCEPT !.name = <<"l_", id>>]
        BY <2>6, <2>10, <2>11
      <3>3. DOMAIN c.labels[a] = LabelFields
        BY <2>6, <2>7
      <3>4. QED BY <3>1, <3>2, <3>3, <2>10, <2>11 DEF LabelFields
    <2>14. \A k \in DOMAIN c.labels : IDOf(q, k) = IDOf(c, k) /\ DOMAIN q.labels[k] = LabelFields
      BY <2>7, <2>13 DEF IDOf
    <2> DEFINE N == Len(c.symbols)
    <2>15. /\ IsSeq(q.symbols)
           /\ N \in Nat /\ DOMAIN c.symbols = 1..N /\ DOMAIN q.symbols = 1..(N + 1)
           /\ \A n \in DOMAIN c.symbols : q.symbols[n] = c.symbols[n]
           /\ q.symbols[N + 1] = e
      BY <2>7, <2>11, Appended
    <2> HIDE DEF N
    <2>16. \A n \in DOMAIN q.symbols :
             \/ n \in DOMAIN c.symbols /\ n # N + 1 /\ q.symbols[n] = c.symbols[n]
             \/ n = N + 1 /\ q.symbols[n].label = a /\ q.symbols[n].ID = id
      BY <2>4, <2>15
    <2>17. \A k : IsOfSymbol(q, k) <=> k = a \/ IsOfSymbol(c, k)
      BY <2>4, <2>15, <2>16 DEF IsOfSymbol
    <2>18. TypedProgram(q)
      <3>1. \A n \in DOMAIN q.symbols : q.symbols[n].label \in DOMAIN q.labels
        BY <2>6, <2>7, <2>12, <2>16
      <3>2. \A k \in DOMAIN q.labels :
              DOMAIN q.labels[k] = LabelFields /\ IDOf(q, k) \in Nat /\ IDOf(q, k) < q.firstUnusedLblID
        BY <2>7, <2>11, <2>12, <2>14
      <3>3. QED BY <3>1, <3>2, <2>7, <2>11, <2>12, <2>15 DEF TypedProgram
    <2>19. NamedCode(q)
      BY <2>2, <2>6, <2>12, <2>13, <2>14, <2>17 DEF GoodLabels, NamedCode
    <2>20. NamedSymbols(q)
      <3>1. \A n \in DOMAIN c.symbols :
              LET k == c.symbols[n].label
              IN /\ k \in DOMAIN c.labels /\ k # a
                 /\ c.labels[k].name = <<"l_", c.symbols[n].ID>>
                 /\ IDOf(c, k) # 0
                 /\ c.pendingLabel # k
                 /\ \A l \in DOMAIN c.labels : IDOf(c, l) = IDOf(c, k) => l = k
        BY <2>2, <2>6, <2>7 DEF GoodLabels, NamedSymbols, IsOfSymbol
      <3>2. \A n \in DOMAIN q.symbols :
              LET k == q.symbols[n].label
              IN /\ q.labels[k].name = <<"l_", q.symbols[n].ID>>
                 /\ IDOf(q, k) # 0
                 /\ q.pendingLabel # k
                 /\ \A l \in DOMAIN q.labels : IDOf(q, l) = IDOf(q, k) => l = k
        <4> SUFFICES ASSUME NEW n \in DOMAIN q.symbols, NEW k, k = q.symbols[n].label
                     PROVE  /\ q.labels[k].name = <<"l_", q.symbols[n].ID>>
                            /\ IDOf(q, k) # 0
                            /\ q.pendingLabel # k
                            /\ \A l \in DOMAIN q.labels : IDOf(q, l) = IDOf(q, k) => l = k
          OBVIOUS
        <4>1. CASE n \in DOMAIN c.symbols /\ q.symbols[n] = c.symbols[n]
          BY <4>1, <3>1, <2>11, <2>12, <2>13, <2>14
        <4>2. CASE q.symbols[n].label = a /\ q.symbols[n].ID = id
          BY <4>2, <2>6, <2>11, <2>12, <2>13, <2>14
        <4>3. QED BY <4>1, <4>2, <2>16
      <3>3. \A n, m \in DOMAIN q.symbols : q.symbols[n].ID = q.symbols[m].ID => n = m
        BY <2>2, <2>5, <2>16 DEF GoodLabels, NamedSymbols
      <3>4. QED BY <3>2, <3>3 DEF NamedSymbols
    <2>21. OnePlace(q)
      <3>1. \A n \in DOMAIN c.instructions :
              c.instructions[n].label # 0 => IDOf(q, c.instructions[n].label) = IDOf(c, c.instructions[n].label)
        BY <2>7, <2>14
      <3>2. c.pendingLabel # 0 => IDOf(q, c.pendingLabel) = IDOf(c, c.pendingLabel)
        BY <2>7, <2>14
      <3>3. QED BY <2>2, <2>11, <3>1, <3>2 DEF GoodLabels, OnePlace
    <2>22. \A k : Unassigned(p, k) => Unassigned(q, k)
      <3> SUFFICES ASSUME NEW k, Unassigned(p, k) PROVE Unassigned(q, k)
        OBVIOUS
      <3>0. \A l : Unassigned(c, l) => l # 0
        BY <2>7, SequenceOfItsElements DEF IsSeq, Unassigned
      <3>1. k # a /\ Unassigned(c, k)
        <4>1. k \in DOMAIN p.labels
          BY DEF Unassigned
        <4>2. k # 0
          BY <4>1, SequenceOfItsElements DEF GoodLabels, TypedProgram, IsSeq
        <4>3. QED BY <4>1, <4>2, <2>2 DEF Keeps, KeepsBut
      <3>2. IsOnCode(q, k) <=> IsOnCode(c, k)
        BY <2>11 DEF IsOnCode
      <3>3. QED BY <3>1, <3>2, <2>11, <2>12, <2>14, <2>17 DEF Unassigned
    <2>23. Keeps(p, q)
      BY <2>18, <2>19, <2>20, <2>21, <2>22 DEF Keeps, KeepsBut, GoodLabels
    <2>24. QED BY <2>1, <2>23
  <1>3. QED BY <1>1, <1>2

LEMMA NewProgramGood == GoodLabels(newProgram)
  <1> DEFINE empty == [symbols |-> <<>>, instructions |-> <<>>, firstUnusedReg |-> 1, labels |-> <<>>,
                       firstUnusedLblID |-> 0, pendingLabel |-> 0, fatal |-> FALSE]
             e == [labelID |-> empty.firstUnusedLblID, name |-> NoLabel, global |-> FALSE, isAlias |-> FALSE]
             c == createLabel(empty)
             named == setLabelName(c, 1, <<"_start">>)
             global == [named EXCEPT !.labels[1].global = TRUE]
             q == newProgram
  <1>0. /\ Fields \subseteq DOMAIN empty
        /\ empty.symbols = <<>> /\ empty.instructions = <<>> /\ empty.labels = <<>>
        /\ empty.firstUnusedLblID = 0 /\ empty.pendingLabel = 0 /\ empty.fatal = FALSE
    BY DEF Fields
  <1>1. /\ Fields \subseteq DOMAIN c
        /\ c.symbols = <<>> /\ c.instructions = <<>> /\ c.labels = Append(<<>>, e)
        /\ c.firstUnusedLblID = 1 /\ c.pendingLabel = 0 /\ c.fatal = FALSE
    <2> HIDE DEF empty
    <2>1. /\ Fields \subseteq DOMAIN c
          /\ c.labels = Append(empty.labels, e) /\ c.symbols = empty.symbols /\ c.instructions = empty.instructions
          /\ c.firstUnusedLblID = empty.firstUnusedLblID + 1 /\ c.pendingLabel = empty.pendingLabel /\ c.fatal = empty.fatal
      BY <1>0 DEF createLabel, Fields
    <2> HIDE DEF c, e
    <2>2. QED BY <2>1, <1>0
  <1>2. /\ IsSeq(c.labels) /\ DOMAIN c.labels = 1..1 /\ c.labels[1] = e
        /\ e.labelID = 0 /\ DOMAIN e = LabelFields
    <2>1. e.labelID = 0 /\ DOMAIN e = LabelFields
      BY <1>0 DEF LabelFields
    <2> DEFINE none == <<>>
    <2>2. Len(none) = 0 /\ IsSeq(none)
      BY DEF IsSeq
    <2> HIDE DEF none, e
    <2>3. IsSeq(Append(none, e)) /\ DOMAIN Append(none, e) = 1..(0 + 1) /\ Append(none, e)[0 + 1] = e
      BY <2>2, Appended
    <2> HIDE DEF c
    <2>4. QED BY <2>1, <2>3, <1>1 DEF none
  <1> HIDE DEF c, e, empty
  <1>3. named = setRawLabelName(c, 1, <<"_start">>)
    <2>1. {k \in DOMAIN c.labels : c.labels[k].labelID # c.labels[1].labelID} = {}
      BY <1>2
    <2>2. QED BY <2>1 DEF setLabelName
  <1>4. /\ Fields \subseteq DOMAIN named
        /\ named.symbols = <<>> /\ named.instructions = <<>>
        /\ named.firstUnusedLblID = 1 /\ named.pendingLabel = 0 /\ named.fatal = FALSE
        /\ named.labels = [k \in DOMAIN c.labels |-> IF c.labels[k].labelID = c.labels[1].labelID
                                          THEN [c.labels[k] EXCEPT !.name = <<"_start">>] ELSE c.labels[k]]
    <2> HIDE DEF named
    <2>1. QED BY <1>1, <1>3 DEF setRawLabelName, Fields
  <1>5. /\ DOMAIN named.labels = 1..1 /\ DOMAIN named.labels[1] = LabelFields
        /\ named.labels[1].labelID = 0 /\ named.labels[1].name = <<"_start">>
    BY <1>2, <1>4 DEF LabelFields
  <1> HIDE DEF named
  <1> DEFINE f == [named.labels[1] EXCEPT !.global = TRUE]
  <1>6. f.labelID = 0 /\ f.name = <<"_start">> /\ DOMAIN f = LabelFields
    BY <1>5 DEF LabelFields
  <1> HIDE DEF f
  <1>7. /\ Fields \subseteq DOMAIN global
        /\ global.symbols = <<>> /\ global.instructions = <<>>
        /\ global.firstUnusedLblID = 1 /\ global.pendingLabel = 0 /\ global.fatal = FALSE
        /\ global.labels = [named.labels EXCEPT ![1] = f]
    BY <1>4 DEF Fields, f
  <1> HIDE DEF global
  <1>8. q = assignLabel(global, 1)
    BY DEF newProgram, global, named, c, e, empty
  <1>9. q = [global EXCEPT !.pendingLabel = 1]
    <2>1. ~IsAssigned(global, 1)
      BY <1>7 DEF IsAssigned
    <2> HIDE DEF q
    <2>2. QED BY <2>1, <1>7, <1>8 DEF assignLabel
  <1> HIDE DEF q
  <1>10. /\ Fields \subseteq DOMAIN q
         /\ q.symbols = <<>> /\ q.instructions = <<>> /\ q.labels = global.labels
         /\ q.firstUnusedLblID = 1 /\ q.pendingLabel = 1 /\ q.fatal = FALSE
    BY <1>7, <1>9 DEF Fields
  <1>11. q.labels \in [1..1 -> {f}] /\ DOMAIN q.labels = 1..1 /\ q.labels[1] = f
    <2>1. named.labels = [k \in 1..1 |-> named.labels[k]]
      BY <1>2, <1>4
    <2>2. named.labels \in [1..1 -> {named.labels[1]}]
      BY <2>1
    <2>3. QED BY <2>2, <1>7, <1>10
  <1>12. IsSeq(q.labels) /\ IsSeq(q.symbols) /\ IsSeq(q.instructions)
    <2>1. q.labels \in [1..1 -> Range(q.labels)]
      BY <1>11 DEF Range
    <2> DEFINE n == 1
    <2>2. q.labels \in [1..n -> Range(q.labels)] /\ n \in Nat
      BY <2>1
    <2> HIDE DEF n
    <2>3. q.labels \in Seq(Range(q.labels))
      BY <2>2
    <2>4. QED BY <2>3, <1>10 DEF IsSeq
  <1>13. TypedProgram(q)
    BY <1>6, <1>10, <1>11, <1>12 DEF TypedProgram, IDOf
  <1>14. NamedCode(q) /\ NamedSymbols(q) /\ OnePlace(q)
    BY <1>6, <1>10, <1>11 DEF NamedCode, NamedSymbols, OnePlace, IDOf
  <1>15. QED BY <1>13, <1>14 DEF GoodLabels, q

-----------------------------------------------------------------------------
(* Code that is generated *)

LEMMA CodeKeeps ==
  ASSUME NEW p, GoodLabels(p), NEW o, NEW a, NEW b, NEW c, NEW l
  PROVE  /\ Keeps(p, genRFormatInstruction(p, o, a, b, c))
         /\ Keeps(p, genIFormatInstruction(p, o, a, b, c))
         /\ Keeps(p, genBFormatInstruction(p, o, a, b, l))
         /\ Keeps(p, genJ(p, l))
         /\ Keeps(p, genLI(p, a, b))
         /\ Keeps(p, genLA(p, a, l))
         /\ Keeps(p, genLW(p, a, b))
         /\ Keeps(p, genSW(p, a, b))
         /\ Keeps(p, genExit0Syscall(p))
         /\ Keeps(p, genReadIntSyscall(p, a))
         /\ Keeps(p, genPrintIntSyscall(p, a))
         /\ Keeps(p, genPrintCharSyscall(p, a))
  <1>1. ASSUME NEW opcode, NEW rd, NEW rs1, NEW rs2, NEW imm
        PROVE  /\ Keeps(p, addInstruction(p, Gen(opcode, rd, rs1, rs2, imm)))
               /\ Keeps(p, addInstruction(p, [Gen(opcode, rd, rs1, rs2, imm) EXCEPT !.addressParam = l]))
    <2>1. /\ "label" \in DOMAIN Gen(opcode, rd, rs1, rs2, imm)
          /\ "label" \in DOMAIN [Gen(opcode, rd, rs1, rs2, imm) EXCEPT !.addressParam = l]
      BY DEF Gen
    <2>2. QED BY <2>1, AddKeeps
  <1>2. QED
    BY <1>1 DEF genRFormatInstruction, genIFormatInstruction, genBFormatInstruction, genJ, genLI, genLA,
                genLW, genSW, genExit0Syscall, genReadIntSyscall, genPrintIntSyscall, genPrintCharSyscall

LEMMA GoodThen ==
  ASSUME NEW p, NEW q, NEW a, KeepsBut(p, q, a)
  PROVE  GoodLabels(q)
  BY DEF KeepsBut

LEMMA KeepsItself ==
  ASSUME NEW p, GoodLabels(p)
  PROVE  Keeps(p, p)
  BY DEF Keeps, KeepsBut

LEMMA KeepsThen ==
  ASSUME NEW p, NEW q, NEW r, Keeps(p, q), Keeps(q, r)
  PROVE  Keeps(p, r)
  BY KeepsTwice DEF Keeps

LEMMA VariableKeeps ==
  ASSUME NEW p, GoodLabels(p), NEW v, NEW reg
  PROVE  /\ Keeps(p, genLoadVariable(p, v))
         /\ Keeps(p, genStoreRegisterToVariable(p, v, reg))
  <1> DEFINE r == NewRegister(p)
             b(n) == getNewRegister(p, n)
             q(n) == genLA(b(n), r, v.label)
  <1>1. ASSUME NEW n PROVE Keeps(p, q(n)) /\ GoodLabels(q(n))
    <2>1. Keeps(p, b(n)) /\ GoodLabels(b(n))
      BY RegisterKeeps DEF Keeps, KeepsBut
    <2> HIDE DEF b
    <2>2. Keeps(b(n), q(n))
      BY <2>1, CodeKeeps
    <2>3. QED BY <2>1, <2>2, KeepsThen, GoodThen DEF Keeps
  <1> HIDE DEF q
  <1>2. Keeps(q(2), genLW(q(2), r + 1, r)) /\ Keeps(q(1), genSW(q(1), reg, r))
    BY <1>1, CodeKeeps
  <1>3. Keeps(p, genLW(q(2), r + 1, r)) /\ Keeps(p, genSW(q(1), reg, r))
    BY <1>1, <1>2, KeepsThen
  <1>4. QED BY <1>3, KeepsItself DEF genLoadVariable, genStoreRegisterToVariable, q

LEMMA ArrayKeeps ==
  ASSUME NEW p, GoodLabels(p), NEW v, NEW idx, NEW reg
  PROVE  /\ Keeps(p, genLoadArrayElement(p, v, idx))
         /\ Keeps(p, genStoreRegisterToArrayElement(p, v, idx, reg))
  <1> DEFINE r == NewRegister(p)
             b == getNewRegister(p, 2)
             q == genLA(b, r, v.label)
             t == genIFormatInstruction(q, "MULI", r + 1, idx, WordBytes)
             u == genLoadArrayAddress(p, v, idx)
  <1>1. Keeps(p, b) /\ GoodLabels(b)
    BY RegisterKeeps DEF Keeps, KeepsBut
  <1>2. Keeps(p, q) /\ GoodLabels(q)
    <2> HIDE DEF b
    <2>1. Keeps(b, q)
      BY <1>1, CodeKeeps
    <2>2. QED BY <1>1, <2>1, KeepsThen, GoodThen DEF Keeps
  <1>3. Keeps(p, t) /\ GoodLabels(t)
    <2> HIDE DEF q
    <2>1. Keeps(q, t)
      BY <1>2, CodeKeeps
    <2>2. QED BY <1>2, <2>1, KeepsThen, GoodThen DEF Keeps
  <1>4. Keeps(p, u) /\ GoodLabels(u)
    <2> DEFINE w == genRFormatInstruction(t, "ADD", r, r, r + 1)
    <2>1. Keeps(p, w)
      <3> HIDE DEF t
      <3>1. QED BY <1>3, CodeKeeps, KeepsThen
    <2>2. u = p \/ u = w
      BY DEF genLoadArrayAddress
    <2> HIDE DEF u, w
    <2>3. QED BY <2>1, <2>2, KeepsItself, GoodThen DEF Keeps
  <1> HIDE DEF u
  <1>5. Keeps(p, getNewRegister(u, 1)) /\ GoodLabels(getNewRegister(u, 1))
    BY <1>4, RegisterKeeps, KeepsThen DEF Keeps, KeepsBut
  <1>6. Keeps(p, genLW(getNewRegister(u, 1), NewRegister(u), ArrayAddress(p, v)))
    BY <1>5, CodeKeeps, KeepsThen
  <1>7. Keeps(p, genSW(u, reg, ArrayAddress(p, v)))
    BY <1>4, CodeKeeps, KeepsThen
  <1>8. QED BY <1>6, <1>7 DEF genLoadArrayElement, genStoreRegisterToArrayElement, u

LEMMA EpilogKeeps ==
  ASSUME NEW p, GoodLabels(p)
  PROVE  Keeps(p, genEpilog(p))
  BY CodeKeeps, KeepsItself DEF genEpilog, genExit0Syscall

-----------------------------------------------------------------------------
(* The statements around a place of a grammatical source *)

NatLess == {ss \in Nat \X Nat : ss[1] < ss[2]}

LEMMA NatLessWellFounded == IsWellFoundedOn(NatLess, Nat)
  <1>1. OpToRel(<, Nat) = NatLess
    BY Zenon DEF OpToRel, NatLess
  <1> HIDE DEF OpToRel, NatLess
  <1>2. QED BY <1>1, NatLessThanWellFounded, Zenon

\* A set that holds 0 and with each natural the next one holds them all.
LEMMA InductiveSet ==
  ASSUME NEW Q, 0 \in Q, \A n \in Nat : n \in Q => n + 1 \in Q
  PROVE  \A n \in Nat : n \in Q
  <1> DEFINE T == Nat \ Q
  <1> SUFFICES ASSUME T # {} PROVE FALSE
    OBVIOUS
  <1>1. T \in SUBSET Nat
    OBVIOUS
  <1>2. PICK z \in T : \A y \in T : ~ (<<y, z>> \in NatLess)
    <2> HIDE DEF T, NatLess
    <2>1. QED BY <1>1, NatLessWellFounded, WFMin, Zenon
  <1>3. z - 1 \in Nat /\ <<z - 1, z>> \in NatLess
    BY DEF NatLess
  <1>4. z - 1 \in Q
    BY <1>2, <1>3
  <1>5. QED BY <1>3, <1>4

\* f[n] is the result of the steps G[1], ..., G[n] from a.
Iterates(f, a, G, N) == f = [n \in 0..N |-> IF n = 0 THEN a ELSE G[n][f[n - 1]]]

LEMMA IterationExists ==
  ASSUME NEW X, NEW a \in X, NEW N \in Nat, NEW G \in [1..N -> [X -> X]]
  PROVE  \E f \in [0..N -> X] : Iterates(f, a, G, N)
  <1> DEFINE Up(f, n) == f = [i \in 0..n |-> IF i = 0 THEN a ELSE G[i][f[i - 1]]]
             Q == {n \in Nat : n <= N => \E f \in [0..n -> X] : Up(f, n)}
  <1>1. 0 \in Q
    <2> DEFINE f == [i \in 0..0 |-> a]
    <2>1. f \in [0..0 -> X] /\ Up(f, 0)
      OBVIOUS
    <2>2. QED BY <2>1
  <1>2. ASSUME NEW n \in Nat, n \in Q
        PROVE  n + 1 \in Q
    <2> SUFFICES ASSUME n + 1 <= N PROVE \E g \in [0..(n + 1) -> X] : Up(g, n + 1)
      OBVIOUS
    <2>1. PICK f \in [0..n -> X] : Up(f, n)
      BY <1>2
    <2> DEFINE g == [i \in 0..(n + 1) |-> IF i = n + 1 THEN G[n + 1][f[n]] ELSE f[i]]
    <2>2. G[n + 1][f[n]] \in X
      BY <2>1
    <2>3. g \in [0..(n + 1) -> X]
      BY <2>1, <2>2
    <2>4. \A i \in 0..n : g[i] = f[i] /\ f[i] = IF i = 0 THEN a ELSE G[i][f[i - 1]]
      BY <2>1
    <2>5. \A i \in 0..(n + 1) : g[i] = IF i = 0 THEN a ELSE G[i][g[i - 1]]
      <3>1. g[n + 1] = G[n + 1][f[n]] /\ g[n] = f[n] /\ (n + 1) - 1 = n /\ n + 1 # 0
        BY <2>4
      <3> HIDE DEF g
      <3>2. \A i \in 1..n : i - 1 \in 0..n /\ i \in 0..n /\ i # 0
        OBVIOUS
      <3>3. \A i \in 1..n : g[i] = G[i][g[i - 1]]
        BY <2>4, <3>2
      <3>4. g[0] = a
        BY <2>4
      <3>5. \A i \in 0..(n + 1) : i = 0 \/ i \in 1..n \/ i = n + 1
        OBVIOUS
      <3>6. QED BY <3>1, <3>3, <3>4, <3>5
    <2>6. Up(g, n + 1)
      BY <2>5
    <2>7. QED BY <2>3, <2>6
  <1> HIDE DEF Q
  <1>3. \A n \in Nat : n \in Q
    BY <1>1, <1>2, InductiveSet
  <1>4. N \in Q
    BY <1>3
  <1>5. QED BY <1>4 DEF Q, Iterates

Parts == {"then", "else", "condition", "body", "repeated"}

LEMMA Fronts ==
  ASSUME NEW T, NEW q \in Seq(T)
  PROVE  /\ Front(q) \in Seq(T)
         /\ q # <<>> => /\ Len(q) \in Nat \ {0} /\ DOMAIN q = 1..Len(q)
                        /\ Len(Front(q)) = Len(q) - 1 /\ DOMAIN Front(q) = 1..(Len(q) - 1)
                        /\ \A k \in 1..(Len(q) - 1) : Front(q)[k] = q[k]
                        /\ Last(q) = q[Len(q)] /\ Last(q) \in T
  <1> DEFINE n == Len(q) - 1
             r == SubSeq(q, 1, n)
  <1>1. Len(q) \in Nat /\ DOMAIN q = 1..Len(q) /\ (\A i \in 1..Len(q) : q[i] \in T) /\ (q # <<>> => Len(q) # 0)
    BY EmptySeq
  <1>2. n \in Int /\ \A i \in 1..n : q[i] \in T
    BY <1>1
  <1>3. r \in Seq(T) /\ Len(r) = (IF 1 <= n THEN n - 1 + 1 ELSE 0) /\ \A i \in 1..(n - 1 + 1) : r[i] = q[1 + i - 1]
    <2> HIDE DEF n
    <2>1. QED BY <1>2, SubSeqProperties
  <1>4. Front(q) = r
    BY DEF Front
  <1> HIDE DEF r
  <1>5. Front(q) \in Seq(T)
    BY <1>3, <1>4
  <1>6. ASSUME q # <<>>
        PROVE  /\ Len(q) \in Nat \ {0} /\ DOMAIN q = 1..Len(q)
               /\ Len(Front(q)) = Len(q) - 1 /\ DOMAIN Front(q) = 1..(Len(q) - 1)
               /\ \A k \in 1..(Len(q) - 1) : Front(q)[k] = q[k]
               /\ Last(q) = q[Len(q)] /\ Last(q) \in T
    <2>1. Len(r) = n
      <3>0. n \in Nat
        BY <1>1, <1>6
      <3> HIDE DEF n, r
      <3>1. QED BY <3>0, <1>3
    <2>2. DOMAIN r = 1..n
      BY <1>3, <2>1
    <2>3. \A k \in 1..n : r[k] = q[k]
      <3> HIDE DEF n, r
      <3>1. \A k \in 1..n : k \in 1..(n - 1 + 1) /\ 1 + k - 1 = k
        BY <1>2
      <3>2. QED BY <3>1, <1>3
    <2>4. QED BY <1>1, <1>4, <1>6, <2>1, <2>2, <2>3 DEF Last
  <1>7. QED BY <1>5, <1>6

LEMMA GoesOnInParts ==
  ASSUME NEW around \in Seq(Parts), NEW action
  PROVE  Goes(around, action) \in Seq(Parts)
  <1>1. Front(around) \in Seq(Parts)
    BY Fronts
  <1>2. "then" \in Parts /\ "else" \in Parts /\ "condition" \in Parts /\ "body" \in Parts /\ "repeated" \in Parts
    BY DEF Parts
  <1>3. /\ Append(around, "then") \in Seq(Parts) /\ Append(around, "condition") \in Seq(Parts)
        /\ Append(around, "repeated") \in Seq(Parts)
        /\ Append(Front(around), "else") \in Seq(Parts) /\ Append(Front(around), "body") \in Seq(Parts)
    BY <1>1, <1>2, AppendProperties
  <1>4. QED BY <1>1, <1>3 DEF Goes

LEMMA SurroundingsGo ==
  ASSUME NEW text, IsSeq(text)
  PROVE  /\ Len(text) \in Nat /\ DOMAIN text = 1..Len(text)
         /\ Surroundings(text)[0] = <<>>
         /\ \A n \in 0..Len(text) : Surroundings(text)[n] \in Seq(Parts)
         /\ \A n \in 1..Len(text) : Surroundings(text)[n] = Goes(Surroundings(text)[n - 1], text[n][1])
  <1> DEFINE N == Len(text)
             All == Seq(Parts)
             G == [n \in 1..N |-> [s \in All |-> Goes(s, text[n][1])]]
             Around(f) == f = [n \in 0..N |-> IF n = 0 THEN <<>> ELSE Goes(f[n - 1], text[n][1])]
             none == <<>>
  <1>1. N \in Nat /\ DOMAIN text = 1..N
    BY SequenceOfItsElements DEF IsSeq
  <1>2. none \in All
    OBVIOUS
  <1>3. G \in [1..N -> [All -> All]] /\ \A n \in 1..N : \A s \in All : G[n][s] = Goes(s, text[n][1])
    <2> HIDE DEF N
    <2>1. QED BY GoesOnInParts
  <1>4. \E f \in [0..N -> All] : Around(f)
    <2> HIDE DEF G, N, All, none
    <2>1. PICK f \in [0..N -> All] : Iterates(f, none, G, N)
      BY <1>1, <1>2, <1>3, IterationExists, Zenon
    <2>2. \A n \in 0..N : f[n] = IF n = 0 THEN none ELSE G[n][f[n - 1]]
      BY <2>1 DEF Iterates
    <2>3. \A n \in 1..N : n - 1 \in 0..N /\ n \in 0..N /\ n # 0
      BY <1>1
    <2>4. \A n \in 0..N : n = 0 \/ n \in 1..N
      BY <1>1
    <2>5. \A n \in 1..N : f[n] = Goes(f[n - 1], text[n][1])
      BY <2>1, <2>2, <2>3, <1>3
    <2>6. \A n \in 0..N : f[n] = IF n = 0 THEN <<>> ELSE Goes(f[n - 1], text[n][1])
      BY <1>1, <2>2, <2>4, <2>5 DEF none
    <2>7. Around(f)
      BY <2>1, <2>6
    <2>8. QED BY <2>1, <2>7
  <1>5. Around(Surroundings(text))
    BY <1>4 DEF Surroundings
  <1>6. \A f : Around(f) => \A n \in 0..N : f[n] = IF n = 0 THEN <<>> ELSE Goes(f[n - 1], text[n][1])
    OBVIOUS
  <1>7. QED
    <2> DEFINE f == Surroundings(text)
    <2>1. \A n \in 0..N : f[n] = IF n = 0 THEN <<>> ELSE Goes(f[n - 1], text[n][1])
      BY <1>5, <1>6
    <2> HIDE DEF f, N
    <2>2. f[0] = <<>> /\ \A n \in 1..N : f[n] = Goes(f[n - 1], text[n][1])
      <3>1. \A n \in 1..N : n \in 0..N /\ n # 0
        BY <1>1
      <3>2. 0 \in 0..N
        BY <1>1
      <3>3. QED BY <2>1, <3>1, <3>2
    <2>3. \A n \in 0..N : f[n] \in Seq(Parts)
      <3> DEFINE Q == {n \in Nat : n <= N => f[n] \in All}
      <3>1. 0 \in Q
        BY <2>2, <1>2
      <3>2. ASSUME NEW n \in Nat, n \in Q PROVE n + 1 \in Q
        <4> SUFFICES ASSUME n + 1 <= N PROVE f[n + 1] \in All
          OBVIOUS
        <4>1. f[n] \in All
          BY <3>2, <1>1
        <4>2. n + 1 \in 1..N /\ (n + 1) - 1 = n
          BY <1>1
        <4>3. f[n + 1] = Goes(f[n], text[n + 1][1])
          BY <2>2, <4>2
        <4>4. QED BY <4>1, <4>3, GoesOnInParts
      <3> HIDE DEF Q
      <3>3. \A n \in Nat : n \in Q
        BY <3>1, <3>2, InductiveSet
      <3>4. QED BY <3>3, <1>1 DEF Q
    <2>4. QED BY <1>1, <2>2, <2>3 DEF f, N

-----------------------------------------------------------------------------
(* Statements that are open *)

Frames == [lElse : Nat, lExit : Nat] \union [lLoop : Nat, lExit : Nat]

\* The label that a part of a statement ends with
Awaited(part, frame) ==
  (IF part = "then" THEN {frame.lElse} ELSE {}) \union (IF part \in {"else", "body"} THEN {frame.lExit} ELSE {})

\* The labels that open statements end with are different ones, and on nothing yet.
AwaitedApart(p, around, frames) ==
  /\ around \in Seq(Parts) /\ frames \in Seq(Frames)
  /\ Len(frames) = Len(around)
  /\ \A d \in 1..Len(frames) : around[d] = "then" => "lElse" \in DOMAIN frames[d]
  /\ \A d \in 1..Len(frames) : \A k \in Awaited(around[d], frames[d]) : Unassigned(p, k)
  /\ \A d, e \in 1..Len(frames) :
       d # e => Awaited(around[d], frames[d]) \intersect Awaited(around[e], frames[e]) = {}

StatementsOpen ==
  /\ IsSeq(source) /\ Grammatical(source)
  /\ mark \in 1..(Len(source) + 1)
  /\ AwaitedApart(program, Surroundings(source)[mark - 1], open)

CompilerInvariant == GoodLabels(program) /\ (phase = "compile" => StatementsOpen)

AnyAwaits(around, frames, a) == \E d \in 1..Len(frames) : a \in Awaited(around[d], frames[d])

LEMMA StillApart ==
  ASSUME NEW p, NEW q, NEW a, KeepsBut(p, q, a), NEW around, NEW frames, AwaitedApart(p, around, frames),
         ~AnyAwaits(around, frames, a)
  PROVE  AwaitedApart(q, around, frames)
  <1>1. \A d \in 1..Len(frames) : \A k \in Awaited(around[d], frames[d]) : k # a /\ Unassigned(p, k)
    BY DEF AwaitedApart, AnyAwaits
  <1>2. \A d \in 1..Len(frames) : \A k \in Awaited(around[d], frames[d]) : Unassigned(q, k)
    BY <1>1 DEF KeepsBut
  <1>3. QED BY <1>2 DEF AwaitedApart

LEMMA NewIsNotAwaited ==
  ASSUME NEW p, NEW around, NEW frames, AwaitedApart(p, around, frames), NEW a, a \notin DOMAIN p.labels
  PROVE  ~AnyAwaits(around, frames, a)
  BY DEF AwaitedApart, AnyAwaits, Unassigned

LEMMA KeptApart ==
  ASSUME NEW p, GoodLabels(p), NEW q, Keeps(p, q), NEW around, NEW frames, AwaitedApart(p, around, frames)
  PROVE  AwaitedApart(q, around, frames)
  <1>1. 0 \notin DOMAIN p.labels
    BY SequenceOfItsElements DEF GoodLabels, TypedProgram, IsSeq
  <1>2. ~AnyAwaits(around, frames, 0)
    BY <1>1, NewIsNotAwaited
  <1>3. QED BY <1>2, StillApart DEF Keeps

LEMMA Left ==
  ASSUME NEW p, NEW around, NEW frames, AwaitedApart(p, around, frames), around # <<>>
  PROVE  /\ AwaitedApart(p, Front(around), Front(frames))
         /\ frames # <<>> /\ Last(frames) \in Frames
         /\ Last(around) = "then" => "lElse" \in DOMAIN Last(frames)
         /\ \A k \in Awaited(Last(around), Last(frames)) :
              Unassigned(p, k) /\ ~AnyAwaits(Front(around), Front(frames), k)
  <1> DEFINE n == Len(around)
             m == n - 1
             f == Front(frames)
             r == Front(around)
  <1>1. around \in Seq(Parts) /\ frames \in Seq(Frames) /\ Len(frames) = n /\ n \in Nat \ {0} /\ frames # <<>>
    BY Fronts DEF AwaitedApart
  <1>2. /\ r \in Seq(Parts) /\ Len(r) = m /\ (\A k \in 1..m : r[k] = around[k]) /\ Last(around) = around[n]
        /\ f \in Seq(Frames) /\ Len(f) = m /\ (\A k \in 1..m : f[k] = frames[k]) /\ Last(frames) = frames[n]
        /\ Last(frames) \in Frames
    BY <1>1, Fronts
  <1>3. m \in Nat /\ n \in 1..n /\ n \notin 1..m /\ 1..m \subseteq 1..n
    <2> HIDE DEF n
    <2>1. QED BY <1>1
  <1>4. /\ \A d \in 1..n : around[d] = "then" => "lElse" \in DOMAIN frames[d]
        /\ \A d \in 1..n : \A k \in Awaited(around[d], frames[d]) : Unassigned(p, k)
        /\ \A d, e \in 1..n :
             d # e => Awaited(around[d], frames[d]) \intersect Awaited(around[e], frames[e]) = {}
    BY <1>1 DEF AwaitedApart
  <1> HIDE DEF n, m, f, r
  <1>5. AwaitedApart(p, r, f)
    BY <1>2, <1>3, <1>4 DEF AwaitedApart
  <1>6. Last(around) = "then" => "lElse" \in DOMAIN Last(frames)
    BY <1>2, <1>3, <1>4
  <1>7. ASSUME NEW k \in Awaited(Last(around), Last(frames))
        PROVE  Unassigned(p, k) /\ ~AnyAwaits(r, f, k)
    <2>1. k \in Awaited(around[n], frames[n])
      BY <1>2
    <2>2. Unassigned(p, k)
      BY <2>1, <1>3, <1>4
    <2>3. \A d \in 1..m : k \notin Awaited(r[d], f[d])
      BY <2>1, <1>2, <1>3, <1>4
    <2>4. QED BY <2>2, <2>3, <1>2 DEF AnyAwaits
  <1>8. QED BY <1>1, <1>2, <1>5, <1>6, <1>7 DEF r, f

LEMMA Entered ==
  ASSUME NEW p, NEW around, NEW frames, AwaitedApart(p, around, frames),
         NEW part \in Parts, NEW frame \in Frames, part = "then" => "lElse" \in DOMAIN frame,
         \A k \in Awaited(part, frame) : Unassigned(p, k) /\ ~AnyAwaits(around, frames, k)
  PROVE  AwaitedApart(p, Append(around, part), Append(frames, frame))
  <1> DEFINE n == Len(around)
             f == Append(frames, frame)
             r == Append(around, part)
  <1>1. around \in Seq(Parts) /\ frames \in Seq(Frames) /\ Len(frames) = n /\ n \in Nat
    BY DEF AwaitedApart
  <1>2. /\ r \in Seq(Parts) /\ Len(r) = n + 1 /\ (\A k \in 1..n : r[k] = around[k]) /\ r[n + 1] = part
        /\ f \in Seq(Frames) /\ Len(f) = n + 1 /\ (\A k \in 1..n : f[k] = frames[k]) /\ f[n + 1] = frame
    BY <1>1, AppendProperties
  <1>3. \A d \in 1..(n + 1) : d = n + 1 \/ d \in 1..n
    BY <1>1
  <1>4. /\ \A d \in 1..n : around[d] = "then" => "lElse" \in DOMAIN frames[d]
        /\ \A d \in 1..n : \A k \in Awaited(around[d], frames[d]) : Unassigned(p, k)
        /\ \A d, e \in 1..n :
             d # e => Awaited(around[d], frames[d]) \intersect Awaited(around[e], frames[e]) = {}
    BY <1>1 DEF AwaitedApart
  <1>5. \A d \in 1..n : \A k \in Awaited(part, frame) : k \notin Awaited(around[d], frames[d])
    BY <1>1 DEF AnyAwaits
  <1> HIDE DEF n, f, r
  <1>6. \A d \in 1..(n + 1) : r[d] = "then" => "lElse" \in DOMAIN f[d]
    BY <1>2, <1>3, <1>4
  <1>7. \A d \in 1..(n + 1) : \A k \in Awaited(r[d], f[d]) : Unassigned(p, k)
    BY <1>2, <1>3, <1>4
  <1>8. ASSUME NEW d \in 1..(n + 1), NEW e \in 1..(n + 1), d # e
        PROVE  Awaited(r[d], f[d]) \intersect Awaited(r[e], f[e]) = {}
    BY <1>2, <1>3, <1>4, <1>5, <1>8
  <1>9. AwaitedApart(p, r, f)
    BY <1>2, <1>6, <1>7, <1>8 DEF AwaitedApart
  <1>10. QED BY <1>9 DEF r, f

-----------------------------------------------------------------------------
(* Steps of the compiler *)

Around == Surroundings(source)[mark - 1]

LEMMA OneMore ==
  ASSUME CompilerInvariant, phase = "compile", mark <= Len(source), NextMark, GoodLabels(program'),
         AwaitedApart(program', Goes(Around, source[mark][1]), open')
  PROVE  CompilerInvariant'
  <1>1. /\ IsSeq(source) /\ Grammatical(source) /\ mark \in 1..(Len(source) + 1)
        /\ mark' = mark + 1 /\ source' = source
    BY DEF CompilerInvariant, StatementsOpen, NextMark
  <1>2. Len(source) \in Nat
    BY <1>1, SurroundingsGo
  <1>3. mark \in 1..Len(source) /\ mark + 1 \in 1..(Len(source) + 1) /\ (mark + 1) - 1 = mark
    BY <1>1, <1>2
  <1>4. Surroundings(source)[mark] = Goes(Around, source[mark][1])
    BY <1>1, <1>3, SurroundingsGo DEF Around
  <1>5. AwaitedApart(program', Surroundings(source)[mark' - 1], open')
    BY <1>1, <1>3, <1>4
  <1>6. QED BY <1>1, <1>3, <1>5 DEF CompilerInvariant, StatementsOpen

\* The place before the next action
LEMMA Here ==
  ASSUME CompilerInvariant, phase = "compile", mark <= Len(source)
  PROVE  /\ GoodLabels(program) /\ AwaitedApart(program, Around, open)
         /\ \A action \in DOMAIN Ends : source[mark][1] = action => Around # <<>> /\ Last(Around) = Ends[action]
  <1>1. /\ IsSeq(source) /\ Grammatical(source) /\ mark \in 1..(Len(source) + 1)
        /\ GoodLabels(program) /\ AwaitedApart(program, Around, open)
    BY DEF CompilerInvariant, StatementsOpen, Around
  <1>2. mark \in DOMAIN source
    <2>1. Len(source) \in Nat /\ DOMAIN source = 1..Len(source)
      BY <1>1, SurroundingsGo
    <2>2. QED BY <1>1, <2>1
  <1>3. QED BY <1>1, <1>2 DEF Grammatical, Around

LEMMA PlainStep ==
  ASSUME CompilerInvariant, phase = "compile", mark <= Len(source), NextMark, UNCHANGED open,
         GoodLabels(program) => Keeps(program, program'), Goes(Around, source[mark][1]) = Around
  PROVE  CompilerInvariant'
  <1>1. GoodLabels(program) /\ AwaitedApart(program, Around, open)
    BY Here
  <1>2. GoodLabels(program') /\ AwaitedApart(program', Around, open)
    BY <1>1, KeptApart DEF Keeps, KeepsBut
  <1>3. QED BY <1>2, OneMore

LEMMA DeclareStep == CompilerInvariant /\ Declare => CompilerInvariant'
  <1> SUFFICES ASSUME CompilerInvariant, Declare PROVE CompilerInvariant'
    OBVIOUS
  <1>1. /\ phase = "compile" /\ mark <= Len(source) /\ NextMark /\ UNCHANGED open /\ source[mark][1] = "declare"
        /\ GoodLabels(program) => Keeps(program, program')
    BY SymbolKeeps DEF Declare, At
  <1>2. Goes(Around, source[mark][1]) = Around
    BY <1>1 DEF Goes
  <1>3. QED BY <1>1, <1>2, PlainStep

LEMMA ExpressionStep ==
  CompilerInvariant /\ (Number \/ Variable \/ Element \/ Unary \/ Binary \/ Logical) => CompilerInvariant'
  <1> DEFINE plain == {"number", "load", "element", "minus", "not", "binary", "logical"}
  <1>0. ASSUME NEW action \in plain PROVE Goes(Around, action) = Around
    BY <1>0 DEF Goes
  <1> SUFFICES ASSUME CompilerInvariant, Number \/ Variable \/ Element \/ Unary \/ Binary \/ Logical
               PROVE  CompilerInvariant'
    OBVIOUS
  <1>1. /\ phase = "compile" /\ mark <= Len(source) /\ NextMark /\ UNCHANGED open
        /\ source[mark][1] \in plain
    BY DEF Number, Variable, Element, Unary, Binary, Logical, At, Uses
  <1>2. ASSUME GoodLabels(program) PROVE Keeps(program, program')
    <2> DEFINE b(n) == getNewRegister(program, n)
    <2>1. ASSUME NEW n PROVE Keeps(program, b(n)) /\ GoodLabels(b(n))
      BY <1>2, RegisterKeeps DEF Keeps, KeepsBut
    <2>2. CASE Number
      <3>1. Keeps(Taken1, program')
        BY <2>1, <2>2, CodeKeeps DEF Number, Taken1
      <3>2. QED BY <2>1, <3>1, KeepsThen DEF Taken1
    <2>3. CASE Variable
      BY <1>2, <2>3, VariableKeeps DEF Variable
    <2>4. CASE Element
      BY <1>2, <2>4, ArrayKeeps DEF Element
    <2>5. CASE Unary
      <3>1. Keeps(Taken1, program')
        BY <2>1, <2>5, CodeKeeps DEF Unary, Taken1
      <3>2. QED BY <2>1, <3>1, KeepsThen DEF Taken1
    <2>6. CASE Binary
      <3>1. Keeps(Taken1, program')
        BY <2>1, <2>6, CodeKeeps DEF Binary, Taken1
      <3>2. QED BY <2>1, <3>1, KeepsThen DEF Taken1
    <2>7. CASE Logical
      <3> DEFINE first  == genRFormatInstruction(b(3), "SNE", Result1, Below, REG_0)
                 second == genRFormatInstruction(first, "SNE", Result1 + 1, Top, REG_0)
      <3>1. program' = genRFormatInstruction(second, source[mark][2], Result1 + 2, Result1, Result1 + 1)
        BY <2>7 DEF Logical
      <3> HIDE DEF b
      <3>2. Keeps(b(3), first)
        BY <2>1, CodeKeeps
      <3> HIDE DEF first
      <3>21. GoodLabels(first)
        BY <3>2, GoodThen DEF Keeps
      <3>3. Keeps(first, second)
        BY <3>21, CodeKeeps
      <3> HIDE DEF second
      <3>31. GoodLabels(second)
        BY <3>3, GoodThen DEF Keeps
      <3>4. Keeps(second, program')
        BY <3>1, <3>31, CodeKeeps
      <3>5. Keeps(program, second)
        BY <2>1, <3>2, <3>3, KeepsThen
      <3>6. QED BY <3>4, <3>5, KeepsThen
    <2>8. QED BY <2>2, <2>3, <2>4, <2>5, <2>6, <2>7
  <1>3. Goes(Around, source[mark][1]) = Around
    BY <1>0, <1>1
  <1>4. QED BY <1>1, <1>2, <1>3, PlainStep

LEMMA SimpleStep ==
  CompilerInvariant /\ (Assign \/ AssignElement \/ Return \/ Read \/ WriteOut) => CompilerInvariant'
  <1> DEFINE plain == {"assign", "assignElement", "return", "read", "write"}
  <1>0. ASSUME NEW action \in plain PROVE Goes(Around, action) = Around
    BY <1>0 DEF Goes
  <1> SUFFICES ASSUME CompilerInvariant, Assign \/ AssignElement \/ Return \/ Read \/ WriteOut
               PROVE  CompilerInvariant'
    OBVIOUS
  <1>1. /\ phase = "compile" /\ mark <= Len(source) /\ NextMark /\ UNCHANGED open
        /\ source[mark][1] \in plain
    BY DEF Assign, AssignElement, Return, Read, WriteOut, At, Uses
  <1>2. ASSUME GoodLabels(program) PROVE Keeps(program, program')
    <2>1. CASE Assign
      BY <1>2, <2>1, VariableKeeps DEF Assign
    <2>2. CASE AssignElement
      BY <1>2, <2>2, ArrayKeeps DEF AssignElement
    <2>3. CASE Return
      BY <1>2, <2>3, CodeKeeps DEF Return
    <2>4. CASE Read
      <3> DEFINE b == Taken1
                 q == genReadIntSyscall(b, Result1)
      <3>1. Keeps(program, b) /\ GoodLabels(b)
        BY <1>2, RegisterKeeps DEF Taken1, Keeps, KeepsBut
      <3>2. Keeps(b, q) /\ GoodLabels(q)
        BY <3>1, CodeKeeps DEF Keeps, KeepsBut
      <3>3. Keeps(q, program')
        BY <2>4, <3>2, VariableKeeps DEF Read
      <3> HIDE DEF b, q
      <3>4. QED BY <3>1, <3>2, <3>3, KeepsThen
    <2>5. CASE WriteOut
      <3> DEFINE q == genPrintIntSyscall(program, Top)
                 b == getNewRegister(q, 1)
                 t == genLI(b, NewRegister(q), NewLine)
      <3>1. program' = genPrintCharSyscall(t, NewRegister(q))
        BY <2>5 DEF WriteOut
      <3>2. Keeps(program, q) /\ GoodLabels(q)
        BY <1>2, CodeKeeps DEF Keeps, KeepsBut
      <3> HIDE DEF q
      <3>3. Keeps(q, b) /\ GoodLabels(b)
        BY <3>2, RegisterKeeps DEF Keeps, KeepsBut
      <3> HIDE DEF b
      <3>4. Keeps(b, t)
        BY <3>3, CodeKeeps
      <3> HIDE DEF t
      <3>41. GoodLabels(t)
        BY <3>4, GoodThen DEF Keeps
      <3>5. Keeps(t, program')
        BY <3>1, <3>41, CodeKeeps
      <3>6. Keeps(program, t)
        BY <3>2, <3>3, <3>4, KeepsThen
      <3>7. QED BY <3>5, <3>6, KeepsThen
    <2>6. QED BY <2>1, <2>2, <2>3, <2>4, <2>5
  <1>3. Goes(Around, source[mark][1]) = Around
    BY <1>0, <1>1
  <1>4. QED BY <1>1, <1>2, <1>3, PlainStep

\* Code of one more instruction, after which the labels are as they were
LEMMA CodeThen ==
  ASSUME NEW p, NEW q, NEW a, KeepsBut(p, q, a), NEW o, NEW b, NEW l
  PROVE  /\ KeepsBut(p, genBFormatInstruction(q, o, b, REG_0, l), a)
         /\ KeepsBut(p, genJ(q, l), a)
  <1>1. GoodLabels(q)
    BY GoodThen
  <1>2. Keeps(q, genBFormatInstruction(q, o, b, REG_0, l)) /\ Keeps(q, genJ(q, l))
    BY <1>1, CodeKeeps
  <1>3. QED BY <1>2, KeepsTwice

LEMMA PartsOfFrames ==
  /\ "then" \in Parts /\ "else" \in Parts /\ "condition" \in Parts /\ "body" \in Parts /\ "repeated" \in Parts
  /\ \A a \in Nat : /\ [lElse |-> a, lExit |-> 0] \in Frames /\ [lLoop |-> a, lExit |-> 0] \in Frames
                    /\ "lElse" \in DOMAIN [lElse |-> a, lExit |-> 0]
                    /\ Awaited("then", [lElse |-> a, lExit |-> 0]) = {a}
  /\ \A k \in Frames : \A a \in Nat : [k EXCEPT !.lExit = a] \in Frames /\ [k EXCEPT !.lExit = a].lExit = a
  /\ \A k : /\ Awaited("then", k) = {k.lElse} /\ Awaited("else", k) = {k.lExit} /\ Awaited("body", k) = {k.lExit}
            /\ Awaited("condition", k) = {} /\ Awaited("repeated", k) = {}
  <1>1. \A k \in Frames : \A a \in Nat : [k EXCEPT !.lExit = a] \in Frames /\ [k EXCEPT !.lExit = a].lExit = a
    BY DEF Frames
  <1>2. QED BY <1>1 DEF Parts, Frames, Awaited

LEMMA CreateLabelStep ==
  ASSUME NEW p, GoodLabels(p)
  PROVE  LET q == createLabel(p)
             a == LastLabel(q)
         IN /\ Keeps(p, q) /\ GoodLabels(q) /\ Unassigned(q, a) /\ a \notin DOMAIN p.labels /\ a \in Nat /\ a # 0
  <1> DEFINE q == createLabel(p)
             a == LastLabel(q)
  <1>1. Keeps(p, q) /\ Unassigned(q, a) /\ a \notin DOMAIN p.labels /\ a \in Nat
    BY CreateKeeps
  <1> HIDE DEF a, q
  <1>2. GoodLabels(q)
    BY <1>1, GoodThen DEF Keeps
  <1>3. 0 \notin DOMAIN q.labels
    BY <1>2, SequenceOfItsElements DEF GoodLabels, TypedProgram, IsSeq
  <1>4. a # 0
    BY <1>1, <1>3 DEF Unassigned
  <1>5. QED BY <1>1, <1>2, <1>4 DEF a, q

LEMMA IfStep == CompilerInvariant /\ If => CompilerInvariant'
  <1> SUFFICES ASSUME CompilerInvariant, If PROVE CompilerInvariant'
    OBVIOUS
  <1> DEFINE q == createLabel(program)
             a == LastLabel(q)
             frame == [lElse |-> a, lExit |-> 0]
  <1>1. /\ phase = "compile" /\ mark <= Len(source) /\ NextMark /\ source[mark][1] = "if"
        /\ program' = genBFormatInstruction(q, "BEQ", Top, REG_0, a)
        /\ open' = Append(open, frame)
    BY DEF If, At
  <1>2. GoodLabels(program) /\ AwaitedApart(program, Around, open)
    BY <1>1, Here
  <1>3. Keeps(program, q) /\ GoodLabels(q) /\ Unassigned(q, a) /\ a \notin DOMAIN program.labels /\ a \in Nat /\ a # 0
    BY <1>2, CreateLabelStep
  <1>4. frame \in Frames /\ "lElse" \in DOMAIN frame /\ Awaited("then", frame) = {a} /\ "then" \in Parts
    BY <1>3, PartsOfFrames
  <1> HIDE DEF q, a, frame
  <1>5. Keeps(q, program') /\ GoodLabels(program')
    <2>1. Keeps(q, program')
      BY <1>1, <1>3, CodeKeeps
    <2>2. QED BY <2>1, GoodThen DEF Keeps
  <1>6. Unassigned(program', a)
    BY <1>3, <1>5 DEF Keeps, KeepsBut
  <1>7. AwaitedApart(program', Around, open)
    BY <1>2, <1>3, <1>5, KeepsThen, KeptApart
  <1>8. ~AnyAwaits(Around, open, a)
    BY <1>2, <1>3, NewIsNotAwaited
  <1>9. AwaitedApart(program', Append(Around, "then"), open')
    BY <1>1, <1>4, <1>6, <1>7, <1>8, Entered
  <1>10. Goes(Around, source[mark][1]) = Append(Around, "then")
    BY <1>1 DEF Goes
  <1>11. QED BY <1>1, <1>5, <1>9, <1>10, OneMore

\* A loop: its label is on what comes next.
LEMMA LoopStep == CompilerInvariant /\ (While \/ Do) => CompilerInvariant'
  <1> SUFFICES ASSUME CompilerInvariant, While \/ Do PROVE CompilerInvariant'
    OBVIOUS
  <1> DEFINE q == createLabel(program)
             a == LastLabel(q)
             frame == [lLoop |-> a, lExit |-> 0]
             part == IF source[mark][1] = "while" THEN "condition" ELSE "repeated"
  <1>1. /\ phase = "compile" /\ mark <= Len(source) /\ NextMark /\ source[mark][1] \in {"while", "do"}
        /\ program' = assignLabel(q, a)
        /\ open' = Append(open, frame)
    BY DEF While, Do, At
  <1>2. GoodLabels(program) /\ AwaitedApart(program, Around, open)
    BY <1>1, Here
  <1>3. Keeps(program, q) /\ GoodLabels(q) /\ Unassigned(q, a) /\ a \notin DOMAIN program.labels /\ a \in Nat /\ a # 0
    BY <1>2, CreateLabelStep
  <1>4. frame \in Frames /\ Awaited(part, frame) = {} /\ part \in Parts /\ part # "then"
    BY <1>3, PartsOfFrames
  <1>5. Goes(Around, source[mark][1]) = Append(Around, part)
    BY <1>1 DEF Goes
  <1> HIDE DEF q, a, frame, part
  <1>6. KeepsBut(q, program', a) /\ GoodLabels(program')
    <2>1. KeepsBut(q, program', a)
      BY <1>1, <1>3, AssignKeeps
    <2>2. QED BY <2>1, GoodThen
  <1>7. AwaitedApart(q, Around, open)
    BY <1>2, <1>3, KeptApart
  <1>8. AwaitedApart(program', Around, open)
    <2>1. ~AnyAwaits(Around, open, a)
      BY <1>2, <1>3, NewIsNotAwaited
    <2>2. QED BY <1>6, <1>7, <2>1, StillApart
  <1>9. AwaitedApart(program', Append(Around, part), open')
    BY <1>1, <1>4, <1>8, Entered
  <1>10. QED BY <1>1, <1>5, <1>6, <1>9, OneMore

LEMMA ConditionStep == CompilerInvariant /\ WhileCondition => CompilerInvariant'
  <1> SUFFICES ASSUME CompilerInvariant, WhileCondition PROVE CompilerInvariant'
    OBVIOUS
  <1> DEFINE q == createLabel(program)
             a == LastLabel(q)
             frame == [Innermost EXCEPT !.lExit = a]
             around == Front(Around)
             frames == Front(open)
  <1>1. /\ phase = "compile" /\ mark <= Len(source) /\ NextMark /\ source[mark][1] = "whileCondition"
        /\ program' = genBFormatInstruction(q, "BEQ", Top, REG_0, a)
        /\ open' = Append(frames, frame)
    BY DEF WhileCondition, At, InnermostBecomes
  <1>2. GoodLabels(program) /\ AwaitedApart(program, Around, open) /\ Around # <<>> /\ Last(Around) = "condition"
    BY <1>1, Here DEF Ends
  <1>3. Keeps(program, q) /\ GoodLabels(q) /\ Unassigned(q, a) /\ a \notin DOMAIN program.labels /\ a \in Nat /\ a # 0
    BY <1>2, CreateLabelStep
  <1>4. AwaitedApart(program, around, frames) /\ Innermost \in Frames
    BY <1>2, Left DEF Innermost
  <1>5. frame \in Frames /\ Awaited("body", frame) = {a} /\ "body" \in Parts
    <2>1. frame \in Frames /\ frame.lExit = a
      <3> DEFINE k == Innermost
      <3>1. k \in Frames /\ a \in Nat
        BY <1>3, <1>4
      <3> HIDE DEF a, k
      <3>2. [k EXCEPT !.lExit = a] \in Frames /\ [k EXCEPT !.lExit = a].lExit = a
        BY <3>1, PartsOfFrames
      <3>3. QED BY <3>2 DEF k
    <2> HIDE DEF frame
    <2>2. QED BY <2>1, PartsOfFrames
  <1>6. Goes(Around, source[mark][1]) = Append(around, "body")
    BY <1>1 DEF Goes
  <1> HIDE DEF q, a, frame, around, frames
  <1>7. Keeps(q, program') /\ GoodLabels(program')
    <2>1. Keeps(q, program')
      BY <1>1, <1>3, CodeKeeps
    <2>2. QED BY <2>1, GoodThen DEF Keeps
  <1>8. Unassigned(program', a)
    BY <1>3, <1>7 DEF Keeps, KeepsBut
  <1>9. AwaitedApart(program', around, frames)
    BY <1>2, <1>3, <1>4, <1>7, KeepsThen, KeptApart
  <1>10. ~AnyAwaits(around, frames, a)
    BY <1>3, <1>4, NewIsNotAwaited
  <1>11. AwaitedApart(program', Append(around, "body"), open')
    BY <1>1, <1>5, <1>8, <1>9, <1>10, Entered
  <1>12. QED BY <1>1, <1>6, <1>7, <1>11, OneMore

\* The second part of an if statement: the label of its exit is awaited instead of that of the part.
LEMMA ElseStep == CompilerInvariant /\ Else => CompilerInvariant'
  <1> SUFFICES ASSUME CompilerInvariant, Else PROVE CompilerInvariant'
    OBVIOUS
  <1> DEFINE q == createLabel(program)
             a == LastLabel(q)
             r == genJ(q, a)
             e == Innermost.lElse
             frame == [Innermost EXCEPT !.lExit = a]
             around == Front(Around)
             frames == Front(open)
  <1>1. /\ phase = "compile" /\ mark <= Len(source) /\ NextMark /\ source[mark][1] = "else"
        /\ program' = assignLabel(r, e)
        /\ open' = Append(frames, frame)
    BY DEF Else, At, InnermostBecomes
  <1>2. GoodLabels(program) /\ AwaitedApart(program, Around, open) /\ Around # <<>> /\ Last(Around) = "then"
    BY <1>1, Here DEF Ends
  <1>3. Keeps(program, q) /\ GoodLabels(q) /\ Unassigned(q, a) /\ a \notin DOMAIN program.labels /\ a \in Nat /\ a # 0
    BY <1>2, CreateLabelStep
  <1>4. /\ AwaitedApart(program, around, frames) /\ Innermost \in Frames
        /\ Unassigned(program, e) /\ ~AnyAwaits(around, frames, e)
    <2>1. Awaited("then", Innermost) = {e}
      BY PartsOfFrames
    <2>2. QED BY <1>2, <2>1, Left DEF Innermost
  <1>5. frame \in Frames /\ Awaited("else", frame) = {a} /\ "else" \in Parts
    <2>1. frame \in Frames /\ frame.lExit = a
      <3> DEFINE k == Innermost
      <3>1. k \in Frames /\ a \in Nat
        BY <1>3, <1>4
      <3> HIDE DEF a, k
      <3>2. [k EXCEPT !.lExit = a] \in Frames /\ [k EXCEPT !.lExit = a].lExit = a
        BY <3>1, PartsOfFrames
      <3>3. QED BY <3>2 DEF k
    <2> HIDE DEF frame
    <2>2. QED BY <2>1, PartsOfFrames
  <1>6. Goes(Around, source[mark][1]) = Append(around, "else")
    BY <1>1 DEF Goes
  <1>7. Keeps(q, r)
    BY <1>3, CodeKeeps
  <1> HIDE DEF q, a, r, e, frame, around, frames
  <1>8. Keeps(program, r) /\ GoodLabels(r)
    BY <1>3, <1>7, KeepsThen, GoodThen DEF Keeps
  <1>9. Unassigned(r, e) /\ Unassigned(r, a) /\ a # e
    <2>1. e # 0 /\ e \in DOMAIN program.labels
      <3>1. 0 \notin DOMAIN program.labels
        BY <1>2, SequenceOfItsElements DEF GoodLabels, TypedProgram, IsSeq
      <3>2. QED BY <1>4, <3>1 DEF Unassigned
    <2>2. QED BY <1>3, <1>4, <1>7, <1>8, <2>1 DEF Keeps, KeepsBut
  <1>10. KeepsBut(r, program', e) /\ GoodLabels(program')
    <2>1. KeepsBut(r, program', e)
      BY <1>1, <1>8, <1>9, AssignKeeps
    <2>2. QED BY <2>1, GoodThen
  <1>11. Unassigned(program', a)
    BY <1>9, <1>10 DEF KeepsBut
  <1>12. AwaitedApart(program', around, frames)
    <2>1. AwaitedApart(r, around, frames)
      BY <1>2, <1>4, <1>8, KeptApart
    <2>2. QED BY <1>4, <1>10, <2>1, StillApart
  <1>13. ~AnyAwaits(around, frames, a)
    BY <1>3, <1>4, NewIsNotAwaited
  <1>14. AwaitedApart(program', Append(around, "else"), open')
    BY <1>1, <1>5, <1>11, <1>12, <1>13, Entered
  <1>15. QED BY <1>1, <1>6, <1>10, <1>14, OneMore

\* The end of a statement: the label of its exit is on what comes next.
LEMMA ExitStep == CompilerInvariant /\ (EndIf \/ EndWhile) => CompilerInvariant'
  <1> SUFFICES ASSUME CompilerInvariant, EndIf \/ EndWhile PROVE CompilerInvariant'
    OBVIOUS
  <1> DEFINE r == IF source[mark][1] = "endif" THEN program ELSE genJ(program, Innermost.lLoop)
             e == Innermost.lExit
             around == Front(Around)
             frames == Front(open)
  <1>1. /\ phase = "compile" /\ mark <= Len(source) /\ NextMark /\ source[mark][1] \in {"endif", "endwhile"}
        /\ program' = assignLabel(r, e)
        /\ open' = frames
    BY DEF EndIf, EndWhile, At
  <1>2. GoodLabels(program) /\ AwaitedApart(program, Around, open) /\ Around # <<>> /\ Last(Around) \in {"else", "body"}
    BY <1>1, Here DEF Ends
  <1>3. /\ AwaitedApart(program, around, frames)
        /\ Unassigned(program, e) /\ ~AnyAwaits(around, frames, e)
    <2>1. Awaited(Last(Around), Innermost) = {e}
      BY <1>2, PartsOfFrames
    <2>2. QED BY <1>2, <2>1, Left DEF Innermost
  <1>4. Goes(Around, source[mark][1]) = around
    BY <1>1 DEF Goes
  <1>5. Keeps(program, r)
    BY <1>2, CodeKeeps, KeepsItself
  <1> HIDE DEF r, e, around, frames
  <1>6. GoodLabels(r) /\ Unassigned(r, e)
    <2>1. 0 \notin DOMAIN program.labels
      BY <1>2, SequenceOfItsElements DEF GoodLabels, TypedProgram, IsSeq
    <2>2. e # 0
      BY <1>3, <2>1 DEF Unassigned
    <2>3. QED BY <1>3, <1>5, <2>2 DEF Keeps, KeepsBut
  <1>7. KeepsBut(r, program', e) /\ GoodLabels(program')
    <2>1. KeepsBut(r, program', e)
      BY <1>1, <1>6, AssignKeeps
    <2>2. QED BY <2>1, GoodThen
  <1>8. AwaitedApart(program', around, frames)
    <2>1. AwaitedApart(r, around, frames)
      BY <1>2, <1>3, <1>5, KeptApart
    <2>2. QED BY <1>3, <1>7, <2>1, StillApart
  <1>9. QED BY <1>1, <1>4, <1>7, <1>8, OneMore

LEMMA DoWhileStep == CompilerInvariant /\ DoWhile => CompilerInvariant'
  <1> SUFFICES ASSUME CompilerInvariant, DoWhile PROVE CompilerInvariant'
    OBVIOUS
  <1> DEFINE around == Front(Around)
             frames == Front(open)
  <1>1. /\ phase = "compile" /\ mark <= Len(source) /\ NextMark /\ source[mark][1] = "dowhile"
        /\ program' = genBFormatInstruction(program, "BNE", Top, REG_0, Innermost.lLoop)
        /\ open' = frames
    BY DEF DoWhile, At
  <1>2. GoodLabels(program) /\ AwaitedApart(program, Around, open) /\ Around # <<>>
    BY <1>1, Here DEF Ends
  <1>3. AwaitedApart(program, around, frames)
    BY <1>2, Left
  <1>4. Goes(Around, source[mark][1]) = around
    BY <1>1 DEF Goes
  <1> HIDE DEF around, frames
  <1>5. Keeps(program, program')
    BY <1>1, <1>2, CodeKeeps
  <1>6. GoodLabels(program') /\ AwaitedApart(program', around, frames)
    BY <1>2, <1>3, <1>5, KeptApart, GoodThen DEF Keeps
  <1>7. QED BY <1>1, <1>4, <1>6, OneMore

LEMMA CompilerStep == CompilerInvariant /\ CompilerNext => CompilerInvariant'
  <1> SUFFICES ASSUME CompilerInvariant, CompilerNext PROVE CompilerInvariant'
    OBVIOUS
  <1>1. CASE Undeclared
    <2>1. program' = program /\ phase' = "error"
      BY <1>1 DEF Undeclared
    <2>2. GoodLabels(program)
      BY DEF CompilerInvariant
    <2>3. QED BY <2>1, <2>2 DEF CompilerInvariant
  <1>2. CASE EndOfProgram
    <2>1. program' = genEpilog(program) /\ phase' # "compile"
      BY <1>2 DEF EndOfProgram
    <2>2. GoodLabels(program)
      BY DEF CompilerInvariant
    <2>3. GoodLabels(program')
      <3>1. Keeps(program, program')
        BY <2>1, <2>2, EpilogKeeps
      <3>2. QED BY <3>1, GoodThen DEF Keeps
    <2>4. QED BY <2>1, <2>3 DEF CompilerInvariant
  <1>3. QED BY <1>1, <1>2, DeclareStep, ExpressionStep, SimpleStep, IfStep, ElseStep, ExitStep, LoopStep,
               ConditionStep, DoWhileStep DEF CompilerNext

LEMMA CompilerStart ==
  ASSUME CompilerInit, phase = "compile" => IsSeq(source) /\ Grammatical(source)
  PROVE  CompilerInvariant
  <1>1. GoodLabels(program)
    BY NewProgramGood DEF CompilerInit
  <1>2. ASSUME phase = "compile" PROVE StatementsOpen
    <2>1. IsSeq(source) /\ Grammatical(source) /\ mark = 1 /\ open = <<>>
      BY <1>2 DEF CompilerInit
    <2>2. Len(source) \in Nat /\ Surroundings(source)[0] = <<>>
      BY <2>1, SurroundingsGo
    <2>3. AwaitedApart(program, <<>>, <<>>)
      <3>1. <<>> \in Seq(Parts) /\ <<>> \in Seq(Frames) /\ 1..Len(<<>>) = {}
        OBVIOUS
      <3>2. QED BY <3>1 DEF AwaitedApart
    <2>4. Surroundings(source)[mark - 1] = <<>>
      BY <2>1, <2>2
    <2>5. QED BY <2>1, <2>2, <2>3, <2>4 DEF StatementsOpen
  <1>3. QED BY <1>1, <1>2 DEF CompilerInvariant

LEMMA GoodLabelsAreSound ==
  ASSUME GoodLabels(program)
  PROVE  LabelsSound
  <1>1. ASSUME NEW k \in Labels, NEW l \in Labels
        PROVE  (getLabelName(program.labels[k]) = getLabelName(program.labels[l]))
                 <=> (program.labels[k].labelID = program.labels[l].labelID)
    <2>1. k \in DOMAIN program.labels /\ l \in DOMAIN program.labels
      BY DEF Labels
    <2>2. ASSUME NEW m \in DOMAIN program.labels
          PROVE  \/ IDOf(program, m) = 0 /\ getLabelName(program.labels[m]) = <<"_start">>
                 \/ IDOf(program, m) # 0 /\ \E n \in DOMAIN program.symbols :
                      program.symbols[n].label = m /\ getLabelName(program.labels[m]) = <<"l_", program.symbols[n].ID>>
                 \/ IDOf(program, m) # 0 /\ ~IsOfSymbol(program, m) /\ getLabelName(program.labels[m]) = <<"l", IDOf(program, m)>>
      BY NamesOfLabels DEF IsOfSymbol
    <2>3. /\ \A n, m \in DOMAIN program.symbols : program.symbols[n].ID = program.symbols[m].ID => n = m
          /\ \A n \in DOMAIN program.symbols : \A m \in DOMAIN program.labels :
               IDOf(program, m) = IDOf(program, program.symbols[n].label) => m = program.symbols[n].label
      BY DEF GoodLabels, NamedSymbols
    <2>4. getLabelName(program.labels[k]) = getLabelName(program.labels[l]) => IDOf(program, k) = IDOf(program, l)
      <3> HIDE DEF IsOfSymbol
      <3>1. QED BY <2>1, <2>2, <2>3, DifferentNames
    <2>5. IDOf(program, k) = IDOf(program, l) => getLabelName(program.labels[k]) = getLabelName(program.labels[l])
      BY <2>1, <2>2, <2>3 DEF IsOfSymbol
    <2>6. QED BY <2>4, <2>5 DEF IDOf
  <1>2. ASSUME NEW k \in Labels
        PROVE  Cardinality({i \in DOMAIN program.instructions :
                      /\ program.instructions[i].label # 0
                      /\ program.labels[program.instructions[i].label].labelID = program.labels[k].labelID}) <= 1
    <2> DEFINE Q == {i \in DOMAIN program.instructions :
                      /\ program.instructions[i].label # 0
                      /\ program.labels[program.instructions[i].label].labelID = program.labels[k].labelID}
    <2>1. \A i, j \in Q : i = j
      BY DEF GoodLabels, OnePlace, IDOf
    <2> HIDE DEF Q
    <2>2. Cardinality(Q) <= 1
      <3>1. CASE Q = {}
        BY <3>1, FS_EmptySet
      <3>2. CASE Q # {}
        <4>1. PICK i \in Q : TRUE
          BY <3>2
        <4>2. Q = {i}
          BY <4>1, <2>1
        <4>3. Cardinality(Q) = 1
          BY <4>2, FS_Singleton, Zenon
        <4>4. QED BY <4>3
      <3>3. QED BY <3>1, <3>2
    <2>3. QED BY <2>2 DEF Q
  <1>3. program.fatal = FALSE
    BY DEF GoodLabels, TypedProgram
  <1>4. QED BY <1>1, <1>2, <1>3 DEF LabelsSound, AliasesAgree, AssignedOnce

LEMMA ToolchainStarts ==
  ASSUME Init
  PROVE  CompilerInvariant
  <1>1. CompilerInit /\ (phase = "compile" => source \in LancePrograms)
    BY DEF Init
  <1>2. phase = "compile" => IsSeq(source) /\ Grammatical(source)
    BY <1>1, ProgramsAssumption DEF IsSeq
  <1>3. QED BY <1>1, <1>2, CompilerStart

\* The passes after acse change nothing of the program.
LEMMA ToolchainStep ==
  ASSUME CompilerInvariant, [Next]_vars
  PROVE  CompilerInvariant'
  <1>1. CASE Compile
    BY <1>1, CompilerStep DEF Compile
  <1>2. ASSUME UNCHANGED compilerVars, phase' = "compile" => phase = "compile"
        PROVE  CompilerInvariant'
    <2>1. source' = source /\ mark' = mark /\ program' = program /\ open' = open
      BY <1>2 DEF compilerVars
    <2>2. QED BY <1>2, <2>1 DEF CompilerInvariant, StatementsOpen
  <1>3. CASE WriteFile
    BY <1>2, <1>3 DEF WriteFile
  <1>4. CASE Parse
    BY <1>2, <1>4 DEF Parse, ParseLine
  <1>5. CASE EndOfFile
    BY <1>2, <1>5 DEF EndOfFile
  <1>6. CASE Lay
    <2>1. phase' = "compile" => phase = "compile"
      BY <1>6 DEF Lay, LayoutNext, Expand, Expanded, Place, AllPlaced, Resolve, AllResolved, Encode, AllEncoded, Write,
                  SectionWritten, EndOfSection
    <2>2. QED BY <1>2, <1>6, <2>1 DEF Lay
  <1>7. CASE Boot
    BY <1>2, <1>7 DEF Boot, Load
  <1>8. CASE Run
    <2>1. phase' = "compile" => phase = "compile"
      BY <1>8 DEF Run, Compute, LoadWord, StoreWord, Jump, Branch, PrintInt, PrintChar, ReadInt, Exit, Fault, RunFrame
    <2>2. UNCHANGED compilerVars
      BY <1>8 DEF Run, Compute, LoadWord, StoreWord, Jump, Branch, PrintInt, PrintChar, ReadInt, Exit, Fault, RunFrame
    <2>3. QED BY <1>2, <2>1, <2>2
  <1>9. CASE Finished \/ UNCHANGED vars
    BY <1>2, <1>9 DEF Finished, vars
  <1>10. QED BY <1>1, <1>3, <1>4, <1>5, <1>6, <1>7, <1>8, <1>9 DEF Next

\* While acse compiles whichever sources, of whatever size and nesting, and after it, a label has
\* a name of its own and is on one instruction at most.
THEOREM LabelsStaySound == Spec => []LabelsSound
  <1>1. CompilerInvariant => LabelsSound
    BY GoodLabelsAreSound DEF CompilerInvariant
  <1>2. QED BY <1>1, ToolchainStarts, ToolchainStep, PTL DEF Spec

-----------------------------------------------------------------------------
(* References of instructions *)

IsInstruction(i) == i.class = "INSTR" \/ i.word # <<>>

OfMachine(instr) == TakesWhatFits(instr, Jumps)

\* The instruction before loads the high part of the same label.
FollowsItsHighPart(q, k) ==
  /\ k > 1
  /\ q[k - 1].instr.immMode = "PCREL_HI20"
  /\ q[k - 1].instr.label = q[k].instr.label
  /\ q[k - 1].class # "ALIGN" /\ Extent(q[k - 1]) = Instruction
FinalItem(q, k) ==
  IsInstruction(q[k]) =>
    /\ OfMachine(q[k].instr)
    /\ q[k].class = "INSTR" => q[k].word = <<>>
    /\ q[k].word # <<>> => q[k].word = WordOf(q[k].instr)
    /\ q[k].instr.immMode = "PCREL_LO12_DIRECT" => FollowsItsHighPart(q, k)

AllFinal(o) == \A s \in Sections : \A k \in DOMAIN o[s] : FinalItem(o[s], k)

\* The item of o that a label of %pcrel_lo points to
HighItem(o, label) == ItemAt(o, objLabelGetPointedItem(o, label))

\* The constant is what the reference stands for.
Linked(o, i) ==
  LET mode     == i.instr.immMode
      constant == i.instr.constant
      pointer  == objLabelGetPointer(o, i.instr.label)
      high     == HighItem(o, i.instr.label)
      far(from) == Wrap(pointer - from)
  IN /\ mode = "LBL" => constant = Signed(far(i.address)) /\ constant \in Reach(i.instr.opcode)
     /\ mode = "LO12" => constant = LO_12(pointer)
     /\ mode = "HI20" => constant = HI_20(pointer)
     /\ mode = "PCREL_HI20" => constant = HI_20(far(i.address))
     /\ mode = "PCREL_LO12_DIRECT" => constant = LO_12(far(i.address - Instruction))
     /\ mode = "PCREL_LO12" =>
          /\ IsDeclared(o, i.instr.label)
          /\ constant = LO_12(Wrap(objLabelGetPointer(o, high.instr.label) - high.address))

Finals ==
  /\ phase = "expand" =>
       \A s \in Sections : \A k \in DOMAIN object[s] :
         IF k \in Behind(s) THEN FinalItem(object[s], k) ELSE ParsedItem(object[s][k])
  /\ phase \in {"address", "resolve", "encode", "elf", "load"} => AllFinal(object)
\* Instructions have no words before they are encoded.
NoWords ==
  phase \in {"expand", "address", "resolve"} =>
    \A s \in Sections : \A k \in DOMAIN object[s] : object[s][k].word = <<>>
Links ==
  \A s \in Sections : \A k \in DOMAIN object[s] :
    /\ phase \in {"encode", "elf", "load"} \/ (phase = "resolve" /\ k \in Behind(s))
    /\ IsInstruction(object[s][k])
    => Linked(object, object[s][k])

-----------------------------------------------------------------------------
(* Expansion *)

LEMMA Additions ==
  /\ \A op \in {"ADDI", "LB", "LH", "LW", "LBU", "LHU", "SB", "SH", "SW"} : AddsNothing(op)
  /\ \A op \in Pseudo : op \notin DOMAIN opInstData
  <1>1. DOMAIN opInstData =
          {"ADD", "SUB", "SLL", "SLT", "SLTU", "XOR", "SRL", "SRA", "OR", "AND", "MUL", "MULH", "MULHSU",
           "MULHU", "DIV", "DIVU", "REM", "REMU", "ADDI", "SLLI", "SLTI", "SLTIU", "XORI", "SRLI", "SRAI",
           "ORI", "ANDI", "LB", "LH", "LW", "LBU", "LHU", "SB", "SH", "SW", "LUI", "AUIPC", "JAL", "JALR",
           "BEQ", "BNE", "BLT", "BGE", "BLTU", "BGEU", "ECALL", "EBREAK"}
    BY DEF opInstData
  <1>2. /\ opInstData["ADDI"][4] = 0
        /\ opInstData["LB"][4] = 0 /\ opInstData["LH"][4] = 0 /\ opInstData["LW"][4] = 0
        /\ opInstData["LBU"][4] = 0 /\ opInstData["LHU"][4] = 0
        /\ opInstData["SB"][4] = 0 /\ opInstData["SH"][4] = 0 /\ opInstData["SW"][4] = 0
    BY DEF opInstData
  <1>3. QED BY <1>1, <1>2 DEF AddsNothing, Pseudo, GlobalLoads, GlobalStores, Swapped, WithZero, ZeroWith

\* The instructions that one of a file becomes
IsExpansion(e) ==
  \/ \E a : e = <<a>> /\ OfMachine(a) /\ a.immMode # "PCREL_LO12_DIRECT"
  \/ \E a, b : /\ e = <<a, b>> /\ OfMachine(a) /\ OfMachine(b)
               /\ a.immMode # "PCREL_LO12_DIRECT"
               /\ b.immMode = "PCREL_LO12_DIRECT" => a.immMode = "PCREL_HI20" /\ a.label = b.label

LEMMA PartsOfAddress ==
  ASSUME NEW i, NEW op \in {"ADDI", "LB", "LH", "LW", "LBU", "LHU", "SB", "SH", "SW"}, NEW d, NEW r
  PROVE  IsExpansion(<<HighPart(i), LowPart(i, op, d, r)>>)
  <1> DEFINE a == HighPart(i)
             b == LowPart(i, op, d, r)
  <1>1. /\ DOMAIN a = {"opcode", "dest", "src1", "src2", "immMode", "constant", "label"}
        /\ a.opcode = "AUIPC" /\ a.immMode = "PCREL_HI20" /\ a.label = i.label
    BY DEF HighPart, WithLabel, Instr
  <1>2. /\ DOMAIN b = {"opcode", "dest", "src1", "src2", "immMode", "constant", "label"}
        /\ b.opcode = op /\ b.immMode = "PCREL_LO12_DIRECT" /\ b.label = i.label
    BY DEF LowPart, WithLabel, Instr
  <1>3. AddsNothing(op)
    BY Additions
  <1> HIDE DEF a, b
  <1>4. OfMachine(a) /\ OfMachine(b)
    BY <1>1, <1>2, <1>3 DEF OfMachine, TakesWhatFits, HighModes, LowModes
  <1>5. QED BY <1>1, <1>2, <1>4 DEF IsExpansion, a, b

LEMMA ConstantInstruction ==
  ASSUME NEW op, NEW d, NEW r, NEW c
  PROVE  OfMachine(WithConstant(Instr(op, d, r, 0), c)) /\ WithConstant(Instr(op, d, r, 0), c).immMode = "CONST"
  BY DEF OfMachine, TakesWhatFits, HighModes, LowModes, WithConstant, Instr

LEMMA BranchInstruction ==
  ASSUME NEW i, OfFile(i), i.opcode \in Pseudo, NEW op \in Jumps, NEW x1, NEW x2,
         NEW mode, mode = i.immMode \/ mode = "LBL"
  PROVE  IsExpansion(<<WithLabel(Instr(op, 0, x1, x2), mode, i.label)>>)
  <1> DEFINE a == WithLabel(Instr(op, 0, x1, x2), mode, i.label)
  <1>1. /\ DOMAIN a = {"opcode", "dest", "src1", "src2", "immMode", "constant", "label"}
        /\ a.opcode = op /\ a.immMode = mode
    BY DEF WithLabel, Instr
  <1>2. i.opcode \notin {"LUI", "AUIPC"} /\ ~AddsNothing(i.opcode)
    BY Additions DEF Pseudo, AddsNothing, GlobalLoads, GlobalStores, Swapped, WithZero, ZeroWith
  <1>3. mode \notin HighModes /\ mode \notin LowModes
    BY <1>2 DEF OfFile, TakesWhatFits, HighModes, LowModes
  <1> HIDE DEF a
  <1>4. OfMachine(a)
    BY <1>1, <1>3 DEF OfMachine, TakesWhatFits
  <1>5. a.immMode # "PCREL_LO12_DIRECT"
    BY <1>1, <1>3 DEF LowModes
  <1>6. QED BY <1>4, <1>5 DEF IsExpansion, a

LEMMA ExpansionIsFinal ==
  ASSUME NEW i, OfFile(i)
  PROVE  IsExpansion(encExpandPseudoInstruction(i))
  <1> DEFINE op == i.opcode
             e == encExpandPseudoInstruction(i)
  <1>1. CASE op = "NOP"
    <2>1. e = <<Instr("ADDI", 0, 0, 0)>>
      BY <1>1 DEF encExpandPseudoInstruction, GlobalLoads, GlobalStores, Swapped, WithZero, ZeroWith
    <2>2. OfMachine(Instr("ADDI", 0, 0, 0)) /\ Instr("ADDI", 0, 0, 0).immMode = "CONST"
      BY DEF OfMachine, TakesWhatFits, HighModes, LowModes, Instr
    <2>3. QED BY <2>1, <2>2 DEF IsExpansion
  <1>2. CASE op = "LI"
    <2>1. CASE i.constant \in Immediate
      <3>1. e = <<WithConstant(Instr("ADDI", i.dest, 0, 0), LO_12(i.constant))>>
        BY <1>2, <2>1 DEF encExpandPseudoInstruction, GlobalLoads, GlobalStores, Swapped, WithZero, ZeroWith
      <3>2. QED BY <3>1, ConstantInstruction DEF IsExpansion
    <2>2. CASE i.constant \notin Immediate
      <3>1. e = <<WithConstant(Instr("LUI", i.dest, 0, 0), HI_20(i.constant)),
                  WithConstant(Instr("ADDI", i.dest, i.dest, 0), LO_12(i.constant))>>
        BY <1>2, <2>2 DEF encExpandPseudoInstruction, GlobalLoads, GlobalStores, Swapped, WithZero, ZeroWith
      <3>2. QED BY <3>1, ConstantInstruction DEF IsExpansion
    <2>3. QED BY <2>1, <2>2
  <1>3. CASE op = "LA"
    <2>1. e = <<HighPart(i), LowPart(i, "ADDI", i.dest, 0)>>
      BY <1>3 DEF encExpandPseudoInstruction, GlobalLoads, GlobalStores, Swapped, WithZero, ZeroWith
    <2>2. QED BY <2>1, PartsOfAddress
  <1>4. CASE op \in DOMAIN GlobalLoads
    <2>1. e = <<HighPart(i), LowPart(i, GlobalLoads[op], i.dest, 0)>>
      BY <1>4 DEF encExpandPseudoInstruction, GlobalLoads, GlobalStores, Swapped, WithZero, ZeroWith
    <2>2. GlobalLoads[op] \in {"LB", "LH", "LW", "LBU", "LHU"}
      BY <1>4 DEF GlobalLoads
    <2>3. QED BY <2>1, <2>2, PartsOfAddress
  <1>5. CASE op \in DOMAIN GlobalStores
    <2>1. e = <<HighPart(i), LowPart(i, GlobalStores[op], 0, i.src2)>>
      BY <1>5 DEF encExpandPseudoInstruction, GlobalLoads, GlobalStores, Swapped, WithZero, ZeroWith
    <2>2. GlobalStores[op] \in {"SB", "SH", "SW"}
      BY <1>5 DEF GlobalStores
    <2>3. QED BY <2>1, <2>2, PartsOfAddress
  <1>6. CASE op \in DOMAIN Swapped
    <2>1. e = <<WithLabel(Instr(Swapped[op], 0, i.src2, i.src1), i.immMode, i.label)>>
      BY <1>6 DEF encExpandPseudoInstruction, GlobalLoads, GlobalStores, Swapped, WithZero, ZeroWith
    <2>2. Swapped[op] \in Jumps /\ op \in Pseudo
      BY <1>6 DEF Swapped, Jumps, Conditions, Pseudo
    <2>3. QED BY <2>1, <2>2, BranchInstruction
  <1>7. CASE op \in DOMAIN WithZero
    <2>1. e = <<WithLabel(Instr(WithZero[op], 0, i.src1, 0), i.immMode, i.label)>>
      BY <1>7 DEF encExpandPseudoInstruction, GlobalLoads, GlobalStores, Swapped, WithZero, ZeroWith
    <2>2. WithZero[op] \in Jumps /\ op \in Pseudo
      BY <1>7 DEF WithZero, Jumps, Conditions, Pseudo
    <2>3. QED BY <2>1, <2>2, BranchInstruction
  <1>8. CASE op \in DOMAIN ZeroWith
    <2>1. e = <<WithLabel(Instr(ZeroWith[op], 0, 0, i.src1), i.immMode, i.label)>>
      BY <1>8 DEF encExpandPseudoInstruction, GlobalLoads, GlobalStores, Swapped, WithZero, ZeroWith
    <2>2. ZeroWith[op] \in Jumps /\ op \in Pseudo
      BY <1>8 DEF ZeroWith, Jumps, Conditions, Pseudo
    <2>3. QED BY <2>1, <2>2, BranchInstruction
  <1>9. CASE op = "J"
    <2>1. e = <<WithLabel(Instr("JAL", 0, 0, 0), "LBL", i.label)>>
      BY <1>9 DEF encExpandPseudoInstruction, GlobalLoads, GlobalStores, Swapped, WithZero, ZeroWith
    <2>2. "JAL" \in Jumps /\ op \in Pseudo
      BY <1>9 DEF Jumps, Pseudo
    <2>3. QED BY <2>1, <2>2, BranchInstruction
  <1>10. CASE op \notin {"NOP", "LI"} \union Pseudo
    <2>1. e = <<i>>
      BY <1>10 DEF encExpandPseudoInstruction, GlobalLoads, GlobalStores, Swapped, WithZero, ZeroWith, Pseudo
    <2>2. OfMachine(i) /\ i.immMode # "PCREL_LO12_DIRECT"
      BY <1>10 DEF OfFile, OfMachine, TakesWhatFits
    <2> HIDE DEF e
    <2>3. QED BY <2>1, <2>2 DEF IsExpansion, e
  <1>11. QED BY <1>1, <1>2, <1>3, <1>4, <1>5, <1>6, <1>7, <1>8, <1>9, <1>10 DEF Pseudo

\* A sequence in the place of one element of another, and where the elements are then
Spliced(q, p, c) == SubSeq(q, 1, p - 1) \o c \o SubSeq(q, p + 1, Len(q))
HasPlaces(r, q, p, c) ==
  /\ Len(r) = Len(q) - 1 + Len(c)
  /\ \A k \in 1..(p - 1) : r[k] = q[k]
  /\ \A k \in 1..Len(c) : r[p - 1 + k] = c[k]
  /\ \A k \in (p + Len(c))..Len(r) : k - Len(c) + 1 \in (p + 1)..Len(q) /\ r[k] = q[k - Len(c) + 1]

LEMMA SplicePlaces ==
  ASSUME NEW T, NEW q \in Seq(T), NEW c \in Seq(T), NEW p \in 1..Len(q)
  PROVE  HasPlaces(Spliced(q, p, c), q, p, c)
  <1> DEFINE r == Spliced(q, p, c)
             before == SubSeq(q, 1, p - 1)
             after  == SubSeq(q, p + 1, Len(q))
             n == Len(c)
             m == Len(q)
  <1>1. m \in Nat /\ n \in Nat /\ p \in Int /\ 1 <= p /\ p <= m
    OBVIOUS
  <1>2. before \in Seq(T) /\ Len(before) = p - 1 /\ \A k \in 1..(p - 1) : before[k] = q[k]
    BY <1>1
  <1>3. after \in Seq(T) /\ Len(after) = m - p /\ \A k \in 1..(m - p) : after[k] = q[p + k]
    <2>1. after \in Seq(T) /\ Len(after) = m - p
      BY <1>1
    <2>2. ASSUME NEW k \in 1..(m - p)
          PROVE  after[k] = q[p + k]
      <3>1. k \in 1..((m + 1) - (p + 1)) /\ p + k = (p + 1) + k - 1
        BY <1>1
      <3>2. QED BY <1>1, <3>1
    <2>3. QED BY <2>1, <2>2
  <1> DEFINE first == before \o c
  <1>4. /\ first \in Seq(T) /\ Len(first) = (p - 1) + n
        /\ \A k \in 1..(p - 1) : first[k] = q[k]
        /\ \A k \in 1..n : first[(p - 1) + k] = c[k]
    <2> HIDE DEF before, after
    <2>1. first \in Seq(T) /\ Len(first) = Len(before) + Len(c)
      BY <1>2, ConcatProperties
    <2>2. \A k \in 1..(Len(before) + Len(c)) :
            first[k] = IF k <= Len(before) THEN before[k] ELSE c[k - Len(before)]
      BY <1>2, ConcatProperties
    <2> HIDE DEF first
    <2>3. ASSUME NEW k \in 1..n
          PROVE  first[(p - 1) + k] = c[k]
      <3> DEFINE j == (p - 1) + k
      <3>1. j \in 1..(Len(before) + Len(c)) /\ ~(j <= Len(before)) /\ j - Len(before) = k
        BY <1>1, <1>2
      <3> HIDE DEF j
      <3>2. first[j] = c[j - Len(before)]
        BY <3>1, <2>2
      <3>3. QED BY <3>1, <3>2 DEF j
    <2>4. ASSUME NEW k \in 1..(p - 1)
          PROVE  first[k] = q[k]
      <3>1. k \in 1..(Len(before) + Len(c)) /\ k <= Len(before)
        BY <1>1, <1>2
      <3>2. QED BY <3>1, <2>2, <1>2
    <2>5. QED BY <1>2, <2>1, <2>3, <2>4
  <1> HIDE DEF before, after, first
  <1>5. r = first \o after
    BY DEF Spliced, first, before, after
  <1> HIDE DEF r
  <1>6. /\ Len(r) = Len(first) + Len(after)
        /\ \A k \in 1..(Len(first) + Len(after)) :
             r[k] = IF k <= Len(first) THEN first[k] ELSE after[k - Len(first)]
    <2>1. Len(first \o after) = Len(first) + Len(after)
      BY <1>3, <1>4, ConcatProperties
    <2>2. \A k \in 1..(Len(first) + Len(after)) :
            (first \o after)[k] = IF k <= Len(first) THEN first[k] ELSE after[k - Len(first)]
      BY <1>3, <1>4, ConcatProperties
    <2>3. QED BY <1>5, <2>1, <2>2
  <1> DEFINE f == Len(first)
             a == Len(after)
             z == Len(r)
  <1>7. f = p - 1 + n /\ a = m - p /\ z = f + a
    BY <1>3, <1>4, <1>6
  <1> HIDE DEF n, m, f, a, z
  <1>12. z = m - 1 + n /\ m \in Int /\ n \in Int /\ f \in Int /\ a \in Int
    BY <1>1, <1>7
  <1>8. ASSUME NEW k \in 1..(p - 1)
        PROVE  r[k] = q[k]
    <2>1. k \in 1..(Len(first) + Len(after)) /\ k <= Len(first)
      BY <1>1, <1>3, <1>4
    <2>2. QED BY <2>1, <1>4, <1>6
  <1>9. ASSUME NEW k \in 1..n
        PROVE  r[p - 1 + k] = c[k]
    <2>1. p - 1 + k \in 1..(Len(first) + Len(after)) /\ p - 1 + k <= Len(first)
      BY <1>1, <1>3, <1>4
    <2>2. QED BY <2>1, <1>4, <1>6
  <1>10. ASSUME NEW k \in (p + n)..Len(r)
         PROVE  k - n + 1 \in (p + 1)..m /\ r[k] = q[k - n + 1]
    <2> DEFINE j == k - f
    <2>1. k \in (p + n)..z
      BY DEF z
    <2>4. /\ k \in 1..(f + a) /\ ~(k <= f)
          /\ j \in 1..(m - p) /\ p + j = k - n + 1 /\ k - n + 1 \in (p + 1)..m
      BY <1>1, <1>7, <1>12, <2>1
    <2>2. r[k] = after[j]
      BY <2>4, <1>6 DEF f, a
    <2> HIDE DEF j
    <2>3. QED BY <2>4, <2>2, <1>3
  <1>11. QED BY <1>8, <1>9, <1>10, <1>12 DEF HasPlaces, n, m, z, r

-----------------------------------------------------------------------------
(* The passes keep it *)

\* What an item is depends on the one before it only.
LEMMA SameItem ==
  ASSUME NEW q, NEW r, NEW k, NEW j, r[j] = q[k], k > 1 => j > 1 /\ r[j - 1] = q[k - 1], FinalItem(q, k)
  PROVE  FinalItem(r, j)
  BY DEF FinalItem, FollowsItsHighPart

LEMMA ExpandedCode ==
  ASSUME NEW i, OfFile(i), NEW l, NEW c,
         c = [k \in DOMAIN encExpandPseudoInstruction(i) |-> Code(encExpandPseudoInstruction(i)[k], l)]
  PROVE  /\ Len(c) \in {1, 2} /\ c \in Seq(Range(c))
         /\ \A k \in 1..Len(c) : FinalItem(c, k)
  <1> DEFINE e == encExpandPseudoInstruction(i)
  <1>1. IsExpansion(e)
    BY ExpansionIsFinal
  <1> HIDE DEF e
  <1>2. \A x1 : Code(x1, l).instr = x1 /\ Code(x1, l).word = <<>> /\ Code(x1, l).class = "INSTR"
    BY DEF Code, Item
  <1>3. CASE \E a : e = <<a>> /\ OfMachine(a) /\ a.immMode # "PCREL_LO12_DIRECT"
    <2>1. PICK a : e = <<a>> /\ OfMachine(a) /\ a.immMode # "PCREL_LO12_DIRECT"
      BY <1>3
    <2>2. c = <<Code(a, l)>>
      BY <2>1 DEF e
    <2>3. c[1].instr = a /\ c[1].word = <<>> /\ Len(c) = 1 /\ c \in Seq(Range(c))
      BY <2>2, <1>2 DEF Range
    <2>4. FinalItem(c, 1)
      BY <2>1, <2>3 DEF FinalItem
    <2>5. QED BY <2>3, <2>4
  <1>4. CASE \E a, b : /\ e = <<a, b>> /\ OfMachine(a) /\ OfMachine(b)
                       /\ a.immMode # "PCREL_LO12_DIRECT"
                       /\ b.immMode = "PCREL_LO12_DIRECT" => a.immMode = "PCREL_HI20" /\ a.label = b.label
    <2>1. PICK a, b : /\ e = <<a, b>> /\ OfMachine(a) /\ OfMachine(b)
                      /\ a.immMode # "PCREL_LO12_DIRECT"
                      /\ b.immMode = "PCREL_LO12_DIRECT" => a.immMode = "PCREL_HI20" /\ a.label = b.label
      BY <1>4
    <2>2. c = <<Code(a, l), Code(b, l)>>
      BY <2>1 DEF e
    <2>3. /\ c[1].instr = a /\ c[1].word = <<>> /\ c[1].class = "INSTR"
          /\ c[2].instr = b /\ c[2].word = <<>>
          /\ Len(c) = 2 /\ c \in Seq(Range(c))
      BY <2>2, <1>2 DEF Range
    <2>4. FinalItem(c, 1)
      BY <2>1, <2>3 DEF FinalItem
    <2>5. FinalItem(c, 2)
      <3>1. 2 - 1 = 1
        OBVIOUS
      <3>2. QED BY <2>1, <2>3, <3>1 DEF FinalItem, FollowsItsHighPart, Extent
    <2>6. QED BY <2>3, <2>4, <2>5
  <1>5. QED BY <1>1, <1>3, <1>4 DEF IsExpansion

LEMMA ExpandFinals == IInv /\ Finals /\ Expand => Finals'
  <1> SUFFICES ASSUME IInv, Finals, Expand PROVE Finals'
    OBVIOUS
  <1> DEFINE c == IF item.class = "INSTR"
                    THEN [k \in DOMAIN encExpandPseudoInstruction(item.instr) |->
                            Code(encExpandPseudoInstruction(item.instr)[k], item.line)]
                    ELSE <<item>>
             q == object[sec]
             r == SubSeq(q, 1, pos - 1) \o c \o SubSeq(q, pos + 1, Len(q))
  <1>1. /\ phase = "expand" /\ UNCHANGED <<phase, sec>>
        /\ pos' = pos + Len(c)
        /\ object' = [object EXCEPT ![sec] = r]
        /\ sec \in Sections /\ ItemsWellFormed /\ pos \in 1..Len(q)
        /\ q \in Seq(Range(q)) /\ DOMAIN object = Sections
    BY DEF Expand, ExpandedItem, AtItem, IInv, Types, ItemsWellFormed
  <1>2. DOMAIN q = 1..Len(q) /\ Len(q) \in Nat
    BY <1>1, ItemFacts
  <1>3. item = q[pos] /\ ParsedItem(item)
    <2>1. pos \in DOMAIN q /\ pos \in Int
      BY <1>1, <1>2
    <2>2. pos \notin Behind(sec)
      BY <2>1 DEF Behind
    <2>3. ParsedItem(q[pos])
      BY <1>1, <2>1, <2>2 DEF Finals
    <2>4. QED BY <2>3 DEF item
  <1>4. Len(c) \in {1, 2} /\ c \in Seq(Range(c)) /\ \A k \in 1..Len(c) : FinalItem(c, k)
    <2>1. CASE item.class = "INSTR"
      <3>1. OfFile(item.instr)
        BY <1>3, <2>1 DEF ParsedItem
      <3>2. c = [k \in DOMAIN encExpandPseudoInstruction(item.instr) |->
                  Code(encExpandPseudoInstruction(item.instr)[k], item.line)]
        BY <2>1
      <3> HIDE DEF c
      <3>3. QED BY <3>1, <3>2, ExpandedCode
    <2>2. CASE item.class # "INSTR"
      <3>1. c = <<item>>
        BY <2>2
      <3> HIDE DEF c
      <3>2. Len(c) = 1 /\ c \in Seq(Range(c)) /\ c[1] = item
        BY <3>1 DEF Range
      <3>3. FinalItem(c, 1)
        BY <1>3, <2>2, <3>2 DEF FinalItem, ParsedItem, IsInstruction
      <3>4. QED BY <3>2, <3>3
    <2>3. QED BY <2>1, <2>2
  <1> HIDE DEF c
  <1> DEFINE n == Len(c)
             T == Range(q) \union Range(c)
  <1>5. q \in Seq(T) /\ c \in Seq(T) /\ n \in 1..2
    BY <1>1, <1>4 DEF Range
  <1>6. /\ Len(r) = Len(q) - 1 + n
        /\ \A k \in 1..(pos - 1) : r[k] = q[k]
        /\ \A k \in 1..n : r[pos - 1 + k] = c[k]
        /\ \A k \in (pos + n)..Len(r) : k - n + 1 \in (pos + 1)..Len(q) /\ r[k] = q[k - n + 1]
    <2>1. r = Spliced(q, pos, c)
      BY DEF Spliced
    <2>2. q \in Seq(T) /\ c \in Seq(T) /\ pos \in 1..Len(q)
      BY <1>1, <1>5
    <2> HIDE DEF T, q, r, n
    <2>3. HasPlaces(r, q, pos, c)
      BY <2>1, <2>2, SplicePlaces
    <2>4. QED BY <2>3 DEF HasPlaces, n
  <1>7. r \in Seq(T)
    <2> HIDE DEF T, q
    <2>1. QED BY <1>1, <1>5, Splice
  <1> HIDE DEF T, q, r
  <1>8. DOMAIN r = 1..Len(r) /\ object'[sec] = r /\ pos \in Int /\ n \in Int
    BY <1>1, <1>5, <1>7
  <1> HIDE DEF n
  <1>9. ASSUME NEW k \in DOMAIN r
        PROVE  IF k < pos' THEN FinalItem(r, k) ELSE ParsedItem(r[k])
    <2>1. k \in 1..Len(r) /\ k \in Int /\ pos' = pos + n
      BY <1>1, <1>8 DEF n
    <2>2. CASE k < pos
      <3>1. k \in Behind(sec) /\ k \in DOMAIN q
        BY <1>1, <1>2, <1>8, <2>1, <2>2 DEF Behind, q
      <3>2. FinalItem(q, k)
        BY <1>1, <3>1 DEF Finals, q
      <3>3. r[k] = q[k] /\ (k > 1 => r[k - 1] = q[k - 1])
        <4>1. k \in 1..(pos - 1) /\ (k > 1 => k - 1 \in 1..(pos - 1))
          BY <1>8, <2>1, <2>2
        <4>2. QED BY <1>6, <4>1
      <3>4. FinalItem(r, k)
        BY <3>2, <3>3, SameItem
      <3>5. QED BY <1>5, <1>8, <2>1, <2>2, <3>4
    <2>3. CASE pos <= k /\ k < pos + n
      <3> DEFINE j == k - pos + 1
      <3>1. j \in 1..n /\ pos - 1 + j = k
        BY <1>8, <2>1, <2>3
      <3>5. j > 1 => k > 1 /\ j - 1 \in 1..n /\ pos - 1 + (j - 1) = k - 1
        <4>1. pos >= 1
          BY <1>1
        <4>2. QED BY <1>8, <2>1, <2>3, <4>1
      <3> HIDE DEF j
      <3>2. r[k] = c[j] /\ (j > 1 => k > 1 /\ r[k - 1] = c[j - 1])
        BY <1>6, <3>1, <3>5
      <3>3. FinalItem(c, j)
        BY <1>4, <3>1 DEF n
      <3>4. FinalItem(r, k)
        BY <3>2, <3>3, SameItem
      <3>6. QED BY <2>1, <2>3, <3>4
    <2>4. CASE k >= pos + n
      <3> DEFINE j == k - n + 1
      <3>1. j \in (pos + 1)..Len(q) /\ r[k] = q[j]
        BY <1>6, <1>8, <2>1, <2>4
      <3> HIDE DEF j
      <3>2. j \in DOMAIN q /\ ~(j < pos)
        BY <1>1, <1>2, <1>8, <3>1
      <3>3. j \notin Behind(sec)
        BY <3>2 DEF Behind
      <3>4. ParsedItem(q[j])
        BY <1>1, <3>2, <3>3 DEF Finals, q
      <3>5. QED BY <1>8, <2>1, <2>4, <3>1, <3>4
    <2>5. QED BY <1>8, <2>1, <2>2, <2>3, <2>4
  <1>10. ASSUME NEW s \in Sections, NEW k \in DOMAIN object'[s]
         PROVE  IF k \in Behind(s)' THEN FinalItem(object'[s], k) ELSE ParsedItem(object'[s][k])
    <2>1. CASE s = sec
      <3>1. k \in DOMAIN r /\ object'[s] = r
        BY <1>8, <1>10, <2>1
      <3>2. k \in Behind(s)' <=> k < pos'
        BY <1>1, <1>8, <2>1, <3>1 DEF Behind
      <3>3. QED BY <1>9, <3>1, <3>2
    <2>2. CASE s # sec
      <3>1. object'[s] = object[s]
        BY <1>1, <2>2
      <3>2. k \in Behind(s)' <=> k \in Behind(s)
        BY <1>1, <2>2, <3>1 DEF Behind
      <3>3. QED BY <1>1, <1>10, <3>1, <3>2 DEF Finals
    <2>3. QED BY <2>1, <2>2
  <1>11. QED BY <1>1, <1>10 DEF Finals

\* What matters of an item to the ones that refer to it
StillRefers(i, j) ==
  /\ j.label = i.label
  /\ j.class = "VOID" <=> i.class = "VOID"
  /\ j.instr.label = i.instr.label /\ j.instr.immMode = i.instr.immMode
  /\ i.class # "ALIGN" => j.class # "ALIGN" /\ Extent(j) = Extent(i)

\* An instruction that goes through a pass
StillFinal(i, j) ==
  IsInstruction(j) =>
    /\ IsInstruction(i)
    /\ OfMachine(j.instr)
    /\ j.class = "INSTR" => j.word = <<>>
    /\ j.word # <<>> => j.word = WordOf(j.instr)

LEMMA FinalsStay ==
  ASSUME NEW q, NEW r, NEW n \in Nat, NEW p \in 1..n, NEW j,
         \A k \in 1..n : r[k] = IF k = p THEN j ELSE q[k],
         \A k \in 1..n : FinalItem(q, k),
         StillRefers(q[p], j), StillFinal(q[p], j)
  PROVE  \A k \in 1..n : FinalItem(r, k)
  <1>1. \A k \in 1..n : StillRefers(q[k], r[k]) /\ StillFinal(q[k], r[k])
    <2>1. ASSUME NEW k \in 1..n, k # p
          PROVE  StillRefers(q[k], r[k]) /\ StillFinal(q[k], r[k])
      <3>1. r[k] = q[k] /\ FinalItem(q, k)
        BY <2>1
      <3>2. QED BY <3>1 DEF StillRefers, StillFinal, FinalItem
    <2>2. QED BY <2>1
  <1>2. ASSUME NEW k \in 1..n, IsInstruction(r[k])
        PROVE  FinalItem(r, k)
    <2>1. StillRefers(q[k], r[k]) /\ StillFinal(q[k], r[k]) /\ FinalItem(q, k)
      BY <1>1
    <2>2. CASE r[k].instr.immMode = "PCREL_LO12_DIRECT"
      <3>1. FollowsItsHighPart(q, k)
        BY <1>2, <2>1, <2>2 DEF FinalItem, StillFinal, StillRefers
      <3>2. k - 1 \in 1..n
        BY <3>1 DEF FollowsItsHighPart
      <3>3. StillRefers(q[k - 1], r[k - 1])
        BY <1>1, <3>2
      <3>4. FollowsItsHighPart(r, k)
        BY <2>1, <3>1, <3>3 DEF FollowsItsHighPart, StillRefers
      <3>5. QED BY <1>2, <2>1, <3>4 DEF FinalItem, StillFinal
    <2>3. CASE r[k].instr.immMode # "PCREL_LO12_DIRECT"
      BY <1>2, <2>1, <2>3 DEF FinalItem, StillFinal
    <2>4. QED BY <2>2, <2>3
  <1>3. QED BY <1>2 DEF FinalItem

LEMMA AllStayFinal ==
  ASSUME ItemsWellFormed, sec \in Sections, pos \in 1..Len(object[sec]),
         NEW j, WellFormedItem(sec, j), Becomes(j),
         AllFinal(object), StillRefers(item, j), StillFinal(item, j)
  PROVE  AllFinal(object')
  <1>1. /\ ItemsWellFormed'
        /\ \A s \in Sections : Len(object'[s]) = Len(object[s])
        /\ \A s \in Sections : \A k \in 1..Len(object[s]) :
              object'[s][k] = IF s = sec /\ k = pos THEN j ELSE object[s][k]
    BY Replacement
  <1>2. \A s \in Sections : /\ Len(object[s]) \in Nat
                            /\ DOMAIN object[s] = 1..Len(object[s])
                            /\ DOMAIN object'[s] = 1..Len(object[s])
    <2>1. ASSUME NEW s \in Sections
          PROVE  Len(object[s]) \in Nat /\ DOMAIN object[s] = 1..Len(object[s])
      BY ItemFacts
    <2>2. ASSUME NEW s \in Sections
          PROVE  DOMAIN object'[s] = 1..Len(object'[s])
      BY <1>1, SequenceOfItsElements DEF ItemsWellFormed
    <2>3. QED BY <1>1, <2>1, <2>2
  <1>3. ASSUME NEW s \in Sections
        PROVE  \A k \in 1..Len(object[s]) : FinalItem(object'[s], k)
    <2> DEFINE q == object[s]
               r == object'[s]
               n == Len(object[s])
    <2>1. n \in Nat /\ \A k \in 1..n : FinalItem(q, k)
      BY <1>2 DEF AllFinal
    <2>2. CASE s = sec
      <3>1. /\ pos \in 1..n /\ StillRefers(q[pos], j) /\ StillFinal(q[pos], j)
            /\ \A k \in 1..n : r[k] = IF k = pos THEN j ELSE q[k]
        BY <1>1, <2>2 DEF item
      <3> HIDE DEF q, r, n
      <3>2. \A k \in 1..n : FinalItem(r, k)
        BY <2>1, <3>1, FinalsStay
      <3>3. QED BY <3>2 DEF r, n
    <2>3. CASE s # sec
      <3>1. \A k \in 1..n : r[k] = q[k]
        BY <1>1, <2>3
      <3> HIDE DEF q, r, n
      <3>2. ASSUME NEW k \in 1..n
            PROVE  FinalItem(r, k)
        <4>1. k > 1 => k - 1 \in 1..n
          BY <2>1
        <4>2. r[k] = q[k] /\ (k > 1 => k > 1 /\ r[k - 1] = q[k - 1]) /\ FinalItem(q, k)
          BY <2>1, <3>1, <4>1
        <4>3. QED BY <4>2, SameItem
      <3>3. QED BY <3>2 DEF r, n
    <2>4. QED BY <2>2, <2>3
  <1>4. QED BY <1>2, <1>3 DEF AllFinal

-----------------------------------------------------------------------------
(* Labels stay where they are while addresses do *)

IsObject(o) == \A s \in Sections : Len(o[s]) \in Nat /\ DOMAIN o[s] = 1..Len(o[s])
SameReference(i, j) ==
  /\ j.label = i.label /\ j.address = i.address
  /\ j.class = "VOID" <=> i.class = "VOID"
  /\ j.instr.label = i.instr.label
SameReferences(o, u) ==
  /\ IsObject(o) /\ IsObject(u)
  /\ \A s \in Sections : Len(u[s]) = Len(o[s]) /\ \A k \in DOMAIN o[s] : SameReference(o[s][k], u[s][k])

LEMMA PlacesStay ==
  ASSUME NEW o, NEW u, SameReferences(o, u), NEW l
  PROVE  PlacesOf(u, l) = PlacesOf(o, l)
  <1>1. \A s \in Sections : {j \in DOMAIN u[s] : u[s][j].label = l} = {j \in DOMAIN o[s] : o[s][j].label = l}
    BY DEF SameReferences, SameReference, IsObject
  <1>2. QED BY <1>1 DEF PlacesOf

LEMMA DeclaredPlace ==
  ASSUME NEW o, NEW l, IsDeclared(o, l)
  PROVE  PlaceOf(o, l)[1] \in Sections /\ PlaceOf(o, l)[2] \in DOMAIN o[PlaceOf(o, l)[1]]
  <1>1. PlaceOf(o, l) \in PlacesOf(o, l)
    BY DEF PlaceOf, IsDeclared
  <1> DEFINE p == PlaceOf(o, l)
  <1> HIDE DEF p
  <1>2. \E s \in Sections : \E i \in DOMAIN o[s] : p = <<s, i>>
    BY <1>1 DEF PlacesOf, p
  <1>3. QED BY <1>2 DEF p

LEMMA PointerStays ==
  ASSUME NEW o, NEW u, SameReferences(o, u), NEW l
  PROVE  /\ IsDeclared(u, l) = IsDeclared(o, l)
         /\ PlaceOf(u, l) = PlaceOf(o, l)
         /\ objLabelGetPointer(u, l) = objLabelGetPointer(o, l)
  <1>1. PlacesOf(u, l) = PlacesOf(o, l)
    BY PlacesStay
  <1>2. IsDeclared(u, l) = IsDeclared(o, l) /\ PlaceOf(u, l) = PlaceOf(o, l)
    BY <1>1 DEF IsDeclared, PlaceOf
  <1>3. CASE IsDeclared(o, l)
    <2> DEFINE s == PlaceOf(o, l)[1]
               k == PlaceOf(o, l)[2]
    <2>1. s \in Sections /\ k \in DOMAIN o[s]
      BY <1>3, DeclaredPlace
    <2>2. u[s][k].address = o[s][k].address
      BY <2>1 DEF SameReferences, SameReference
    <2>3. QED BY <1>2, <1>3, <2>2 DEF objLabelGetPointer, ItemAt
  <1>4. CASE ~IsDeclared(o, l)
    BY <1>2, <1>4 DEF objLabelGetPointer
  <1>5. QED BY <1>2, <1>3, <1>4

LEMMA LeastOf ==
  ASSUME NEW V \in SUBSET Nat, V # {}
  PROVE  Min(V) \in V
  <1>1. PICK z \in V : \A y \in V : ~ (<<y, z>> \in NatLess)
    <2> HIDE DEF NatLess
    <2>1. QED BY NatLessWellFounded, WFMin, Zenon
  <1>2. ASSUME NEW y \in V PROVE z <= y
    <2>1. <<y, z>> \in NatLess <=> <<y, z>> \in Nat \X Nat /\ <<y, z>>[1] < <<y, z>>[2]
      BY DEF NatLess
    <2>2. QED BY <1>1, <2>1
  <1>3. QED BY <1>2 DEF Min

\* The item that a label points to is one of its section, and the same one in both objects.
LEMMA HighItemStays ==
  ASSUME NEW o, NEW u, SameReferences(o, u), NEW l, IsDeclared(o, l)
  PROVE  /\ HighItem(u, l).instr.label = HighItem(o, l).instr.label
         /\ HighItem(u, l).address = HighItem(o, l).address
  <1> DEFINE s == PlaceOf(o, l)[1]
             from == PlaceOf(o, l)[2]
             n == Len(o[s])
             Ends1 == {i \in from..n : o[s][i].class # "VOID" \/ i = n}
             Ends2 == {i \in from..n : u[s][i].class # "VOID" \/ i = n}
  <1>1. s \in Sections /\ from \in 1..n /\ n \in Nat /\ DOMAIN o[s] = 1..n /\ Len(u[s]) = n
    BY DeclaredPlace DEF SameReferences, IsObject
  <1>2. PlaceOf(u, l) = PlaceOf(o, l)
    BY PointerStays
  <1>3. \A i \in 1..n : SameReference(o[s][i], u[s][i])
    BY <1>1 DEF SameReferences
  <1>4. objLabelGetPointedItem(o, l) = <<s, Min(Ends1)>> /\ objLabelGetPointedItem(u, l) = <<s, Min(Ends2)>>
    BY <1>1, <1>2 DEF objLabelGetPointedItem
  <1> HIDE DEF s, from, n
  <1>5. Ends2 = Ends1
    BY <1>1, <1>3 DEF SameReference
  <1>6. Ends1 \in SUBSET Nat /\ Ends1 # {} /\ Ends1 \subseteq 1..n
    <2>1. n \in Ends1 /\ \A i \in from..n : i \in 1..n /\ i \in Nat
      BY <1>1
    <2>2. QED BY <2>1
  <1> HIDE DEF Ends1, Ends2
  <1>7. Min(Ends1) \in 1..n
    BY <1>6, LeastOf
  <1>8. SameReference(o[s][Min(Ends1)], u[s][Min(Ends1)])
    BY <1>3, <1>7
  <1>9. QED BY <1>4, <1>5, <1>8 DEF HighItem, ItemAt, SameReference

LEMMA StaysLinked ==
  ASSUME NEW o, NEW u, SameReferences(o, u), NEW i, NEW j, j.instr = i.instr, j.address = i.address,
         Linked(o, i)
  PROVE  Linked(u, j)
  <1> DEFINE l == i.instr.label
  <1>1. objLabelGetPointer(u, l) = objLabelGetPointer(o, l) /\ IsDeclared(u, l) = IsDeclared(o, l)
    BY PointerStays
  <1>2. CASE i.instr.immMode = "PCREL_LO12"
    <2> DEFINE m == HighItem(o, l).instr.label
    <2>1. IsDeclared(o, l)
      BY <1>2 DEF Linked
    <2>2. HighItem(u, l).instr.label = m /\ HighItem(u, l).address = HighItem(o, l).address
      BY <2>1, HighItemStays
    <2>3. objLabelGetPointer(u, m) = objLabelGetPointer(o, m)
      BY PointerStays
    <2>4. QED BY <1>1, <1>2, <2>1, <2>2, <2>3 DEF Linked
  <1>3. CASE i.instr.immMode # "PCREL_LO12"
    BY <1>1, <1>3 DEF Linked
  <1>4. QED BY <1>2, <1>3

-----------------------------------------------------------------------------
(* Every step keeps the references *)

References == IInv /\ Finals /\ NoWords /\ Links

LEMMA WellFormedIsObject ==
  ASSUME ItemsWellFormed
  PROVE  IsObject(object)
  BY ItemFacts DEF IsObject

LEMMA ReferencesExpanded == References /\ Expanded => Finals' /\ Links'
  <1> SUFFICES ASSUME References, Expanded PROVE Finals' /\ Links'
    OBVIOUS
  <1>1. /\ phase = "expand" /\ pos' = 1 /\ UNCHANGED object /\ pos > Len(object[sec])
        /\ sec = "text" => sec' = "data" /\ phase' = "expand"
        /\ sec = "data" => sec' = "text" /\ phase' = "address"
        /\ sec \in Sections /\ Finals /\ IsObject(object) /\ pos \in Int
    BY WellFormedIsObject DEF Expanded, EndOfSection, References, IInv, Types, Sections
  <1>2. \A k \in DOMAIN object[sec] : k \in Behind(sec)
    BY <1>1 DEF Behind, IsObject
  <1>3. CASE sec = "text"
    <2>1. Behind("data") = {} /\ Behind("data")' = {} /\ Behind("text")' = DOMAIN object["text"]
      BY <1>1, <1>3 DEF Behind, IsObject, Sections
    <2>2. QED BY <1>1, <1>2, <1>3, <2>1 DEF Finals, Links, Sections
  <1>4. CASE sec = "data"
    <2>1. \A s \in Sections : \A k \in DOMAIN object[s] : k \in Behind(s)
      BY <1>2, <1>4 DEF Behind, Sections
    <2>2. QED BY <1>1, <1>4, <2>1 DEF Finals, Links, AllFinal
  <1>5. QED BY <1>1, <1>3, <1>4 DEF Sections

LEMMA ReferencesPlace == References /\ Place => Finals' /\ Links'
  <1> SUFFICES ASSUME References, Place PROVE Finals' /\ Links'
    OBVIOUS
  <1> DEFINE j == Placed(item, curAddr)
             i == item
  <1>1. /\ phase = "address" /\ phase' \in {"address", "failed"} /\ Becomes(j)
        /\ ItemsWellFormed /\ sec \in Sections /\ pos \in 1..Len(object[sec]) /\ curAddr \in Word
        /\ AllFinal(object)
    BY ItemFacts DEF References, IInv, Types, Finals, Place, AtItem
  <1>2. i = object[sec][pos] /\ WellFormedItem(sec, i) /\ FinalItem(object[sec], pos)
    BY <1>1, ItemFacts DEF AllFinal, item
  <1>3. WellFormedItem(sec, j)
    BY <1>1, <1>2, PlacedIsLaid
  <1>4. /\ j.class = i.class /\ j.label = i.label /\ j.instr = i.instr /\ j.word = i.word
        /\ i.class # "ALIGN" => j.size = i.size
    BY <1>2 DEF Placed, WellFormedItem
  <1> HIDE DEF j
  <1>5. StillRefers(i, j)
    BY <1>4 DEF StillRefers, Extent
  <1>6. StillFinal(i, j)
    BY <1>2, <1>4 DEF StillFinal, FinalItem, IsInstruction
  <1> HIDE DEF i
  <1>7. AllFinal(object')
    BY <1>1, <1>3, <1>5, <1>6, AllStayFinal DEF i
  <1>8. QED BY <1>1, <1>7 DEF Finals, Links

LEMMA ReferencesPlaced == References /\ AllPlaced => Finals' /\ Links'
  <1> SUFFICES ASSUME References, AllPlaced PROVE Finals' /\ Links'
    OBVIOUS
  <1>1. /\ phase = "address" /\ pos' = 1 /\ UNCHANGED object
        /\ phase' = "address" \/ (phase' = "resolve" /\ sec' = "text")
        /\ AllFinal(object) /\ IsObject(object)
    BY WellFormedIsObject DEF References, IInv, Types, Finals, AllPlaced, EndOfSection
  <1>2. phase' = "resolve" => \A s \in Sections : Behind(s)' = {}
    BY <1>1 DEF Behind, IsObject
  <1>3. QED BY <1>1, <1>2 DEF Finals, Links

\* After the address pass items are replaced by ones that are referred to alike.
LEMMA LinksStay ==
  ASSUME References, phase \in {"resolve", "encode", "elf"}, pos <= Len(object[sec]),
         NEW j, WellFormedItem(sec, j), Becomes(j), pos' = pos + 1, UNCHANGED <<phase, sec>>,
         StillRefers(item, j), StillFinal(item, j), j.address = item.address,
         IsInstruction(j) => Linked(object, j)
  PROVE  Finals' /\ Links'
  <1>1. /\ ItemsWellFormed /\ sec \in Sections /\ pos \in 1..Len(object[sec])
        /\ AllFinal(object) /\ Links /\ IsObject(object)
    BY ItemFacts, WellFormedIsObject DEF References, IInv, Types, Finals
  <1>2. AllFinal(object')
    BY <1>1, AllStayFinal
  <1>3. /\ ItemsWellFormed'
        /\ \A s \in Sections : Len(object'[s]) = Len(object[s])
        /\ \A s \in Sections : \A k \in 1..Len(object[s]) :
              object'[s][k] = IF s = sec /\ k = pos THEN j ELSE object[s][k]
    BY <1>1, Replacement
  <1>4. IsObject(object')
    <2>1. ASSUME NEW s \in Sections
          PROVE  Len(object'[s]) \in Nat /\ DOMAIN object'[s] = 1..Len(object'[s])
      BY <1>3, SequenceOfItsElements DEF ItemsWellFormed
    <2>2. QED BY <2>1 DEF IsObject
  <1>5. SameReferences(object, object')
    <2>1. ASSUME NEW s \in Sections, NEW k \in DOMAIN object[s]
          PROVE  SameReference(object[s][k], object'[s][k])
      <3>1. k \in 1..Len(object[s])
        BY <1>1 DEF IsObject
      <3>2. CASE s = sec /\ k = pos
        BY <1>3, <3>1, <3>2 DEF SameReference, StillRefers, item
      <3>3. CASE ~(s = sec /\ k = pos)
        <4>1. object'[s][k] = object[s][k]
          BY <1>3, <3>1, <3>3
        <4>2. QED BY <4>1 DEF SameReference
      <3>4. QED BY <3>2, <3>3
    <2>2. QED BY <1>1, <1>3, <1>4, <2>1 DEF SameReferences
  <1>6. ASSUME NEW s \in Sections, NEW k \in DOMAIN object'[s],
               phase' \in {"encode", "elf", "load"} \/ (phase' = "resolve" /\ k \in Behind(s)'),
               IsInstruction(object'[s][k])
        PROVE  Linked(object', object'[s][k])
    <2>1. k \in 1..Len(object[s]) /\ k \in DOMAIN object[s] /\ k \in Int /\ pos \in Int
      BY <1>1, <1>3, <1>4 DEF IsObject
    <2>2. CASE s = sec /\ k = pos
      <3>1. object'[s][k] = j
        BY <1>3, <2>1, <2>2
      <3>2. Linked(object, j)
        BY <1>6, <3>1
      <3>3. Linked(object', j)
        BY <1>5, <3>2, StaysLinked
      <3>4. QED BY <3>1, <3>3
    <2>3. CASE ~(s = sec /\ k = pos)
      <3>1. object'[s][k] = object[s][k]
        BY <1>3, <2>1, <2>3
      <3>2. phase = "resolve" => k \in Behind(s)
        BY <1>6, <2>1, <2>3 DEF Behind
      <3>3. Linked(object, object[s][k])
        BY <1>1, <1>6, <2>1, <3>1, <3>2 DEF Links
      <3>4. Linked(object', object[s][k])
        BY <1>5, <3>3, StaysLinked
      <3>5. QED BY <3>1, <3>4
    <2>4. QED BY <2>2, <2>3
  <1>7. QED BY <1>2, <1>6 DEF Finals, Links

LEMMA ResolvedIsLinked ==
  ASSUME NEW i, Resolvable(i), NEW j, j.address = i.address, j.instr.label = i.instr.label,
         j.instr.immMode = i.instr.immMode, j.instr.opcode = i.instr.opcode, j.instr.constant = Resolved(i)
  PROVE  Linked(object, j)
  <1> DEFINE mode == i.instr.immMode
             l == i.instr.label
  <1>1. mode # "CONST" => IsDeclared(object, l)
    BY DEF Resolvable
  <1>2. CASE mode = "LBL"
    <2>1. Distance(l, i.address) \in Reach(i.instr.opcode)
      BY <1>1, <1>2 DEF Resolvable
    <2>2. j.instr.constant = Distance(l, i.address)
      BY <1>2 DEF Resolved
    <2>3. QED BY <1>2, <2>1, <2>2 DEF Linked, Distance, Pointer
  <1>3. CASE mode = "LO12"
    <2>1. j.instr.constant = LO_12(Pointer(l))
      BY <1>3 DEF Resolved
    <2>2. QED BY <1>3, <2>1 DEF Linked, Pointer
  <1>4. CASE mode = "HI20"
    <2>1. j.instr.constant = HI_20(Pointer(l))
      BY <1>4 DEF Resolved
    <2>2. QED BY <1>4, <2>1 DEF Linked, Pointer
  <1>5. CASE mode = "PCREL_HI20"
    <2>1. j.instr.constant = HI_20(Wrap(Pointer(l) - i.address))
      BY <1>5 DEF Resolved
    <2>2. QED BY <1>5, <2>1 DEF Linked, Pointer
  <1>6. CASE mode = "PCREL_LO12_DIRECT"
    <2>1. j.instr.constant = LO_12(Wrap(Pointer(l) - (i.address - Instruction)))
      BY <1>6 DEF Resolved, HighPartAddress
    <2>2. QED BY <1>6, <2>1 DEF Linked, Pointer
  <1>7. CASE mode = "PCREL_LO12"
    <2>1. j.instr.constant = LO_12(Wrap(Pointer(HighPartOf(l).instr.label) - HighPartOf(l).address))
      BY <1>7 DEF Resolved
    <2>2. QED BY <1>1, <1>7, <2>1 DEF Linked, Pointer, HighPartOf, HighItem
  <1>8. CASE mode \notin {"LBL", "LO12", "HI20", "PCREL_HI20", "PCREL_LO12_DIRECT", "PCREL_LO12"}
    BY <1>8 DEF Linked
  <1>9. QED BY <1>2, <1>3, <1>4, <1>5, <1>6, <1>7, <1>8

LEMMA ReferencesResolved == References /\ Resolve => Finals' /\ Links'
  <1> SUFFICES ASSUME References, Resolve PROVE Finals' /\ Links'
    OBVIOUS
  <1>1. /\ phase = "resolve" /\ pos <= Len(object[sec]) /\ pos' = pos + 1 /\ UNCHANGED sec
        /\ ItemsWellFormed /\ sec \in Sections /\ pos \in 1..Len(object[sec]) /\ pos \in DOMAIN object[sec]
        /\ AllFinal(object) /\ NoWords
    BY ItemFacts DEF References, IInv, Types, Finals, Resolve, AtItem, NextItem
  <1>2. /\ item = object[sec][pos] /\ WellFormedItem(sec, item) /\ FinalItem(object[sec], pos)
        /\ item.word = <<>>
    BY <1>1, ItemFacts DEF AllFinal, NoWords, item
  <1>3. CASE phase' = "failed"
    BY <1>3 DEF Finals, Links
  <1>4. CASE phase' # "failed"
    <2> DEFINE j == IF item.class = "INSTR" THEN [item EXCEPT !.instr.constant = Resolved(item)] ELSE item
    <2>1. UNCHANGED phase /\ Becomes(j) /\ (item.class = "INSTR" => Resolvable(item))
      BY <1>1, <1>4 DEF Resolve
    <2>2. /\ WellFormedItem(sec, j) /\ j.class = item.class /\ j.label = item.label /\ j.address = item.address
          /\ j.word = item.word /\ j.size = item.size
          /\ item.class # "INSTR" => j = item
      BY <1>2 DEF WellFormedItem
    <2>3. item.class = "INSTR" =>
            /\ OfMachine(j.instr)
            /\ j.instr.label = item.instr.label /\ j.instr.immMode = item.instr.immMode
            /\ j.instr.opcode = item.instr.opcode /\ j.instr.constant = Resolved(item)
      <3> SUFFICES ASSUME item.class = "INSTR"
                   PROVE  /\ OfMachine(j.instr)
                          /\ j.instr.label = item.instr.label /\ j.instr.immMode = item.instr.immMode
                          /\ j.instr.opcode = item.instr.opcode /\ j.instr.constant = Resolved(item)
        OBVIOUS
      <3>1. OfMachine(item.instr) /\ "instr" \in DOMAIN item
        BY <1>2 DEF FinalItem, IsInstruction, item, WellFormedItem
      <3>2. j.instr = [item.instr EXCEPT !.constant = Resolved(item)]
        BY <3>1
      <3> HIDE DEF j
      <3>3. QED BY <3>1, <3>2 DEF OfMachine, TakesWhatFits
    <2> HIDE DEF j
    <2>4. StillRefers(item, j)
      BY <2>2, <2>3 DEF StillRefers, Extent
    <2>5. StillFinal(item, j)
      BY <1>2, <2>2, <2>3 DEF StillFinal, IsInstruction
    <2>6. IsInstruction(j) => Linked(object, j)
      <3>1. CASE item.class = "INSTR"
        BY <2>1, <2>2, <2>3, <3>1, ResolvedIsLinked
      <3>2. CASE item.class # "INSTR"
        BY <1>2, <2>2, <3>2 DEF IsInstruction
      <3>3. QED BY <3>1, <3>2
    <2>7. QED BY <1>1, <2>1, <2>2, <2>4, <2>5, <2>6, LinksStay
  <1>5. QED BY <1>3, <1>4

LEMMA ReferencesAllResolved == References /\ AllResolved => Finals' /\ Links'
  <1> SUFFICES ASSUME References, AllResolved PROVE Finals' /\ Links'
    OBVIOUS
  <1>1. /\ phase = "resolve" /\ pos' = 1 /\ UNCHANGED object /\ pos > Len(object[sec]) /\ pos \in Int
        /\ sec = "text" => sec' = "data" /\ phase' = "resolve"
        /\ sec = "data" => sec' = "text" /\ phase' = "encode"
        /\ sec \in Sections /\ AllFinal(object) /\ Links /\ IsObject(object)
    BY WellFormedIsObject DEF AllResolved, EndOfSection, References, IInv, Types, Sections, Finals
  <1>2. \A k \in DOMAIN object[sec] : k \in Behind(sec)
    BY <1>1 DEF Behind, IsObject
  <1>3. CASE sec = "text"
    <2>1. Behind("data")' = {} /\ Behind("text") = DOMAIN object["text"]
      BY <1>1, <1>2, <1>3 DEF Behind, IsObject, Sections
    <2>2. QED BY <1>1, <1>2, <1>3, <2>1 DEF Finals, Links, Sections
  <1>4. CASE sec = "data"
    <2>1. \A s \in Sections : \A k \in DOMAIN object[s] : k \in Behind(s)
      BY <1>2, <1>4 DEF Behind, Sections
    <2>2. QED BY <1>1, <1>4, <2>1 DEF Finals, Links
  <1>5. QED BY <1>1, <1>3, <1>4 DEF Sections

LEMMA ReferencesEncode == References /\ Encode => Finals' /\ Links'
  <1> SUFFICES ASSUME References, Encode PROVE Finals' /\ Links'
    OBVIOUS
  <1> DEFINE j == IF item.class = "INSTR"
                    THEN [item EXCEPT !.class = "DATA", !.size = Instruction, !.word = WordOf(item.instr)]
                    ELSE item
  <1>1. /\ phase = "encode" /\ pos <= Len(object[sec]) /\ pos' = pos + 1 /\ UNCHANGED <<phase, sec>>
        /\ Becomes(j)
        /\ ItemsWellFormed /\ sec \in Sections /\ pos \in 1..Len(object[sec]) /\ pos \in DOMAIN object[sec]
        /\ AllFinal(object) /\ Links
    BY ItemFacts DEF References, IInv, Types, Finals, Encode, AtItem, NextItem
  <1>2. item = object[sec][pos] /\ WellFormedItem(sec, item) /\ FinalItem(object[sec], pos)
    BY <1>1, ItemFacts DEF AllFinal, item
  <1>3. /\ WellFormedItem(sec, j) /\ j.label = item.label /\ j.address = item.address /\ j.instr = item.instr
        /\ item.class = "INSTR" => j.class = "DATA" /\ j.size = Instruction /\ j.word = WordOf(item.instr)
        /\ item.class # "INSTR" => j = item
    BY <1>2, Constants1 DEF WellFormedItem
  <1> HIDE DEF j
  <1>4. StillRefers(item, j)
    BY <1>3 DEF StillRefers, Extent
  <1>5. StillFinal(item, j)
    BY <1>2, <1>3 DEF StillFinal, IsInstruction, FinalItem
  <1>6. IsInstruction(j) => Linked(object, j)
    <2> SUFFICES ASSUME IsInstruction(j) PROVE Linked(object, j)
      OBVIOUS
    <2>1. IsInstruction(item)
      BY <1>5 DEF StillFinal
    <2>2. Linked(object, item)
      BY <1>1, <1>2, <2>1 DEF Links
    <2>3. QED BY <1>3, <2>2 DEF Linked
  <1>7. QED BY <1>1, <1>3, <1>4, <1>5, <1>6, LinksStay

LEMMA ReferencesAllEncoded == References /\ AllEncoded => Finals' /\ Links'
  BY DEF References, AllEncoded, EndOfSection, Finals, Links

LEMMA ReferencesWrite == References /\ Write => Finals' /\ Links'
  <1> SUFFICES ASSUME References, Write PROVE Finals' /\ Links'
    OBVIOUS
  <1> DEFINE j == [item EXCEPT !.offset = fileOffset]
  <1>1. /\ phase = "elf" /\ pos <= Len(object[sec]) /\ pos' = pos + 1 /\ UNCHANGED <<phase, sec>>
        /\ Becomes(j) /\ fileOffset \in Nat
        /\ ItemsWellFormed /\ sec \in Sections /\ pos \in 1..Len(object[sec]) /\ pos \in DOMAIN object[sec]
        /\ AllFinal(object) /\ Links
    BY ItemFacts DEF References, IInv, Types, Finals, Write, AtItem, NextItem
  <1>2. item = object[sec][pos] /\ WellFormedItem(sec, item) /\ FinalItem(object[sec], pos)
    BY <1>1, ItemFacts DEF AllFinal, item
  <1>3. /\ WellFormedItem(sec, j) /\ j.label = item.label /\ j.address = item.address /\ j.instr = item.instr
        /\ j.class = item.class /\ j.size = item.size /\ j.word = item.word
    BY <1>1, <1>2 DEF WellFormedItem
  <1> HIDE DEF j
  <1>4. StillRefers(item, j)
    BY <1>3 DEF StillRefers, Extent
  <1>5. StillFinal(item, j)
    BY <1>2, <1>3 DEF StillFinal, IsInstruction, FinalItem
  <1>6. IsInstruction(j) => Linked(object, j)
    <2> SUFFICES ASSUME IsInstruction(j) PROVE Linked(object, j)
      OBVIOUS
    <2>1. IsInstruction(item)
      BY <1>5 DEF StillFinal
    <2>2. Linked(object, item)
      BY <1>1, <1>2, <2>1 DEF Links
    <2>3. QED BY <1>3, <2>2 DEF Linked
  <1>7. QED BY <1>1, <1>3, <1>4, <1>5, <1>6, LinksStay

LEMMA ReferencesWritten == References /\ SectionWritten => Finals' /\ Links'
  BY DEF References, SectionWritten, EndOfSection, Finals, Links

LEMMA ReferencesLoad == References /\ Load => Finals' /\ Links'
  BY DEF References, Load, Finals, Links, layoutVars

LEMMA ReferencesStutter == References /\ UNCHANGED <<phase, layoutVars>> => Finals' /\ NoWords' /\ Links'
  BY DEF References, Finals, NoWords, Links, Behind, layoutVars

\* Words come with the encoding only.
LEMMA NoWordsExpand == References /\ Expand => NoWords'
  <1> SUFFICES ASSUME References, Expand PROVE NoWords'
    OBVIOUS
  <1> DEFINE c == IF item.class = "INSTR"
                    THEN [k \in DOMAIN encExpandPseudoInstruction(item.instr) |->
                            Code(encExpandPseudoInstruction(item.instr)[k], item.line)]
                    ELSE <<item>>
             q == object[sec]
             r == Spliced(q, pos, c)
  <1>1. /\ phase = "expand" /\ UNCHANGED phase
        /\ object' = [object EXCEPT ![sec] = r]
        /\ sec \in Sections /\ ItemsWellFormed /\ pos \in 1..Len(q) /\ pos \in DOMAIN q
        /\ q \in Seq(Range(q)) /\ DOMAIN object = Sections /\ NoWords
    BY ItemFacts DEF Expand, ExpandedItem, AtItem, References, IInv, Types, ItemsWellFormed, Spliced
  <1>2. item.word = <<>> /\ \A i \in Range(q) : i.word = <<>>
    BY <1>1 DEF item, NoWords, Range
  <1>3. c \in Seq(Range(c)) /\ \A i \in Range(c) : i.word = <<>>
    <2>1. CASE item.class = "INSTR"
      <3>1. c = [k \in DOMAIN encExpandPseudoInstruction(item.instr) |->
                  Code(encExpandPseudoInstruction(item.instr)[k], item.line)]
        BY <2>1
      <3>2. \A a, b : Code(a, b).word = <<>>
        BY DEF Code, Item
      <3> HIDE DEF c
      <3>3. c \in Seq(Range(c))
        BY <3>1, Expansion
      <3>4. \A i \in Range(c) : i.word = <<>>
        BY <3>1, <3>2 DEF Range
      <3>5. QED BY <3>3, <3>4
    <2>2. CASE item.class # "INSTR"
      <3>1. c = <<item>>
        BY <2>2
      <3> HIDE DEF c
      <3>2. QED BY <1>2, <3>1 DEF Range
    <2>3. QED BY <2>1, <2>2
  <1> HIDE DEF c
  <1> DEFINE T == Range(q) \union Range(c)
  <1>4. q \in Seq(T) /\ c \in Seq(T)
    BY <1>1, <1>3
  <1>5. r \in Seq(T)
    <2> HIDE DEF T, q
    <2>1. QED BY <1>1, <1>4, Splice DEF Spliced
  <1>6. \A k \in DOMAIN r : r[k].word = <<>>
    <2> HIDE DEF r, q
    <2>1. \A k \in DOMAIN r : r[k] \in T
      BY <1>5
    <2>2. QED BY <1>2, <1>3, <2>1
  <1> HIDE DEF r
  <1>7. \A s \in Sections : object'[s] = IF s = sec THEN r ELSE object[s]
    BY <1>1
  <1>8. QED BY <1>1, <1>6, <1>7 DEF NoWords

LEMMA NoWordsReplace ==
  ASSUME ItemsWellFormed, NoWords, sec \in Sections, pos \in 1..Len(object[sec]),
         phase \in {"expand", "address", "resolve"},
         NEW j, WellFormedItem(sec, j), j.word = item.word, Becomes(j)
  PROVE  NoWords'
  <1>1. /\ ItemsWellFormed'
        /\ \A s \in Sections : Len(object'[s]) = Len(object[s])
        /\ \A s \in Sections : \A k \in 1..Len(object[s]) :
              object'[s][k] = IF s = sec /\ k = pos THEN j ELSE object[s][k]
    BY Replacement
  <1>2. \A s \in Sections : \A k \in 1..Len(object[s]) : object[s][k].word = <<>>
    BY ItemFacts DEF NoWords
  <1>3. j.word = <<>>
    BY <1>2 DEF item
  <1>4. \A s \in Sections : DOMAIN object'[s] = 1..Len(object[s])
    <2>1. ASSUME NEW s \in Sections
          PROVE  DOMAIN object'[s] = 1..Len(object[s])
      BY <1>1, SequenceOfItsElements DEF ItemsWellFormed
    <2>2. QED BY <2>1
  <1>5. QED BY <1>1, <1>2, <1>3, <1>4 DEF NoWords

LEMMA NoWordsPlace == References /\ Place => NoWords'
  <1> SUFFICES ASSUME References, Place PROVE NoWords'
    OBVIOUS
  <1>1. /\ phase = "address" /\ Becomes(Placed(item, curAddr)) /\ NoWords
        /\ ItemsWellFormed /\ sec \in Sections /\ pos \in 1..Len(object[sec]) /\ curAddr \in Word
    BY ItemFacts DEF References, IInv, Types, Place, AtItem
  <1>2. item = object[sec][pos] /\ WellFormedItem(sec, item)
    BY <1>1, ItemFacts DEF item
  <1>3. WellFormedItem(sec, Placed(item, curAddr))
    BY <1>1, <1>2, PlacedIsLaid
  <1>4. Placed(item, curAddr).word = item.word
    BY <1>2 DEF Placed, WellFormedItem
  <1>5. QED BY <1>1, <1>3, <1>4, NoWordsReplace

LEMMA NoWordsResolve == References /\ Resolve => NoWords'
  <1> SUFFICES ASSUME References, Resolve PROVE NoWords'
    OBVIOUS
  <1> DEFINE j == IF item.class = "INSTR" THEN [item EXCEPT !.instr.constant = Resolved(item)] ELSE item
  <1>1. /\ phase = "resolve" /\ NoWords
        /\ phase' = "failed" \/ Becomes(j)
        /\ ItemsWellFormed /\ sec \in Sections /\ pos \in 1..Len(object[sec])
    BY ItemFacts DEF References, IInv, Types, Resolve, AtItem
  <1>2. WellFormedItem(sec, item)
    BY <1>1, ItemFacts DEF item
  <1>3. WellFormedItem(sec, j) /\ j.word = item.word
    BY <1>2 DEF WellFormedItem
  <1> HIDE DEF j
  <1>4. CASE phase' = "failed"
    BY <1>4 DEF NoWords
  <1>5. CASE Becomes(j)
    BY <1>1, <1>3, <1>5, NoWordsReplace
  <1>6. QED BY <1>1, <1>4, <1>5

\* The other steps of the assembler
LEMMA NoWordsOther ==
  References /\ (Expanded \/ AllPlaced \/ AllResolved \/ Encode \/ AllEncoded \/ Write \/ SectionWritten \/ Load)
    => NoWords'
  BY DEF References, NoWords, Expanded, AllPlaced, AllResolved, Encode, AllEncoded, Write, SectionWritten, Load,
         EndOfSection, AtItem

LEMMA ReferencesStep == References /\ [LayoutNext \/ Load]_<<phase, layoutVars>> => References'
  <1> SUFFICES ASSUME References, [LayoutNext \/ Load]_<<phase, layoutVars>> PROVE References'
    OBVIOUS
  <1>1. IInv'
    BY ExpandStep, ExpandedStep, PlaceStep, AllPlacedStep, ResolveStep, AllResolvedStep,
       EncodeStep, AllEncodedStep, WriteStep, SectionWrittenStep, LoadStep, Stutter DEF LayoutNext, References
  <1>2. NoWords'
    BY NoWordsExpand, NoWordsPlace, NoWordsResolve, NoWordsOther, ReferencesStutter DEF LayoutNext
  <1>3. Finals' /\ Links'
    <2>1. CASE Expand
      <3>1. Links'
        BY <2>1 DEF Expand, ExpandedItem, AtItem, Links
      <3>2. QED BY <2>1, <3>1, ExpandFinals DEF References
    <2>2. QED BY <2>1, ReferencesExpanded, ReferencesPlace, ReferencesPlaced, ReferencesResolved,
                 ReferencesAllResolved, ReferencesEncode, ReferencesAllEncoded, ReferencesWrite,
                 ReferencesWritten, ReferencesLoad, ReferencesStutter DEF LayoutNext
  <1>4. QED BY <1>1, <1>2, <1>3 DEF References

-----------------------------------------------------------------------------
(* What the fields of words are *)

\* A field keeps the numbers that it has the bits for.
LEMMA CutKeeps ==
  ASSUME NEW n \in Int, NEW H \in Nat \ {0}, 2 ^ (n - 1) = H, 2 ^ n = 2 * H, NEW z \in SignedBits(n)
  PROVE  Cut(z, n) = z
  <1>1. z \in Int /\ -H <= z /\ z <= H - 1
    BY DEF SignedBits
  <1>2. 2 * H \in Nat \ {0}
    OBVIOUS
  <1> DEFINE m == 2 * H
             l == z % m
  <1>3. Cut(z, n) = IF l >= H THEN l - m ELSE l
    BY DEF Cut
  <1>4. CASE z >= 0
    <2>1. z \in 0..(m - 1)
      BY <1>1, <1>4
    <2> HIDE DEF m
    <2>2. l = z
      BY <1>2, <2>1, SmallRemainder DEF m
    <2>3. QED BY <1>1, <1>3, <2>2
  <1>5. CASE z < 0
    <2>1. z + m \in 0..(m - 1) /\ z = (m * (-1)) + (z + m) /\ z + m >= H
      BY <1>1, <1>5
    <2> DEFINE y == z + m
    <2> HIDE DEF m, y
    <2>2. ((m * (-1)) + y) % m = y
      BY <1>2, <2>1, Remainder1 DEF m, y
    <2>3. l = y /\ y \in Int /\ y >= H
      BY <2>1, <2>2 DEF y
    <2>4. m \in Int
      BY DEF m
    <2>5. y - m = z
      BY <1>1, <2>4 DEF y
    <2> HIDE DEF l
    <2>6. QED BY <1>3, <2>3, <2>5
  <1>6. QED BY <1>1, <1>4, <1>5

\* From an address, the distance to another one leads there.
LEMMA DistanceLeads ==
  ASSUME NEW a \in Word, NEW b \in Word
  PROVE  Wrap(a + Signed(Wrap(b - a))) = b
  <1> DEFINE d == Wrap(b - a)
  <1>1. a \in Int /\ b \in Int
    BY AddressIsNumber
  <1>2. d \in Word /\ d \in Int /\ Wrap(d + a) = b
    <2>1. b - a \in Int /\ (b - a) + a = b
      BY <1>1
    <2>2. Wrap(b - a) \in Word /\ Wrap(Wrap(b - a) + a) = Wrap((b - a) + a) /\ Wrap(b) = b
      BY <1>1, <2>1, WrapProperties
    <2> HIDE DEF d
    <2>3. QED BY <2>1, <2>2, AddressIsNumber DEF d
  <1> SUFFICES Wrap(a + Signed(d)) = b
    OBVIOUS
  <1> HIDE DEF d
  <1>3. CASE d >= WordSize \div 2
    <2>1. Signed(d) = d - WordSize
      BY <1>3 DEF Signed
    <2> DEFINE y == d + a
               q == y \div WordSize
    <2>2. y \in Int /\ WordSize \in Nat \ {0}
      BY <1>1, <1>2, Constants1
    <2>3. a + (d - WordSize) = y - WordSize
      BY <1>1, <1>2, <2>2
    <2> HIDE DEF y
    <2>4. y = (WordSize * q) + (y % WordSize) /\ q \in Int /\ y % WordSize = b /\ b \in 0..(WordSize - 1)
      BY <1>2, <2>2, Division DEF Wrap, Word, y
    <2> HIDE DEF q
    <2>5. y - WordSize = (WordSize * (q - 1)) + b /\ q - 1 \in Int
      <3>1. WordSize * (q - 1) = (WordSize * q) - WordSize
        BY <2>2, <2>4
      <3>2. QED BY <1>1, <2>2, <2>4, <3>1
    <2>6. ((WordSize * (q - 1)) + b) % WordSize = b
      BY <2>2, <2>4, <2>5, Remainder1
    <2>7. QED BY <2>1, <2>3, <2>5, <2>6 DEF Wrap
  <1>4. CASE ~(d >= WordSize \div 2)
    <2>1. Signed(d) = d /\ a + d = d + a
      BY <1>1, <1>2, <1>4 DEF Signed
    <2>2. QED BY <1>2, <2>1
  <1>5. QED BY <1>3, <1>4

LEMMA Formats ==
  /\ opInstData["LUI"][1] = "U" /\ opInstData["AUIPC"][1] = "U" /\ opInstData["JAL"][1] = "J"
  /\ \A op \in Conditions : opInstData[op][1] = "B"
  BY DEF opInstData, Conditions

LEMMA JumpField ==
  ASSUME NEW instr, instr.opcode \in Jumps, instr.constant \in Reach(instr.opcode), instr.constant % 2 = 0
  PROVE  WordOf(instr).imm = instr.constant
  <1> DEFINE z == instr.constant
             A == 2 ^ ImmBits
             B == 2 ^ (WordBits - ImmBits)
  <1>1. ImmBits \in Int /\ WordBits \in Int
    BY ImmediateAssumption, WidthAssumption DEF WordBits
  <1>2. A \in Nat \ {0} /\ B \in Nat \ {0} /\ 2 ^ (ImmBits + 1) = 2 * A /\ 2 ^ (WordBits - ImmBits + 1) = 2 * B
    BY PowersAssumption
  <1>3. CASE instr.opcode \in Conditions
    <2>1. z \in SignedBits(ImmBits + 1)
      BY <1>3 DEF Reach, Conditions
    <2>2. (ImmBits + 1) - 1 = ImmBits
      BY <1>1
    <2>3. z \in Int
      BY <2>1 DEF SignedBits
    <2>4. WordOf(instr).imm = Even(Cut(z, ImmBits + 1))
      BY <1>3, Formats DEF WordOf, FieldOf
    <2> HIDE DEF z, A, B
    <2>5. Cut(z, ImmBits + 1) = z
      <3> DEFINE n == ImmBits + 1
      <3>1. n \in Int /\ 2 ^ (n - 1) = A /\ 2 ^ n = 2 * A
        BY <1>1, <1>2, <2>2 DEF A
      <3> HIDE DEF n
      <3>2. Cut(z, n) = z
        BY <1>2, <2>1, <3>1, CutKeeps DEF n
      <3>3. QED BY <3>2 DEF n
    <2>6. QED BY <2>3, <2>4, <2>5 DEF Even, z
  <1>4. CASE instr.opcode = "JAL"
    <2>1. z \in SignedBits(WordBits - ImmBits + 1)
      <3>1. Reach("JAL") = SignedBits(WordBits - ImmBits + 1)
        BY DEF Reach, Conditions
      <3>2. QED BY <1>4, <3>1
    <2>2. (WordBits - ImmBits + 1) - 1 = WordBits - ImmBits
      BY <1>1
    <2>3. z \in Int
      BY <2>1 DEF SignedBits
    <2>4. WordOf(instr).imm = Even(Cut(z, WordBits - ImmBits + 1))
      BY <1>4, Formats DEF WordOf, FieldOf
    <2> HIDE DEF z, A, B
    <2>5. Cut(z, WordBits - ImmBits + 1) = z
      <3> DEFINE n == WordBits - ImmBits + 1
      <3>1. n \in Int /\ 2 ^ (n - 1) = B /\ 2 ^ n = 2 * B
        BY <1>1, <1>2, <2>2 DEF B
      <3> HIDE DEF n
      <3>2. Cut(z, n) = z
        BY <1>2, <2>1, <3>1, CutKeeps DEF n
      <3>3. QED BY <3>2 DEF n
    <2>6. QED BY <2>3, <2>4, <2>5 DEF Even, z
  <1>5. QED BY <1>3, <1>4 DEF Jumps

\* The fields of a high and a low part add up.
LEMMA PartsAddUp ==
  ASSUME NEW h, NEW l, NEW z \in Word,
         h.opcode \in {"LUI", "AUIPC"}, h.constant = HI_20(z),
         AddsNothing(l.opcode), opInstData[l.opcode][1] \in {"I", "S"}, l.constant = LO_12(z)
  PROVE  Sum(WordOf(h).imm, WordOf(l).imm) = z
  <1> DEFINE A == 2 ^ ImmBits
             B == 2 ^ (WordBits - ImmBits)
             u == z \div A + Bit(z, ImmBits - 1)
  <1>1. A \in Nat \ {0} /\ B \in Nat \ {0} /\ 2 ^ (ImmBits - 1) \in Nat \ {0} /\ z \in Int
    BY PowersAssumption, AddressIsNumber
  <1>2. HI_20(z) = u % B
    BY DEF HI_20
  <1>3. u \in Int
    <2>1. z \div 2 ^ (ImmBits - 1) \in Int
      BY <1>1
    <2>2. Bit(z, ImmBits - 1) \in Int
      BY <2>1 DEF Bit
    <2> HIDE DEF A
    <2>3. QED BY <1>1, <2>2
  <1>4. WordOf(h).imm = HI_20(z) % B
    BY Formats DEF WordOf, FieldOf
  <1> HIDE DEF u, B
  <1>5. HI_20(z) % B = HI_20(z)
    BY <1>1, <1>2, <1>3, Division, SmallRemainder
  <1>6. LO_12(z) \in Int
    <2> HIDE DEF A
    <2>1. z % A \in Int
      BY <1>1
    <2>2. QED BY <2>1 DEF LO_12, A
  <1>7. WordOf(l).imm = Cut(LO_12(z), ImmBits)
    <2>1. opInstData[l.opcode][4] = 0
      BY DEF AddsNothing
    <2>2. WordOf(l).imm = Cut(l.constant + opInstData[l.opcode][4], ImmBits)
      BY DEF WordOf, FieldOf
    <2>3. QED BY <1>6, <2>1, <2>2
  <1>8. QED BY <1>4, <1>5, <1>7, PartsMakeTheWhole DEF Sum

-----------------------------------------------------------------------------
(* References of the executable *)

\* In the distance between addresses it does not matter where they wrap.
LEMMA DistanceWraps ==
  ASSUME NEW c \in Int, NEW d \in Int
  PROVE  Wrap(c - Wrap(d)) = Wrap(c - d)
  <1> DEFINE w == Wrap(d)
             e == c - d - w
  <1>1. w \in Int
    BY WrapProperties, AddressIsNumber
  <1> HIDE DEF w
  <1>2. e \in Int /\ w + e = c - d /\ d + e = c - w
    BY <1>1
  <1> HIDE DEF e
  <1>3. Wrap(w + e) = Wrap(d + e)
    BY <1>2, WrapProperties DEF w
  <1>4. QED BY <1>2, <1>3 DEF w

\* Every item is laid, one before the other.
LEMMA LoadedItem ==
  ASSUME IInv, phase = "load", NEW s \in Sections, NEW k \in DOMAIN object[s]
  PROVE  /\ object[s][k].address \in Word
         /\ k + 1 \in DOMAIN object[s] =>
              Wrap(object[s][k].address + Extent(object[s][k])) = object[s][k + 1].address
  <1>1. ItemsWellFormed
    BY DEF IInv, Types
  <1>2. Len(object[s]) \in Nat /\ DOMAIN object[s] = 1..Len(object[s])
    BY <1>1, ItemFacts
  <1>3. LaidItem(object[s][k], IF k = Len(object[s]) THEN EndOf(s) ELSE object[s][k + 1].address)
    BY <1>2 DEF IInv, Addressed, Laid
  <1>4. k + 1 \in DOMAIN object[s] => k # Len(object[s])
    BY <1>2
  <1>5. QED BY <1>3, <1>4 DEF LaidItem

LEMMA LoadedPointer ==
  ASSUME IInv, phase = "load", NEW l
  PROVE  Pointer(l) \in Word
  <1>1. CASE IsDeclared(object, l)
    <2> DEFINE s == PlaceOf(object, l)[1]
               k == PlaceOf(object, l)[2]
    <2>1. s \in Sections /\ k \in DOMAIN object[s]
      BY <1>1, DeclaredPlace
    <2>2. object[s][k].address \in Word
      BY <2>1, LoadedItem
    <2>3. QED BY <1>1, <2>2 DEF Pointer, objLabelGetPointer, ItemAt
  <1>2. CASE ~IsDeclared(object, l)
    <2>1. 0 \in Word
      BY Constants1 DEF Word
    <2>2. QED BY <1>2, <2>1 DEF Pointer, objLabelGetPointer
  <1>3. QED BY <1>1, <1>2

\* What is known of an instruction when the executable is loaded
LEMMA LoadedCode ==
  ASSUME References, phase = "load", NEW s \in Sections, NEW k \in DOMAIN object[s], IsCode(object[s][k])
  PROVE  /\ OfMachine(object[s][k].instr)
         /\ object[s][k].word = WordOf(object[s][k].instr)
         /\ object[s][k].word.opcode = object[s][k].instr.opcode
         /\ object[s][k].instr.immMode = "PCREL_LO12_DIRECT" => FollowsItsHighPart(object[s], k)
         /\ Linked(object, object[s][k])
  <1> DEFINE i == object[s][k]
  <1>1. IsInstruction(i)
    BY DEF IsInstruction, IsCode
  <1>2. FinalItem(object[s], k)
    BY DEF References, Finals, AllFinal
  <1>3. Linked(object, i)
    BY <1>1 DEF References, Links
  <1>4. i.word = WordOf(i.instr)
    BY <1>1, <1>2 DEF FinalItem, IsCode
  <1>5. WordOf(i.instr).opcode = i.instr.opcode
    BY DEF WordOf
  <1>6. QED BY <1>1, <1>2, <1>3, <1>4, <1>5 DEF FinalItem

LEMMA JumpsArrive ==
  ASSUME References, phase = "load", NEW s \in Sections, NEW k \in DOMAIN object[s], IsCode(object[s][k]),
         object[s][k].instr.immMode = "LBL", object[s][k].instr.constant % 2 = 0
  PROVE  Target(object[s][k]) = Pointer(object[s][k].instr.label)
  <1> DEFINE i == object[s][k]
             a == i.address
             b == Pointer(i.instr.label)
  <1>1. IInv
    BY DEF References
  <1>2. a \in Word /\ b \in Word
    BY <1>1, LoadedItem, LoadedPointer
  <1>3. i.instr.constant = Signed(Wrap(b - a)) /\ i.instr.constant \in Reach(i.instr.opcode)
    BY LoadedCode DEF Linked, Pointer
  <1>4. i.instr.opcode \in Jumps
    BY LoadedCode DEF OfMachine, TakesWhatFits
  <1>5. i.word.imm = i.instr.constant
    <2>1. WordOf(i.instr).imm = i.instr.constant
      BY <1>3, <1>4, JumpField
    <2>2. QED BY <2>1, LoadedCode
  <1>6. Wrap(a + Signed(Wrap(b - a))) = b
    BY <1>2, DistanceLeads
  <1>7. QED BY <1>3, <1>5, <1>6 DEF Target

\* What the low part of a pair has of the address that the high part is of
LEMMA LowPartFits ==
  ASSUME References, phase = "load", NEW s \in Sections, NEW k \in DOMAIN object[s], IsCode(object[s][k]),
         NEW j \in LowerParts(s, k),
         NEW from, from = IF object[s][k].instr.immMode = "HI20" THEN 0 ELSE object[s][k].address
  PROVE  /\ object[s][k].instr.immMode \in HighModes
         /\ j \in DOMAIN object[s] /\ IsCode(object[s][j])
         /\ object[s][j].instr.immMode \in LowModes
         /\ opInstData[object[s][j].instr.opcode][1] \in {"I", "S"}
         /\ object[s][j].instr.constant = LO_12(Wrap(Pointer(object[s][k].instr.label) - from))
  <1> DEFINE i == object[s][k]
             g == object[s][j]
             b == Pointer(i.instr.label)
  <1>1. IInv
    BY DEF References
  <1>2. i.address \in Word /\ b \in Word /\ b \in Int /\ i.address \in Int
    BY <1>1, LoadedItem, LoadedPointer, AddressIsNumber
  <1>3. j \in DOMAIN object[s] /\ IsCode(g) /\ HasLowPart(g)
    BY DEF LowerParts
  <1>4. opInstData[g.instr.opcode][1] \in {"I", "S"} /\ Linked(object, g)
    BY <1>3, LoadedCode DEF HasLowPart
  <1>5. CASE i.instr.immMode = "HI20" /\ g.instr.immMode = "LO12" /\ g.instr.label = i.instr.label
    <2>1. g.instr.constant = LO_12(b)
      BY <1>4, <1>5 DEF Linked, Pointer
    <2>2. Wrap(b - from) = b
      <3> HIDE DEF b
      <3>1. b - 0 = b /\ from = 0
        BY <1>2, <1>5
      <3>2. QED BY <1>2, <3>1, WrapProperties
    <2>3. QED BY <1>3, <1>4, <1>5, <2>1, <2>2 DEF HighModes, LowModes
  <1>6. CASE i.instr.immMode = "PCREL_HI20" /\ g.instr.immMode = "PCREL_LO12_DIRECT" /\ j = k + 1
    <2>1. FollowsItsHighPart(object[s], j)
      BY <1>3, <1>6, LoadedCode
    <2>2. k \in Nat
      <3>1. ItemsWellFormed
        BY <1>1 DEF IInv, Types
      <3>2. QED BY <3>1, ItemFacts
    <2>3. j - 1 = k
      BY <1>6, <2>2
    <2>4. i.instr.label = g.instr.label /\ Extent(i) = Instruction
      BY <2>1, <2>3 DEF FollowsItsHighPart
    <2>5. Wrap(i.address + Instruction) = g.address
      BY <1>1, <1>3, <1>6, <2>4, LoadedItem
    <2>6. g.instr.constant = LO_12(Wrap(b - (g.address - Instruction)))
      BY <1>4, <1>6, <2>4 DEF Linked, Pointer
    <2>7. Wrap(b - (g.address - Instruction)) = Wrap(b - i.address)
      <3> DEFINE d == i.address + Instruction
                 c == b + Instruction
      <3>1. Instruction \in Int
        BY Constants1
      <3>2. d \in Int /\ c \in Int /\ c - d = b - i.address
        BY <1>2, <3>1
      <3>3. Wrap(c - Wrap(d)) = Wrap(c - d)
        BY <3>2, DistanceWraps
      <3>4. g.address \in Int
        BY <1>1, <1>3, LoadedItem, AddressIsNumber
      <3>5. c - g.address = b - (g.address - Instruction)
        BY <1>2, <3>1, <3>4
      <3>6. QED BY <2>5, <3>2, <3>3, <3>5
    <2>8. from = i.address
      BY <1>6
    <2>9. QED BY <1>3, <1>4, <1>6, <2>6, <2>7, <2>8 DEF HighModes, LowModes
  <1>7. CASE /\ i.instr.immMode = "PCREL_HI20" /\ g.instr.immMode = "PCREL_LO12"
             /\ objLabelGetPointedItem(object, g.instr.label) = <<s, k>>
    <2>1. HighItem(object, g.instr.label) = i
      BY <1>7 DEF HighItem, ItemAt
    <2>2. g.instr.constant = LO_12(Wrap(b - i.address))
      BY <1>4, <1>7, <2>1 DEF Linked, Pointer
    <2>3. from = i.address
      BY <1>7
    <2>4. QED BY <1>3, <1>4, <1>7, <2>2, <2>3 DEF HighModes, LowModes
  <1>8. QED BY <1>5, <1>6, <1>7 DEF LowerParts

LEMMA PartsArrive ==
  ASSUME References, phase = "load", NEW s \in Sections, NEW k \in DOMAIN object[s], IsCode(object[s][k]),
         NEW j \in LowerParts(s, k)
  PROVE  Sum(object[s][k].word.imm, object[s][j].word.imm)
           = Wrap(Pointer(object[s][k].instr.label)
                    - (IF object[s][k].instr.immMode = "HI20" THEN 0 ELSE object[s][k].address))
  <1> DEFINE i == object[s][k]
             g == object[s][j]
             b == Pointer(i.instr.label)
             from == IF i.instr.immMode = "HI20" THEN 0 ELSE i.address
             z == Wrap(b - from)
  <1>1. IInv
    BY DEF References
  <1>2. b \in Int /\ from \in Int
    BY <1>1, LoadedItem, LoadedPointer, AddressIsNumber
  <1>3. z \in Word
    <2> DEFINE y == b - from
    <2>1. y \in Int
      BY <1>2
    <2> HIDE DEF y
    <2>2. Wrap(y) \in Word
      BY <2>1, WrapProperties
    <2>3. QED BY <2>2 DEF y
  <1>4. /\ i.instr.immMode \in HighModes
        /\ j \in DOMAIN object[s] /\ IsCode(g) /\ g.instr.immMode \in LowModes
        /\ opInstData[g.instr.opcode][1] \in {"I", "S"} /\ g.instr.constant = LO_12(z)
    BY LowPartFits
  <1>5. i.instr.opcode \in {"LUI", "AUIPC"} /\ AddsNothing(g.instr.opcode)
    BY <1>4, LoadedCode DEF OfMachine, TakesWhatFits
  <1>6. i.instr.constant = HI_20(z)
    <2>1. CASE i.instr.immMode = "HI20"
      <3>1. b - from = b
        BY <1>2, <2>1
      <3>2. Wrap(b) = b
        BY <1>1, <1>2, LoadedPointer, WrapProperties
      <3>3. i.instr.constant = HI_20(b)
        BY <2>1, LoadedCode DEF Linked, Pointer
      <3>4. QED BY <3>1, <3>2, <3>3
    <2>2. CASE i.instr.immMode = "PCREL_HI20"
      BY <2>2, LoadedCode DEF Linked, Pointer
    <2>3. QED BY <1>4, <2>1, <2>2 DEF HighModes
  <1> HIDE DEF z
  <1>7. Sum(WordOf(i.instr).imm, WordOf(g.instr).imm) = z
    BY <1>3, <1>4, <1>5, <1>6, PartsAddUp
  <1>8. i.word = WordOf(i.instr) /\ g.word = WordOf(g.instr)
    BY <1>4, LoadedCode
  <1>9. QED BY <1>7, <1>8 DEF z

LEMMA ReferencesStart == phase = "expand" /\ LayoutInit /\ ItemsWellFormed /\ ReferencesFit => References
  <1> SUFFICES ASSUME phase = "expand", LayoutInit, ItemsWellFormed, ReferencesFit PROVE References
    OBVIOUS
  <1>1. IInv
    BY InitInvariant
  <1>2. Behind("text") = {} /\ Behind("data") = {}
    BY ItemFacts DEF LayoutInit, Behind, Sections
  <1>3. Finals
    BY <1>2 DEF Finals, ReferencesFit, Sections
  <1>4. NoWords
    BY DEF NoWords, ReferencesFit, ParsedItem
  <1>5. Links
    BY DEF Links
  <1>6. QED BY <1>1, <1>3, <1>4, <1>5 DEF References

LEMMA ReferencesLead == References => ReferencesResolve
  <1> SUFFICES ASSUME References PROVE ReferencesResolve
    OBVIOUS
  <1>1. ASSUME phase = "expand", sec = "text", pos = 1
        PROVE  ReferencesFit
    <2>1. ItemsWellFormed
      BY DEF References, IInv, Types
    <2>2. Behind("text") = {} /\ Behind("data") = {}
      BY <1>1, <2>1, ItemFacts DEF Behind, Sections
    <2>3. QED BY <1>1, <2>2 DEF References, Finals, ReferencesFit, Sections
  <1>2. ASSUME phase = "load", NEW s \in Sections, NEW k \in DOMAIN object[s], IsCode(object[s][k])
        PROVE  /\ object[s][k].instr.immMode = "LBL" /\ object[s][k].instr.constant % 2 = 0
                    => Target(object[s][k]) = Pointer(object[s][k].instr.label)
               /\ \A j \in LowerParts(s, k) :
                    Sum(object[s][k].word.imm, object[s][j].word.imm)
                      = Wrap(Pointer(object[s][k].instr.label)
                               - (IF object[s][k].instr.immMode = "HI20" THEN 0 ELSE object[s][k].address))
    BY <1>2, JumpsArrive, PartsArrive
  <1>3. QED BY <1>1, <1>2 DEF ReferencesResolve

\* Whatever is assembled, jumps lead to their labels, and the high and low parts of an
\* address add up to it.
THEOREM ReferencesCorrect == LayoutSpec => []ReferencesResolve
  <1>1. QED BY ReferencesStart, ReferencesLead, ReferencesStep, PTL DEF LayoutSpec
===============================================================================
