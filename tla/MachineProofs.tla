----------------------------- MODULE MachineProofs -----------------------------
(***************************************************************************)
(* The simulator is a RISC-V processor to the program it runs, for every   *)
(* program, and its debugger stops where the user asked.                   *)
(***************************************************************************)
EXTENDS Machine, TLAPS

\* The lemmas about lists of areas
M == INSTANCE MemoryProofs WITH Ranges <- {}, Addresses <- {}, Values <- {}, returned <- <<>>

-----------------------------------------------------------------------------
(* The words of Memory and of Hart are those of Machine. *)

LEMMA WordsOfMemory ==
  /\ M!Word = Word /\ M!Byte = Byte /\ M!AccessSizes = AccessSizes
  /\ M!ByteSize = ByteSize /\ M!WordSize = WordSize
  /\ \A x : M!Wrap(x) = Wrap(x)
  /\ \A a, n : M!Span(a, n) = Span(a, n)
  /\ \A v, k : M!ByteOf(v, k) = ByteOf(v, k)
  <1>1. M!ByteSize = ByteSize /\ M!WordSize = WordSize
    BY DEF M!ByteSize, ByteSize, M!WordSize, WordSize
  <1> QED  BY <1>1 DEF M!Word, Word, M!Byte, Byte, M!AccessSizes, AccessSizes, M!Wrap, Wrap,
                 M!Span, Span, M!ByteOf, ByteOf

LEMMA MemoryAssumptions ==
  /\ M!WidthAssumption
  /\ M!PowersOfTwo /\ M!PowersMultiply
  /\ M!MemoryAssumption
  BY WordsOfMemory, WidthAssumption, PowersOfTwo, PowersMultiply
     DEF M!WidthAssumption, M!PowersOfTwo, M!PowersMultiply, M!MemoryAssumption

LEMMA AreasOfMemory ==
  /\ \A area : M!memAreaEnd(area) = memAreaEnd(area) /\ M!AreaSpan(area) = AreaSpan(area)
  /\ \A areas, a, n : M!memFindArea(areas, a, n) = memFindArea(areas, a, n)
  /\ \A area, a, n : M!BytesRead(area, a, n) = BytesRead(area, a, n)
  /\ \A area, a, n, v : M!BytesWritten(area, a, n, v) = BytesWritten(area, a, n, v)
  /\ \A areas, a, n : M!AreaPlace(areas, a, n) = AreaPlace(areas, a, n)
  /\ \A areas, a, n : M!ExtentMapped(areas, a, n) = ExtentMapped(areas, a, n)
  /\ \A areas, a, n : M!memMapArea(areas, a, n) = memMapArea(areas, a, n)
  /\ \A areas : M!RegionsOf(areas) = RegionsOf(areas) /\ M!MemOf(areas) = MemOf(areas)
  <1>1. \A S : M!Min(S) = Min(S)
    BY DEF M!Min, Min
  <1>2. \A q, i, e : M!InsertAt(q, i, e) = InsertAt(q, i, e)
    BY DEF M!InsertAt, InsertAt
  <1>3. \A area : M!memAreaEnd(area) = memAreaEnd(area) /\ M!AreaSpan(area) = AreaSpan(area)
    BY WordsOfMemory DEF M!memAreaEnd, memAreaEnd, M!AreaSpan, AreaSpan
  <1>4. \A areas, a, n : M!memFindArea(areas, a, n) = memFindArea(areas, a, n)
    BY <1>1, <1>3, WordsOfMemory DEF M!memFindArea, memFindArea
  <1>5. \A area, a, n : M!BytesRead(area, a, n) = BytesRead(area, a, n)
    BY WordsOfMemory DEF M!BytesRead, BytesRead
  <1>6. \A area, a, n, v : M!BytesWritten(area, a, n, v) = BytesWritten(area, a, n, v)
    BY WordsOfMemory DEF M!BytesWritten, BytesWritten
  <1>7. \A areas, a, n : M!AreaPlace(areas, a, n) = AreaPlace(areas, a, n)
    BY <1>1, WordsOfMemory DEF M!AreaPlace, AreaPlace
  <1>8. \A areas, a, n : M!ExtentMapped(areas, a, n) = ExtentMapped(areas, a, n)
    BY <1>3, <1>7 DEF M!ExtentMapped, ExtentMapped
  <1>9. \A a, n : M!NewArea(a, n) = NewArea(a, n)
    BY DEF M!NewArea, NewArea
  <1>10. \A areas, a, n : M!memMapArea(areas, a, n) = memMapArea(areas, a, n)
    BY <1>2, <1>7, <1>8, <1>9 DEF M!memMapArea, memMapArea
  <1>11. \A areas : M!RegionsOf(areas) = RegionsOf(areas)
    BY <1>3 DEF M!RegionsOf, RegionsOf
  <1>12. \A areas : M!MemOf(areas) = MemOf(areas)
    <2> SUFFICES ASSUME NEW areas PROVE M!MemOf(areas) = MemOf(areas)
      OBVIOUS
    <2> DEFINE f(a) == CHOOSE i \in DOMAIN areas : a \in M!AreaSpan(areas[i])
               g(a) == CHOOSE i \in DOMAIN areas : a \in AreaSpan(areas[i])
    <2>1. ASSUME NEW a PROVE f(a) = g(a)
      BY <1>3
    <2>2. M!MemOf(areas) = [a \in UNION M!RegionsOf(areas) |->
                              areas[f(a)].buffer[a - areas[f(a)].baseAddress]]
      BY DEF M!MemOf
    <2>3. MemOf(areas) = [a \in UNION RegionsOf(areas) |->
                            areas[g(a)].buffer[a - areas[g(a)].baseAddress]]
      BY DEF MemOf
    <2> HIDE DEF f, g
    <2> QED  BY <1>11, <2>1, <2>2, <2>3
  <1> QED  BY <1>3, <1>4, <1>5, <1>6, <1>7, <1>8, <1>10, <1>11, <1>12

LEMMA AccessesOfMemory ==
  /\ \A r, a, n : M!Accessible(r, a, n) = Accessible(r, a, n)
  /\ \A m, a, n : M!Value(m, a, n) = Value(m, a, n)
  /\ \A m, a, n, v : M!Stored(m, a, n, v) = Stored(m, a, n, v)
  /\ \A m, r : M!Cleared(m, r) = Cleared(m, r)
  BY WordsOfMemory DEF M!Accessible, Accessible, M!Value, Value, M!Stored, Stored, M!Cleared, Cleared

LEMMA WordsOfHart ==
  /\ Abstract!AccessSizes = AccessSizes /\ \A x : Abstract!Wrap(x) = Wrap(x)
  /\ \A a, n : Abstract!Span(a, n) = Span(a, n)
  /\ \A r, a, n : Abstract!Accessible(r, a, n) = Accessible(r, a, n)
  /\ \A m, a, n : Abstract!Value(m, a, n) = Value(m, a, n)
  /\ \A m, a, n, v : Abstract!Stored(m, a, n, v) = Stored(m, a, n, v)
  /\ \A m, r : Abstract!Cleared(m, r) = Cleared(m, r)
  /\ Abstract!ByteSize = ByteSize
  <1>1. Abstract!ByteSize = ByteSize /\ Abstract!WordSize = WordSize
    BY DEF Abstract!ByteSize, ByteSize, Abstract!WordSize, WordSize
  <1>2. /\ Abstract!AccessSizes = AccessSizes /\ \A x : Abstract!Wrap(x) = Wrap(x)
        /\ \A a, n : Abstract!Span(a, n) = Span(a, n)
        /\ \A v, k : Abstract!ByteOf(v, k) = ByteOf(v, k)
    BY <1>1 DEF Abstract!AccessSizes, AccessSizes, Abstract!Wrap, Wrap, Abstract!Span, Span,
                Abstract!ByteOf, ByteOf
  <1> QED  BY <1>1, <1>2 DEF Abstract!Accessible, Accessible, Abstract!Value, Value,
                 Abstract!Stored, Stored, Abstract!Cleared, Cleared

-----------------------------------------------------------------------------
(* Memory *)

\* An access finds an area when the flat memory allows it, and then does to it what it
\* does to the flat memory.
LEMMA Access ==
  ASSUME NEW areas, M!Listed(areas), NEW addr \in Word, NEW n \in AccessSizes
  PROVE  LET i == memFindArea(areas, addr, n)
             written(v) == [areas EXCEPT ![i] = BytesWritten(@, addr, n, v)]
         IN /\ i # 0 <=> Accessible(RegionsOf(areas), addr, n)
            /\ i # 0 => BytesRead(areas[i], addr, n) = Value(MemOf(areas), addr, n)
            /\ i # 0 => \A v \in Word : /\ M!Listed(written(v))
                                        /\ RegionsOf(written(v)) = RegionsOf(areas)
                                        /\ MemOf(written(v)) = Stored(MemOf(areas), addr, n, v)
  <1> DEFINE i == memFindArea(areas, addr, n)
  <1>1. addr \in M!Word /\ n \in M!AccessSizes
    BY WordsOfMemory
  <1>2. /\ i # 0 <=> Accessible(RegionsOf(areas), addr, n)
        /\ i # 0 => i \in DOMAIN areas /\ Span(addr, n) \subseteq AreaSpan(areas[i])
    <2>1. LET j == M!memFindArea(areas, addr, n)
          IN /\ j # 0 <=> M!Accessible(M!RegionsOf(areas), addr, n)
             /\ j # 0 => j \in DOMAIN areas /\ M!Span(addr, n) \subseteq M!AreaSpan(areas[j])
      BY <1>1, M!Lookup, MemoryAssumptions
    <2> QED  BY <2>1, WordsOfMemory, AreasOfMemory, AccessesOfMemory
  <1> HIDE DEF i
  <1>3. ASSUME i # 0
        PROVE  BytesRead(areas[i], addr, n) = Value(MemOf(areas), addr, n)
    <2>1. M!Span(addr, n) \subseteq M!AreaSpan(areas[i])
      BY <1>2, <1>3, WordsOfMemory, AreasOfMemory
    <2>2. M!BytesRead(areas[i], addr, n) = M!Value(M!MemOf(areas), addr, n)
      BY <1>1, <1>2, <1>3, <2>1, M!BytesReadAreValue, MemoryAssumptions
    <2> QED  BY <2>2, AreasOfMemory, AccessesOfMemory
  <1>4. ASSUME i # 0, NEW v \in Word
        PROVE  LET new == [areas EXCEPT ![i] = BytesWritten(@, addr, n, v)]
               IN /\ M!Listed(new)
                  /\ RegionsOf(new) = RegionsOf(areas)
                  /\ MemOf(new) = Stored(MemOf(areas), addr, n, v)
    <2>1. M!Span(addr, n) \subseteq M!AreaSpan(areas[i]) /\ v \in M!Word
      BY <1>2, <1>4, WordsOfMemory, AreasOfMemory
    <2> DEFINE new == [k \in DOMAIN areas |-> IF k = i THEN M!BytesWritten(areas[k], addr, n, v) ELSE areas[k]]
    <2>2. i \in DOMAIN areas
      BY <1>2, <1>4
    <2>3. /\ M!Listed(new)
          /\ M!RegionsOf(new) = M!RegionsOf(areas)
          /\ M!MemOf(new) = M!Stored(M!MemOf(areas), addr, n, v)
      <3> HIDE DEF new
      <3> QED  BY <1>1, <2>1, <2>2, M!WrittenList, MemoryAssumptions DEF new
    <2>4. new = [areas EXCEPT ![i] = BytesWritten(@, addr, n, v)]
      BY AreasOfMemory DEF M!Listed
    <2> HIDE DEF new
    <2> QED  BY <2>3, <2>4, AreasOfMemory, AccessesOfMemory
  <1> QED  BY <1>2, <1>3, <1>4 DEF i

\* Mapping a range adds a region of zeros, or nothing when a byte of it is mapped.
LEMMA Mapping ==
  ASSUME NEW areas, M!Listed(areas), NEW base \in Nat, NEW extent \in Nat \ {0},
         base + extent + WordBytes <= WordSize
  PROVE  LET new == memMapArea(areas, base, extent)
         IN IF Span(base, extent) \intersect UNION RegionsOf(areas) = {}
              THEN /\ M!Listed(new) /\ ~ExtentMapped(areas, base, extent)
                   /\ RegionsOf(new) = RegionsOf(areas) \union {Span(base, extent)}
                   /\ MemOf(new) = Cleared(MemOf(areas), Span(base, extent))
              ELSE new = areas
  <1>1. base + extent + WordBytes <= M!WordSize
    BY WordsOfMemory
  <1>2. CASE ~ExtentMapped(areas, base, extent)
    <2>1. ~M!ExtentMapped(areas, base, extent)
      BY <1>2, AreasOfMemory
    <2>2. /\ M!Listed(M!memMapArea(areas, base, extent))
          /\ M!Span(base, extent) \intersect UNION M!RegionsOf(areas) = {}
          /\ M!RegionsOf(M!memMapArea(areas, base, extent)) = M!RegionsOf(areas) \union {M!Span(base, extent)}
          /\ M!MemOf(M!memMapArea(areas, base, extent)) = M!Cleared(M!MemOf(areas), M!Span(base, extent))
      BY <1>1, <2>1, M!Mapped, MemoryAssumptions
    <2> QED  BY <1>2, <2>2, WordsOfMemory, AreasOfMemory, AccessesOfMemory
  <1>3. CASE ExtentMapped(areas, base, extent)
    <2>1. M!ExtentMapped(areas, base, extent)
      BY <1>3, AreasOfMemory
    <2>2. M!Span(base, extent) \intersect UNION M!RegionsOf(areas) # {}
      BY <1>1, <2>1, M!Refused, MemoryAssumptions
    <2> QED  BY <1>3, <2>2, WordsOfMemory, AreasOfMemory DEF memMapArea
  <1> QED  BY <1>2, <1>3

\* A list of areas and its bytes
LEMMA AreaHere ==
  ASSUME NEW areas, M!Listed(areas), NEW i \in DOMAIN areas
  PROVE  /\ areas[i] \in [baseAddress : Word, extent : Nat \ {0}, buffer : [0..(areas[i].extent - 1) -> Byte]]
         /\ areas[i].baseAddress \in Nat
         /\ areas[i].baseAddress + areas[i].extent + WordBytes <= WordSize
         /\ AreaSpan(areas[i]) = areas[i].baseAddress..(areas[i].baseAddress + areas[i].extent - 1)
  <1>1. M!WellFormedArea(areas[i])
    BY DEF M!Listed
  <1> QED  BY <1>1, M!AreaFacts, MemoryAssumptions, WordsOfMemory, AreasOfMemory DEF M!WellFormedArea

LEMMA BytesHere ==
  ASSUME NEW areas, M!Listed(areas)
  PROVE  /\ DOMAIN MemOf(areas) = UNION RegionsOf(areas)
         /\ \A a : a \in UNION RegionsOf(areas) <=> \E i \in DOMAIN areas : a \in AreaSpan(areas[i])
         /\ \A i \in DOMAIN areas : \A a \in AreaSpan(areas[i]) :
               MemOf(areas)[a] = areas[i].buffer[a - areas[i].baseAddress]
  <1>1. /\ DOMAIN M!MemOf(areas) = UNION M!RegionsOf(areas)
        /\ \A a : a \in UNION M!RegionsOf(areas) <=> \E i \in DOMAIN areas : a \in M!AreaSpan(areas[i])
        /\ \A i \in DOMAIN areas : \A a \in M!AreaSpan(areas[i]) :
            M!MemOf(areas)[a] = areas[i].buffer[a - areas[i].baseAddress]
    BY M!FlatBytes, MemoryAssumptions
  <1> QED  BY <1>1, AreasOfMemory

LEMMA MemoryOfBytes ==
  ASSUME NEW areas, M!Listed(areas)
  PROVE  MemOf(areas) \in [UNION RegionsOf(areas) -> Byte]
  <1>1. ASSUME NEW i \in DOMAIN areas, NEW a \in AreaSpan(areas[i])
        PROVE  MemOf(areas)[a] \in Byte
    <2>1. a - areas[i].baseAddress \in 0..(areas[i].extent - 1)
      BY AreaHere
    <2>2. MemOf(areas)[a] = areas[i].buffer[a - areas[i].baseAddress]
      BY BytesHere
    <2>3. areas[i].buffer \in [0..(areas[i].extent - 1) -> Byte]
      BY AreaHere
    <2> QED  BY <2>1, <2>2, <2>3
  <1> QED  BY <1>1, BytesHere DEF MemOf

\* Numbers of n bytes fit in n bytes.
LEMMA ValueBound ==
  ASSUME NEW areas, M!Listed(areas), NEW addr \in Word, NEW n \in AccessSizes,
         Accessible(RegionsOf(areas), addr, n)
  PROVE  Value(MemOf(areas), addr, n) \in 0..(ByteSize ^ n - 1)
  <1> DEFINE m == MemOf(areas)
  <1>1. /\ addr \in Nat /\ n \in {1, 2, 4}
        /\ ByteSize \in Nat \ {0}
    BY PowersOfTwo DEF Word, AccessSizes
  <1>2. \A k \in 0..(n - 1) : m[addr + k] \in 0..(ByteSize - 1)
    <2>1. \A k \in 0..(n - 1) : addr + k \in Span(addr, n)
      BY <1>1 DEF Span
    <2>2. Span(addr, n) \subseteq UNION RegionsOf(areas)
      BY DEF Accessible
    <2> QED  BY <2>1, <2>2, MemoryOfBytes DEF Byte
  <1> DEFINE B == ByteSize
             b1 == ByteSize ^ 1
             b2 == ByteSize ^ 2
             b3 == ByteSize ^ 3
             b4 == ByteSize ^ 4
             x0 == m[addr]
             x1 == m[addr + 1]
             x2 == m[addr + 2]
             x3 == m[addr + 3]
  <1>3. ByteSize ^ 0 = 1 /\ b1 = B /\ b2 = b1 * B /\ b3 = b2 * B /\ b4 = b3 * B
    <2>1. \A k \in 0..3 : ByteSize ^ (k + 1) = ByteSize ^ k * ByteSize
      BY PowersMultiply
    <2>2. /\ ByteSize ^ (0 + 1) = ByteSize ^ 0 * ByteSize /\ ByteSize ^ (1 + 1) = ByteSize ^ 1 * ByteSize
          /\ ByteSize ^ (2 + 1) = ByteSize ^ 2 * ByteSize /\ ByteSize ^ (3 + 1) = ByteSize ^ 3 * ByteSize
      BY <2>1
    <2>3. ByteSize ^ 0 = 1 /\ 1 * ByteSize = ByteSize
      BY PowersOfTwo, PowersMultiply
    <2> QED  BY <2>2, <2>3
  <1>4. b1 \in Nat \ {0} /\ b2 \in Nat \ {0} /\ b3 \in Nat \ {0}
    BY PowersOfTwo
  <1>5. Value(m, addr, n) = (IF 0 < n THEN m[addr + 0] * ByteSize ^ 0 ELSE 0)
                          + (IF 1 < n THEN x1 * b1 ELSE 0)
                          + (IF 2 < n THEN x2 * b2 ELSE 0)
                          + (IF 3 < n THEN x3 * b3 ELSE 0)
    BY DEF Value
  <1>6. addr + 0 = addr /\ (0 < n => x0 \in 0..(B - 1)) /\ (1 < n => x1 \in 0..(B - 1))
        /\ (2 < n => x2 \in 0..(B - 1)) /\ (3 < n => x3 \in 0..(B - 1))
    BY <1>1, <1>2
  <1> HIDE DEF m, B, b1, b2, b3, b4, x0, x1, x2, x3
  <1>7. CASE n = 1
    BY <1>1, <1>3, <1>5, <1>6, <1>7 DEF m, B, b1, x0
  <1>8. \A y \in 0..(B - 1), d \in Nat : 0 <= y * d /\ y * d <= (B - 1) * d /\ (B - 1) * d = B * d - d
                                       /\ y * d \in Int /\ (B - 1) * d \in Int
    BY <1>1 DEF B
  <1>9. CASE n = 2
    <2>1. Value(m, addr, n) = x0 * 1 + x1 * b1
      BY <1>1, <1>3, <1>4, <1>5, <1>6, <1>9 DEF B, m, x0
    <2> QED  BY <1>1, <1>3, <1>4, <1>6, <1>8, <1>9, <2>1 DEF m, B, b1, b2
  <1>10. CASE n = 4
    <2>1. Value(m, addr, n) = x0 * 1 + x1 * b1 + x2 * b2 + x3 * b3
      BY <1>1, <1>3, <1>4, <1>5, <1>6, <1>10 DEF B, m, x0
    <2> QED  BY <1>1, <1>3, <1>4, <1>6, <1>8, <1>10, <2>1 DEF m, B, b1, b2, b3, b4
  <1> QED  BY <1>1, <1>7, <1>9, <1>10

\* What a register or the program counter is made of
LEMMA WrapIsWord ==
  ASSUME NEW x \in Int
  PROVE  Wrap(x) \in Word
  BY PowersOfTwo DEF Wrap, Word

LEMMA Extension ==
  ASSUME NEW n \in AccessSizes, NEW v \in 0..(ByteSize ^ n - 1)
  PROVE  /\ SignExtended(v, n) = Abstract!Extended(v, n, TRUE)
         /\ SignExtended(v, n) \in Word
         /\ v = Abstract!Extended(v, n, FALSE) /\ v \in Word
  <1> DEFINE p == ByteSize ^ n
             h == p \div 2
  <1>1. n \in 1..4 /\ n <= WordBytes
    BY WidthAssumption DEF AccessSizes
  <1>2. p \in Nat \ {0}
    <2>1. CASE n \in 1..3
      BY <2>1, PowersOfTwo
    <2>2. CASE n = 4
      <3>1. ByteSize ^ (3 + 1) = ByteSize ^ 3 * ByteSize
        BY PowersMultiply
      <3>2. ByteSize ^ 3 \in Nat \ {0} /\ ByteSize \in Nat \ {0}
        BY PowersOfTwo
      <3>3. \A x, y \in Nat \ {0} : x * y \in Nat \ {0}
        OBVIOUS
      <3> QED  BY <2>2, <3>1, <3>2, <3>3
    <2> QED  BY <1>1, <2>1, <2>2
  <1>3. 2 * h = p /\ p <= WordSize
    BY <1>1, PowersMultiply
  <1>4. v \in Nat /\ v < p /\ WordSize \in Nat \ {0}
    BY <1>2, PowersOfTwo
  <1>5. Abstract!Extended(v, n, TRUE) = (IF v >= h THEN Wrap(v - p) ELSE v)
        /\ Abstract!Extended(v, n, FALSE) = v
    BY WordsOfHart DEF Abstract!Extended
  <1>6. SignExtended(v, n) = IF v \div h = 1 THEN Wrap(v - p) ELSE v
    BY DEF SignExtended
  <1>7. v - p \in Int
    BY <1>2, <1>4
  <1> HIDE DEF p, h
  <1>8. h \in Nat \ {0}
    <2>1. h \in Int
      BY <1>2 DEF h
    <2> QED  BY <1>2, <1>3, <2>1
  <1>9. v \div h = 1 <=> v >= h
    <2> DEFINE d == v \div h
               r == v % h
    <2>1. v = (h * d) + r /\ r \in 0..(h - 1) /\ d \in Int
      BY <1>4, <1>8
    <2> HIDE DEF d, r
    <2>2. d >= 2 => h * d >= 2 * h
      BY <1>8, <2>1
    <2>3. d <= 0 => h * d <= 0
      BY <1>8, <2>1
    <2>4. d = 1 => h * d = h
      BY <1>8
    <2> QED  BY <1>3, <1>4, <1>8, <2>1, <2>2, <2>3, <2>4 DEF d
  <1>10. v \in Word
    BY <1>2, <1>3, <1>4 DEF Word
  <1>11. Wrap(v - p) \in Word
    BY <1>7, WrapIsWord
  <1> QED  BY <1>5, <1>6, <1>9, <1>10, <1>11

-----------------------------------------------------------------------------
(* The next instruction, and the access memory refuses it *)

InstrAt(areas, pc) == Decode(Value(MemOf(areas), pc, WordBytes))
AddrOf(i, regs) == Wrap(regs[i.rs1] + i.imm)

RefusedAt(areas, pc, regs) ==
  LET i == InstrAt(areas, pc)
  IN IF Accessible(RegionsOf(areas), pc, WordBytes)
       THEN IF i.op \in {"LOAD", "STORE"} /\ ~Accessible(RegionsOf(areas), AddrOf(i, regs), i.size)
              THEN {AddrOf(i, regs)} ELSE {}
       ELSE {pc}

LEMMA RefusedIsRefused ==
  /\ Abstract!Refused = RefusedAt(memAreas, cpuPC, cpuRegs)
  /\ Abstract!instr = InstrAt(memAreas, cpuPC)
  /\ \A i : Abstract!DataAddr(i) = AddrOf(i, cpuRegs)
  <1>1. Abstract!instr = InstrAt(memAreas, cpuPC) /\ \A i : Abstract!DataAddr(i) = AddrOf(i, cpuRegs)
    BY WordsOfHart DEF Abstract!instr, InstrAt, Abstract!DataAddr, AddrOf
  <1>2. Abstract!Fetched <=> Accessible(RegionsOf(memAreas), cpuPC, WordBytes)
    BY WordsOfHart DEF Abstract!Fetched
  <1>3. {Abstract!DataAddr(i) : i \in {j \in {Abstract!instr} :
           j.op \in {"LOAD", "STORE"} /\ ~Abstract!Accessible(RegionsOf(memAreas), Abstract!DataAddr(j), j.size)}}
        = LET i == InstrAt(memAreas, cpuPC)
          IN IF i.op \in {"LOAD", "STORE"} /\ ~Accessible(RegionsOf(memAreas), AddrOf(i, cpuRegs), i.size)
               THEN {AddrOf(i, cpuRegs)} ELSE {}
    BY <1>1, WordsOfHart
  <1> QED  BY <1>1, <1>2, <1>3 DEF Abstract!Refused, RefusedAt

\* Instructions are words, and what they compute are words.
LEMMA InstrTyped ==
  ASSUME NEW areas, M!Listed(areas), NEW pc \in Word, NEW regs \in [Registers -> Word],
         Accessible(RegionsOf(areas), pc, WordBytes)
  PROVE  /\ Value(MemOf(areas), pc, WordBytes) \in Word
         /\ InstrAt(areas, pc) \in Decoded
         /\ AddrOf(InstrAt(areas, pc), regs) \in Word
  <1>1. WordBytes \in AccessSizes /\ WordBytes \in 1..4
    BY MachineAssumption, WidthAssumption DEF AccessSizes
  <1>2. Value(MemOf(areas), pc, WordBytes) \in 0..(ByteSize ^ WordBytes - 1)
    BY <1>1, ValueBound
  <1>3. Value(MemOf(areas), pc, WordBytes) \in Word
    BY <1>1, <1>2, Extension
  <1>4. InstrAt(areas, pc) \in Decoded
    BY <1>3, MachineAssumption DEF InstrAt
  <1>5. regs[InstrAt(areas, pc).rs1] \in Word /\ InstrAt(areas, pc).imm \in Word
    BY <1>4 DEF Decoded
  <1>6. AddrOf(InstrAt(areas, pc), regs) \in Word
    BY <1>5, WrapIsWord DEF AddrOf, Word
  <1> QED  BY <1>3, <1>4, <1>6

-----------------------------------------------------------------------------
(* One turn of the processor *)

\* What the processor and the memory hold
HardwareTyped ==
  /\ M!Listed(memAreas) /\ memLastFaultAddress \in Word
  /\ cpuRegs \in [Registers -> Word] /\ cpuRegs[ZERO] = 0 /\ cpuPC \in Word

TurnFaults ==
  /\ lastStatus' = "MEMORY_FAULT" /\ memLastFaultAddress' \in Word
  /\ RefusedAt(memAreas, cpuPC, cpuRegs) = {memLastFaultAddress'}
  /\ UNCHANGED <<memAreas, cpuRegs, cpuPC>>

TurnTraps ==
  /\ RefusedAt(memAreas, cpuPC, cpuRegs) = {}
  /\ \/ lastStatus' = "ECALL_TRAP" /\ InstrAt(memAreas, cpuPC).op = "ECALL"
     \/ lastStatus' = "EBREAK_TRAP" /\ InstrAt(memAreas, cpuPC).op = "EBREAK"
     \/ lastStatus' = "ILL_INST_FAULT" /\ InstrAt(memAreas, cpuPC).op = "ILLEGAL"
  /\ UNCHANGED <<memV, cpuRegs, cpuPC>>

TurnCompletes ==
  /\ lastStatus' = "OK" /\ UNCHANGED memLastFaultAddress
  /\ RefusedAt(memAreas, cpuPC, cpuRegs) = {}
  /\ HardwareTyped' /\ RegionsOf(memAreas)' = RegionsOf(memAreas)

\* What an instruction does to registers, memory and program counter
Effect(i) ==
  /\ RegionsOf(memAreas)' = RegionsOf(memAreas)
  /\ \/ /\ i.op = "ADDI"
        /\ cpuRegs' = [cpuRegs EXCEPT ![i.rd] = IF i.rd = ZERO THEN 0 ELSE AddrOf(i, cpuRegs)]
        /\ cpuPC' = Wrap(cpuPC + WordBytes) /\ MemOf(memAreas)' = MemOf(memAreas)
     \/ /\ i.op = "LOAD"
        /\ cpuRegs' = [cpuRegs EXCEPT ![i.rd] = IF i.rd = ZERO THEN 0
                         ELSE Abstract!Extended(Value(MemOf(memAreas), AddrOf(i, cpuRegs), i.size), i.size, i.signed)]
        /\ cpuPC' = Wrap(cpuPC + WordBytes) /\ MemOf(memAreas)' = MemOf(memAreas)
     \/ /\ i.op = "STORE"
        /\ MemOf(memAreas)' = Stored(MemOf(memAreas), AddrOf(i, cpuRegs), i.size, cpuRegs[i.rs2])
        /\ cpuPC' = Wrap(cpuPC + WordBytes) /\ cpuRegs' = cpuRegs
     \/ /\ i.op = "BEQ"
        /\ cpuPC' = Wrap(cpuPC + (IF cpuRegs[i.rs1] = cpuRegs[i.rs2] THEN i.imm ELSE WordBytes))
        /\ cpuRegs' = cpuRegs /\ MemOf(memAreas)' = MemOf(memAreas)
     \/ /\ i.op = "JAL"
        /\ cpuPC' = Wrap(cpuPC + i.imm)
        /\ cpuRegs' = [cpuRegs EXCEPT ![i.rd] = IF i.rd = ZERO THEN 0 ELSE Wrap(cpuPC + WordBytes)]
        /\ MemOf(memAreas)' = MemOf(memAreas)
     \/ /\ i.op = "JALR"
        /\ i.rd # i.rs1 => cpuPC' = AddrOf(i, cpuRegs) - (AddrOf(i, cpuRegs) % 2)
        /\ cpuRegs' = [cpuRegs EXCEPT ![i.rd] = IF i.rd = ZERO THEN 0 ELSE Wrap(cpuPC + WordBytes)]
        /\ MemOf(memAreas)' = MemOf(memAreas)

\* Every register file has an x0.
LEMMA ZeroRegister == ZERO \in Registers /\ A0 \in Registers /\ A0 # ZERO /\ 0 \in Word
  BY MachineAssumption, PowersOfTwo DEF Word, ZERO, A0

LEMMA Turn ==
  ASSUME HardwareTyped, lastStatus = "OK", cpuTick
  PROVE  TurnFaults \/ TurnTraps \/ (TurnCompletes /\ Effect(InstrAt(memAreas, cpuPC)))
  <1> USE DEF HardwareTyped
  <1>1. WordBytes \in AccessSizes /\ WordBytes \in Nat
    BY MachineAssumption, WidthAssumption
  <1>2. PICK area \in AreaAt(cpuPC, WordBytes) :
          IF area = 0 THEN Faults(cpuPC)
          ELSE \E i \in {Decode(BytesRead(memAreas[area], cpuPC, WordBytes))} : cpuExecute(i)
    BY DEF cpuTick
  <1>3. area = memFindArea(memAreas, cpuPC, WordBytes)
    BY <1>2 DEF AreaAt
  <1>4. CASE area = 0
    <2>1. ~Accessible(RegionsOf(memAreas), cpuPC, WordBytes)
      BY <1>1, <1>3, <1>4, Access
    <2>2. RefusedAt(memAreas, cpuPC, cpuRegs) = {cpuPC}
      BY <2>1 DEF RefusedAt
    <2> QED  BY <1>2, <1>4, <2>2 DEF Faults, Stops, TurnFaults
  <1>5. CASE area # 0
    <2> DEFINE i == InstrAt(memAreas, cpuPC)
               addr == AddrOf(i, cpuRegs)
    <2>1. Accessible(RegionsOf(memAreas), cpuPC, WordBytes)
      BY <1>1, <1>3, <1>5, Access
    <2>2. i = Decode(BytesRead(memAreas[area], cpuPC, WordBytes))
      BY <1>1, <1>3, <1>5, Access DEF InstrAt
    <2>3. cpuExecute(i)
      BY <1>2, <1>5, <2>2
    <2>4. i \in Decoded /\ addr \in Word
      BY <2>1, InstrTyped
    <2>5. RefusedAt(memAreas, cpuPC, cpuRegs) =
            IF i.op \in {"LOAD", "STORE"} /\ ~Accessible(RegionsOf(memAreas), addr, i.size) THEN {addr} ELSE {}
      BY <2>1 DEF RefusedAt
    <2>6. /\ i.rd \in Registers /\ i.rs1 \in Registers /\ i.rs2 \in Registers /\ i.imm \in Word
          /\ i.size \in AccessSizes /\ i.signed \in BOOLEAN
          /\ cpuRegs[i.rs1] \in Word /\ cpuRegs[i.rs2] \in Word
      BY <2>4 DEF Decoded
    <2>7. DataAddr(i) = addr
      BY DEF DataAddr, AddrOf
    <2>8. Wrap(cpuPC + WordBytes) \in Word /\ Wrap(cpuPC + i.imm) \in Word
      BY <1>1, <2>6, WrapIsWord DEF Word
    <2> HIDE DEF i, addr
    <2>9. CASE i.op = "LOAD"
      <3>1. PICK data \in AreaAt(addr, i.size) :
              IF data = 0 THEN Faults(addr)
              ELSE \E in \in {BytesRead(memAreas[data], addr, i.size)} :
                     /\ Completes([cpuRegs EXCEPT ![i.rd] = IF i.signed THEN SignExtended(in, i.size) ELSE in],
                                  cpuPC + WordBytes)
                     /\ UNCHANGED memV
        BY <2>3, <2>7, <2>9 DEF cpuExecute, cpuExecuteLOAD
      <3>2. data = memFindArea(memAreas, addr, i.size)
        BY <3>1 DEF AreaAt
      <3>3. CASE data = 0
        <4>1. ~Accessible(RegionsOf(memAreas), addr, i.size)
          BY <2>4, <2>6, <3>2, <3>3, Access
        <4> QED  BY <2>4, <2>5, <2>9, <3>1, <3>3, <4>1 DEF Faults, Stops, TurnFaults
      <3>4. CASE data # 0
        <4> DEFINE in == Value(MemOf(memAreas), addr, i.size)
                   v == IF i.signed THEN SignExtended(in, i.size) ELSE in
        <4>1. Accessible(RegionsOf(memAreas), addr, i.size) /\ BytesRead(memAreas[data], addr, i.size) = in
          BY <2>4, <2>6, <3>2, <3>4, Access
        <4>2. in \in 0..(ByteSize ^ i.size - 1)
          BY <2>4, <2>6, <4>1, ValueBound
        <4>3. v \in Word /\ v = Abstract!Extended(in, i.size, i.signed)
          BY <2>6, <4>2, Extension
        <4>4. Completes([cpuRegs EXCEPT ![i.rd] = v], cpuPC + WordBytes) /\ UNCHANGED memV
          BY <3>1, <3>4, <4>1
        <4> HIDE DEF in, v
        <4>5. /\ cpuRegs' = [[cpuRegs EXCEPT ![i.rd] = v] EXCEPT ![ZERO] = 0]
              /\ cpuPC' = Wrap(cpuPC + WordBytes) /\ lastStatus' = "OK"
              /\ memAreas' = memAreas /\ memLastFaultAddress' = memLastFaultAddress
          BY <4>4 DEF Completes, memV
        <4>6. /\ cpuRegs' = [cpuRegs EXCEPT ![i.rd] = IF i.rd = ZERO THEN 0 ELSE v]
              /\ cpuRegs' \in [Registers -> Word] /\ cpuRegs'[ZERO] = 0
          BY <2>6, <4>3, <4>5, ZeroRegister
        <4>7. TurnCompletes
          BY <2>5, <2>8, <4>1, <4>5, <4>6 DEF TurnCompletes
        <4>8. Effect(i)
          BY <2>9, <4>3, <4>5, <4>6 DEF Effect, in, addr
        <4> QED  BY <4>7, <4>8 DEF i
      <3> QED  BY <3>3, <3>4
    <2>10. CASE i.op = "STORE"
      <3>1. PICK data \in AreaAt(addr, i.size) :
              IF data = 0 THEN Faults(addr)
              ELSE /\ memAreas' = [memAreas EXCEPT ![data] = BytesWritten(@, addr, i.size, cpuRegs[i.rs2])]
                   /\ Completes(cpuRegs, cpuPC + WordBytes)
                   /\ UNCHANGED memLastFaultAddress
        BY <2>3, <2>7, <2>10 DEF cpuExecute, cpuExecuteSTORE
      <3>2. data = memFindArea(memAreas, addr, i.size)
        BY <3>1 DEF AreaAt
      <3>3. CASE data = 0
        <4>1. ~Accessible(RegionsOf(memAreas), addr, i.size)
          BY <2>4, <2>6, <3>2, <3>3, Access
        <4> QED  BY <2>4, <2>5, <2>10, <3>1, <3>3, <4>1 DEF Faults, Stops, TurnFaults
      <3>4. CASE data # 0
        <4>1. Accessible(RegionsOf(memAreas), addr, i.size)
          BY <2>4, <2>6, <3>2, <3>4, Access
        <4>2. /\ M!Listed(memAreas') /\ RegionsOf(memAreas') = RegionsOf(memAreas)
              /\ MemOf(memAreas') = Stored(MemOf(memAreas), addr, i.size, cpuRegs[i.rs2])
          BY <2>4, <2>6, <3>1, <3>2, <3>4, Access
        <4>3. /\ cpuRegs' = cpuRegs /\ cpuPC' = Wrap(cpuPC + WordBytes) /\ lastStatus' = "OK"
              /\ memLastFaultAddress' = memLastFaultAddress
          <5>1. cpuRegs[i.rs2] \in Word
            BY <2>6
          <5> QED  BY <2>6, <3>1, <3>4, ZeroRegister DEF Completes
        <4>4. TurnCompletes
          BY <2>5, <2>8, <4>1, <4>2, <4>3 DEF TurnCompletes
        <4>5. Effect(i)
          BY <2>10, <4>2, <4>3 DEF Effect, addr
        <4> QED  BY <4>4, <4>5 DEF i
      <3> QED  BY <3>3, <3>4
    <2>11. CASE i.op \in {"ADDI", "BEQ", "JAL", "JALR"}
      <3>1. RefusedAt(memAreas, cpuPC, cpuRegs) = {} /\ UNCHANGED memV
        BY <2>3, <2>5, <2>11 DEF cpuExecute
      <3>2. CASE i.op = "ADDI"
        <4>1. Completes([cpuRegs EXCEPT ![i.rd] = addr], cpuPC + WordBytes)
          BY <2>3, <3>2 DEF cpuExecute, cpuExecuteOPIMM, addr, AddrOf
        <4>2. /\ cpuRegs' = [cpuRegs EXCEPT ![i.rd] = IF i.rd = ZERO THEN 0 ELSE addr]
              /\ cpuRegs' \in [Registers -> Word] /\ cpuRegs'[ZERO] = 0
          BY <2>4, <2>6, <4>1, ZeroRegister DEF Completes
        <4>3. TurnCompletes
          BY <2>8, <3>1, <4>1, <4>2 DEF TurnCompletes, Completes, memV
        <4>4. Effect(i)
          BY <3>1, <3>2, <4>1, <4>2 DEF Effect, Completes, memV, addr
        <4> QED  BY <4>3, <4>4 DEF i
      <3>3. CASE i.op = "BEQ"
        <4> DEFINE step == IF cpuRegs[i.rs1] = cpuRegs[i.rs2] THEN i.imm ELSE WordBytes
        <4>1. Completes(cpuRegs, cpuPC + step)
          BY <2>3, <3>3 DEF cpuExecute, cpuExecuteBRANCH
        <4>2. cpuRegs' = cpuRegs /\ cpuPC' = Wrap(cpuPC + step) /\ lastStatus' = "OK"
          BY <2>6, <4>1, ZeroRegister DEF Completes
        <4>3. cpuPC' \in Word
          BY <2>8, <4>2
        <4>4. TurnCompletes
          BY <3>1, <4>2, <4>3 DEF TurnCompletes, memV
        <4>5. Effect(i)
          BY <3>1, <3>3, <4>2 DEF Effect, memV
        <4> QED  BY <4>4, <4>5 DEF i
      <3>4. CASE i.op = "JAL"
        <4>1. Completes([cpuRegs EXCEPT ![i.rd] = Wrap(cpuPC + WordBytes)], cpuPC + i.imm)
          BY <2>3, <3>4 DEF cpuExecute, cpuExecuteJAL
        <4>2. /\ cpuRegs' = [cpuRegs EXCEPT ![i.rd] = IF i.rd = ZERO THEN 0 ELSE Wrap(cpuPC + WordBytes)]
              /\ cpuRegs' \in [Registers -> Word] /\ cpuRegs'[ZERO] = 0
          BY <2>6, <2>8, <4>1, ZeroRegister DEF Completes
        <4>3. TurnCompletes
          BY <2>8, <3>1, <4>1, <4>2 DEF TurnCompletes, Completes, memV
        <4>4. Effect(i)
          BY <3>1, <3>4, <4>1, <4>2 DEF Effect, Completes, memV
        <4> QED  BY <4>3, <4>4 DEF i
      <3>5. CASE i.op = "JALR"
        <4> DEFINE linked == [cpuRegs EXCEPT ![i.rd] = Wrap(cpuPC + WordBytes)]
                   target == Wrap(linked[i.rs1] + i.imm)
        <4>1. Completes(linked, target - (target % 2))
          BY <2>3, <3>5 DEF cpuExecute, cpuExecuteJALR
        <4>2. /\ cpuRegs' = [cpuRegs EXCEPT ![i.rd] = IF i.rd = ZERO THEN 0 ELSE Wrap(cpuPC + WordBytes)]
              /\ cpuRegs' \in [Registers -> Word] /\ cpuRegs'[ZERO] = 0
          BY <2>6, <2>8, <4>1, ZeroRegister DEF Completes
        <4>3. target \in Word
          <5>1. linked[i.rs1] \in Word
            BY <2>6, <2>8
          <5> QED  BY <2>6, <5>1, WrapIsWord DEF Word
        <4>4. i.rd # i.rs1 => target = addr
          BY <2>6 DEF addr, AddrOf
        <4> HIDE DEF linked, target
        <4>5. target - (target % 2) \in Word /\ Wrap(target - (target % 2)) = target - (target % 2)
          <5>1. target \in Nat /\ WordSize \in Nat \ {0} /\ target < WordSize
            BY <4>3, PowersOfTwo DEF Word
          <5>2. target - (target % 2) \in 0..(WordSize - 1)
            BY <5>1
          <5> QED  BY <5>1, <5>2, M!SmallRemainder, MemoryAssumptions DEF Word, Wrap
        <4>6. TurnCompletes
          BY <3>1, <4>1, <4>2, <4>5 DEF TurnCompletes, Completes, memV
        <4>7. Effect(i)
          BY <3>1, <3>5, <4>1, <4>2, <4>4, <4>5 DEF Effect, Completes, memV, addr
        <4> QED  BY <4>6, <4>7 DEF i
      <3> QED  BY <2>11, <3>2, <3>3, <3>4, <3>5
    <2>12. CASE i.op \in {"ECALL", "EBREAK", "ILLEGAL"}
      <3>1. UNCHANGED memV /\ UNCHANGED <<cpuRegs, cpuPC>> /\ RefusedAt(memAreas, cpuPC, cpuRegs) = {}
        BY <2>3, <2>5, <2>12 DEF cpuExecute, Stops
      <3>2. \/ i.op = "ECALL" /\ lastStatus' = "ECALL_TRAP"
            \/ i.op = "EBREAK" /\ lastStatus' = "EBREAK_TRAP"
            \/ i.op = "ILLEGAL" /\ lastStatus' = "ILL_INST_FAULT"
        BY <2>3, <2>12 DEF cpuExecute, Stops
      <3> QED  BY <3>1, <3>2 DEF TurnTraps, i
    <2> QED  BY <2>4, <2>9, <2>10, <2>11, <2>12 DEF Decoded
  <1> QED  BY <1>4, <1>5

-----------------------------------------------------------------------------
(* The stack *)

StackTyped ==
  /\ \E k \in Nat : svStackBottom = k * PageSize
  /\ svStackBottom <= StackTop

PageBelow(bottom) == Span(bottom - PageSize, PageSize)
StackIsMapped == svStackBottom..(StackTop - 1) \subseteq UNION RegionsOf(memAreas)

LEMMA PageFacts ==
  /\ StackTop \in Nat /\ PageSize \in Nat \ {0} /\ WordBytes \in Nat \ {0} /\ WordSize \in Nat \ {0}
  /\ StackTop + WordBytes <= WordSize /\ PageSize <= StackTop /\ WordBytes <= PageSize
  BY MachineAssumption, WidthAssumption, PowersOfTwo

\* The test of svExpandStack is for the page below the stack.
LEMMA PageTest ==
  ASSUME StackTyped, NEW addr \in Word
  PROVE  LET page == Wrap(svStackBottom - PageSize)
         IN /\ (addr < svStackBottom /\ addr >= page) <=> addr \in PageBelow(svStackBottom)
            /\ addr \in PageBelow(svStackBottom) =>
                 /\ page = svStackBottom - PageSize /\ page \in Nat /\ page <= StackTop
                 /\ page + PageSize + WordBytes <= WordSize
                 /\ \E k \in Nat : page = k * PageSize
  <1> DEFINE page == Wrap(svStackBottom - PageSize)
  <1>1. PICK k \in Nat : svStackBottom = k * PageSize
    BY DEF StackTyped
  <1>2. addr \in Nat /\ addr < WordSize
    BY PageFacts DEF Word
  <1>3. CASE k = 0
    <2>1. svStackBottom = 0
      BY <1>1, <1>3, PageFacts
    <2>2. addr \notin PageBelow(svStackBottom)
      BY <1>2, <2>1, PageFacts DEF PageBelow, Span
    <2> QED  BY <1>2, <2>1, <2>2
  <1>4. CASE k # 0
    <2>1. k - 1 \in Nat /\ (k - 1) * PageSize = k * PageSize - PageSize
      BY <1>4, PageFacts
    <2>2. (k - 1) * PageSize \in Nat
      BY <2>1, PageFacts
    <2>3. svStackBottom - PageSize \in 0..(WordSize - 1) /\ svStackBottom \in Nat /\ svStackBottom <= StackTop
      BY <1>1, <2>1, <2>2, PageFacts DEF StackTyped
    <2>4. page = svStackBottom - PageSize
      BY <2>3, PageFacts, M!SmallRemainder, MemoryAssumptions DEF Wrap
    <2>5. PageBelow(svStackBottom) = page..(svStackBottom - 1)
      BY <2>3, <2>4, PageFacts DEF PageBelow, Span
    <2>6. page = (k - 1) * PageSize
      BY <1>1, <2>1, <2>4
    <2> HIDE DEF page
    <2>7. (addr < svStackBottom /\ addr >= page) <=> addr \in PageBelow(svStackBottom)
      BY <1>2, <2>3, <2>4, <2>5
    <2>8. page \in Nat /\ page <= StackTop /\ page + PageSize + WordBytes <= WordSize
      BY <2>3, <2>4, PageFacts
    <2> QED  BY <2>1, <2>4, <2>6, <2>7, <2>8 DEF page
  <1> QED  BY <1>3, <1>4

\* Whatever is mapped, what it was before stays so.
LEMMA StaysAccessible ==
  ASSUME NEW r, NEW page, NEW a, NEW n, Accessible(r, a, n)
  PROVE  Accessible(r \union {page}, a, n)
  BY DEF Accessible

\* A page that the stack has just grown to holds no instruction, and nothing that was
\* refused for another reason than the page can be reached now.
LEMMA RefusedAfterGrowth ==
  ASSUME NEW areas, M!Listed(areas), NEW new, M!Listed(new), NEW pc \in Word, NEW regs \in [Registers -> Word],
         NEW base \in Nat, NEW extent \in Nat \ {0}, NEW addr,
         Span(base, extent) \intersect UNION RegionsOf(areas) = {},
         RegionsOf(new) = RegionsOf(areas) \union {Span(base, extent)},
         MemOf(new) = Cleared(MemOf(areas), Span(base, extent)),
         RefusedAt(areas, pc, regs) = {addr}
  PROVE  RefusedAt(new, pc, regs) \subseteq {addr}
  <1> DEFINE page == Span(base, extent)
  <1>1. WordBytes \in AccessSizes /\ WordBytes \in {1, 2, 4} /\ pc \in Nat
    BY MachineAssumption, PowersOfTwo DEF AccessSizes, Word
  <1> DEFINE mapped == UNION RegionsOf(areas)
             m == MemOf(areas)
  <1>2. DOMAIN m = mapped
    BY MemoryOfBytes
  <1>3. /\ \A a \in page : MemOf(new)[a] = 0
        /\ \A a \in mapped : MemOf(new)[a] = m[a]
    <2>1. \A a \in mapped : a \notin page
      OBVIOUS
    <2>2. MemOf(new) = Cleared(m, page)
      OBVIOUS
    <2> HIDE DEF page, m, mapped
    <2> QED  BY <1>2, <2>1, <2>2 DEF Cleared
  <1> HIDE DEF page
  <1>4. CASE Accessible(RegionsOf(areas), pc, WordBytes)
    <2>1. Accessible(RegionsOf(new), pc, WordBytes)
      BY <1>4 DEF Accessible
    <2>2. \A k \in 0..(WordBytes - 1) : pc + k \in mapped
      BY <1>1, <1>4 DEF Accessible, Span
    <2>3. \A k \in 0..(WordBytes - 1) : MemOf(new)[pc + k] = MemOf(areas)[pc + k]
      BY <1>3, <2>2
    <2>4. Value(MemOf(new), pc, WordBytes) = Value(MemOf(areas), pc, WordBytes)
      <3>1. \A k \in 0..3 : k < WordBytes => MemOf(new)[pc + k] = MemOf(areas)[pc + k]
        BY <1>1, <2>3
      <3>2. /\ 0 < WordBytes => MemOf(new)[pc + 0] = MemOf(areas)[pc + 0]
            /\ 1 < WordBytes => MemOf(new)[pc + 1] = MemOf(areas)[pc + 1]
            /\ 2 < WordBytes => MemOf(new)[pc + 2] = MemOf(areas)[pc + 2]
            /\ 3 < WordBytes => MemOf(new)[pc + 3] = MemOf(areas)[pc + 3]
        BY <3>1
      <3> QED  BY <3>2 DEF Value
    <2>5. InstrAt(new, pc) = InstrAt(areas, pc)
      BY <2>4 DEF InstrAt
    <2> QED  BY <1>4, <2>1, <2>5, StaysAccessible DEF RefusedAt
  <1>5. CASE ~Accessible(RegionsOf(areas), pc, WordBytes)
    <2>1. addr = pc
      BY <1>5 DEF RefusedAt
    <2>2. CASE ~Accessible(RegionsOf(new), pc, WordBytes)
      BY <2>1, <2>2 DEF RefusedAt
    <2>3. CASE Accessible(RegionsOf(new), pc, WordBytes)
      <3>1. Span(pc, WordBytes) \subseteq page
        BY <1>5, <2>3 DEF Accessible, page
      <3>2. \A k \in 0..(WordBytes - 1) : MemOf(new)[pc + k] = 0
        BY <1>1, <1>3, <3>1 DEF Span
      <3>3. Value(MemOf(new), pc, WordBytes) = 0
        <4>1. \A k \in 0..3 : k < WordBytes => MemOf(new)[pc + k] = 0
          BY <1>1, <3>2
        <4>2. /\ 0 < WordBytes => MemOf(new)[pc + 0] = 0
              /\ 1 < WordBytes => MemOf(new)[pc + 1] = 0
              /\ 2 < WordBytes => MemOf(new)[pc + 2] = 0
              /\ 3 < WordBytes => MemOf(new)[pc + 3] = 0
          BY <4>1
        <4>3. \A k \in 0..3 : 0 * ByteSize ^ k = 0
          BY PowersOfTwo
        <4> QED  BY <4>2, <4>3 DEF Value
      <3>4. InstrAt(new, pc).op = "ILLEGAL"
        BY <3>3, ZeroIsIllegal DEF InstrAt
      <3> QED  BY <2>3, <3>4 DEF RefusedAt
    <2> QED  BY <2>2, <2>3
  <1> QED  BY <1>4, <1>5

\* What svExpandStack does, as Hart has it
Grown ==
  /\ RefusedAt(memAreas, cpuPC, cpuRegs) \intersect PageBelow(svStackBottom) # {}
  /\ svStackBottom' = svStackBottom - PageSize
  /\ IF PageBelow(svStackBottom) \intersect UNION RegionsOf(memAreas) = {}
       THEN /\ RegionsOf(memAreas)' = RegionsOf(memAreas) \union {PageBelow(svStackBottom)}
            /\ MemOf(memAreas)' = Cleared(MemOf(memAreas), PageBelow(svStackBottom))
       ELSE memAreas' = memAreas

LEMMA Growth ==
  ASSUME HardwareTyped, StackTyped, lastStatus = "MEMORY_FAULT",
         RefusedAt(memAreas, cpuPC, cpuRegs) = {memLastFaultAddress}, svExpandStack
  PROVE  /\ HardwareTyped' /\ StackTyped' /\ lastStatus' = "OK"
         /\ UNCHANGED <<cpuPC, cpuRegs, memLastFaultAddress>>
         /\ Grown \/ UNCHANGED <<memAreas, svStackBottom>>
         /\ RefusedAt(memAreas', cpuPC', cpuRegs') \intersect PageBelow(svStackBottom') = {}
         /\ StackIsMapped => StackIsMapped' \/ RefusedAt(memAreas', cpuPC', cpuRegs') # {}
  <1> USE DEF HardwareTyped
  <1> DEFINE page == Wrap(svStackBottom - PageSize)
             grows == memLastFaultAddress < svStackBottom /\ memLastFaultAddress >= page
  <1>1. /\ IF grows THEN svStackBottom' = page /\ memAreas' = memMapArea(memAreas, page, PageSize)
                    ELSE UNCHANGED <<svStackBottom, memAreas>>
        /\ UNCHANGED <<cpuRegs, memLastFaultAddress>>
        /\ cpuPC' = cpuPC /\ lastStatus' = "OK"
    BY DEF svExpandStack, ClearedPC
  <1>2. grows <=> memLastFaultAddress \in PageBelow(svStackBottom)
    BY PageTest
  <1>3. CASE ~grows
    BY <1>1, <1>2, <1>3 DEF StackTyped, StackIsMapped
  <1>4. CASE grows
    <2>1. /\ page = svStackBottom - PageSize /\ page \in Nat /\ page <= StackTop
          /\ page + PageSize + WordBytes <= WordSize
          /\ \E k \in Nat : page = k * PageSize
      BY <1>2, <1>4, PageTest
    <2>2. PageBelow(svStackBottom) = Span(page, PageSize)
      BY <2>1 DEF PageBelow
    <2>3. /\ svStackBottom' = page /\ memAreas' = memMapArea(memAreas, page, PageSize)
          /\ UNCHANGED <<cpuRegs, memLastFaultAddress, cpuPC>> /\ lastStatus' = "OK"
      BY <1>1, <1>4
    <2>4. memLastFaultAddress \in Span(page, PageSize)
      BY <1>2, <1>4, <2>2
    <2>5. memLastFaultAddress \notin PageBelow(page)
      BY <2>1, <2>4, PageFacts DEF PageBelow, Span
    <2> HIDE DEF page, grows
    <2>6. CASE Span(page, PageSize) \intersect UNION RegionsOf(memAreas) = {}
      <3>1. /\ M!Listed(memAreas') /\ RegionsOf(memAreas') = RegionsOf(memAreas) \union {Span(page, PageSize)}
            /\ MemOf(memAreas') = Cleared(MemOf(memAreas), Span(page, PageSize))
        BY <2>1, <2>3, <2>6, PageFacts, Mapping
      <3>2. RefusedAt(memAreas', cpuPC, cpuRegs) \subseteq {memLastFaultAddress}
        <4> DEFINE new == memAreas'
        <4>1. M!Listed(new) /\ RegionsOf(new) = RegionsOf(memAreas) \union {Span(page, PageSize)}
              /\ MemOf(new) = Cleared(MemOf(memAreas), Span(page, PageSize))
          BY <3>1
        <4> HIDE DEF new
        <4>2. RefusedAt(new, cpuPC, cpuRegs) \subseteq {memLastFaultAddress}
          <5>1. M!Listed(memAreas) /\ cpuPC \in Word /\ cpuRegs \in [Registers -> Word]
            OBVIOUS
          <5>2. page \in Nat /\ PageSize \in Nat \ {0}
            BY <2>1, PageFacts
          <5>3. RefusedAt(memAreas, cpuPC, cpuRegs) = {memLastFaultAddress}
            OBVIOUS
          <5> HIDE DEF HardwareTyped
          <5> QED  BY <2>6, <4>1, <5>1, <5>2, <5>3, RefusedAfterGrowth
        <4> QED  BY <4>2 DEF new
      <3>3. StackIsMapped => StackIsMapped'
        <4>1. svStackBottom \in Nat
          BY <2>1, PageFacts DEF StackTyped
        <4>2. page..(StackTop - 1) \subseteq Span(page, PageSize) \union svStackBottom..(StackTop - 1)
          BY <2>1, <4>1, PageFacts DEF Span
        <4> QED  BY <2>3, <3>1, <4>2 DEF StackIsMapped
      <3>4. Grown
        BY <2>1, <2>2, <2>3, <2>4, <2>6, <3>1 DEF Grown
      <3> QED  BY <2>1, <2>3, <2>5, <3>1, <3>2, <3>3, <3>4 DEF StackTyped
    <2>7. CASE Span(page, PageSize) \intersect UNION RegionsOf(memAreas) # {}
      <3>1. memAreas' = memAreas
        BY <2>1, <2>3, <2>7, PageFacts, Mapping
      <3>2. Grown
        BY <2>1, <2>2, <2>3, <2>4, <2>7, <3>1 DEF Grown
      <3> QED  BY <2>1, <2>3, <2>5, <3>1, <3>2 DEF StackTyped
    <2> QED  BY <2>6, <2>7
  <1> QED  BY <1>3, <1>4

-----------------------------------------------------------------------------
(* The inductive invariant *)

FlowInv ==
  /\ phase \in {"debug", "prompt", "cpu", "expand", "retry", "handle"}
  /\ status \in {"RUNNING", "TERMINATED", "KILLED", "MEMORY_FAULT", "ILL_INST_FAULT", "INVALID_SYSCALL"}
  /\ lastStatus \in {"OK", "MEMORY_FAULT", "ILL_INST_FAULT", "ECALL_TRAP", "EBREAK_TRAP"}
  /\ svExitCode \in Word
  /\ phase # "debug" => status = "RUNNING"
  /\ status = "RUNNING" /\ phase \in {"debug", "prompt", "cpu", "retry"} => lastStatus = "OK"
  /\ phase = "expand" => lastStatus = "MEMORY_FAULT"

\* A status that is not OK says what is the matter with the next instruction, and a fault
\* that was not mended by one page is not mended by another.
RefusalInv ==
  LET refused == RefusedAt(memAreas, cpuPC, cpuRegs)
      i       == InstrAt(memAreas, cpuPC)
  IN /\ lastStatus = "MEMORY_FAULT" => refused = {memLastFaultAddress}
     /\ lastStatus \in {"ECALL_TRAP", "EBREAK_TRAP", "ILL_INST_FAULT"} => refused = {}
     /\ lastStatus = "ECALL_TRAP" => i.op = "ECALL"
     /\ lastStatus = "EBREAK_TRAP" => i.op = "EBREAK"
     /\ lastStatus = "ILL_INST_FAULT" => i.op = "ILLEGAL"
     /\ phase = "retry" \/ (phase = "handle" /\ lastStatus = "MEMORY_FAULT") =>
          refused \intersect PageBelow(svStackBottom) = {}

\* A program whose stack could not be mapped is about to be stopped.
StackInv ==
  status = "RUNNING" =>
    \/ StackIsMapped
    \/ phase = "retry" /\ RefusedAt(memAreas, cpuPC, cpuRegs) # {}
    \/ phase = "handle" /\ lastStatus = "MEMORY_FAULT"

DebuggerTyped ==
  /\ dbg \in [enabled : BOOLEAN, userRequestsEnter : BOOLEAN, stepIn : BOOLEAN, stepOver : BOOLEAN,
              stepOverAddr : Word, breakpoints : Seq([id : Nat, address : BreakAddresses]), lastID : Nat]
  /\ watch \in [asked : {"start", "c", "s", "n"}, returnTo : Word \union {-1}, ran : 0..2,
                broke : BOOLEAN, prompted : BOOLEAN]

\* Why the debugger may be about to be entered, and what it may not be about to do
DebuggerInv ==
  /\ ~dbg.enabled => dbg.breakpoints = <<>>
  /\ phase = "prompt" => /\ dbg.enabled /\ watch.prompted
                         /\ ~dbg.userRequestsEnter /\ ~dbg.stepIn /\ ~dbg.stepOver
  /\ dbg.userRequestsEnter => /\ phase = "debug" /\ dbg.enabled
                              /\ (watch.asked = "start" /\ watch.ran = 0) \/ watch.broke
  /\ dbg.stepIn => watch.asked = "s"
  /\ dbg.stepOver => watch.asked = "n" /\ watch.returnTo = dbg.stepOverAddr
  /\ watch.asked = "s" =>
       /\ watch.ran <= 1
       /\ status = "RUNNING" /\ phase # "prompt" => dbg.enabled /\ dbg.stepIn
       /\ phase \in {"cpu", "expand", "retry"} => watch.ran = 0
       /\ status = "RUNNING" /\ phase = "debug" => watch.ran = 1
       /\ phase = "handle" /\ lastStatus # "MEMORY_FAULT" => watch.ran = 1
  /\ phase = "handle" /\ lastStatus = "EBREAK_TRAP" => watch.broke
  /\ phase \in {"cpu", "expand", "retry"} => watch.prompted \/ ~AtBreakpoint

IInv ==
  /\ HardwareTyped /\ StackTyped /\ FlowInv /\ RefusalInv /\ StackInv
  /\ DebuggerTyped /\ DebuggerInv

\* What the debugger does changes nothing of the machine.
LEMMA DebuggerAside ==
  ASSUME IInv, UNCHANGED <<memV, cpuV, svV>>
  PROVE  /\ HardwareTyped' /\ StackTyped'
         /\ RefusedAt(memAreas', cpuPC', cpuRegs') = RefusedAt(memAreas, cpuPC, cpuRegs)
         /\ InstrAt(memAreas', cpuPC') = InstrAt(memAreas, cpuPC)
         /\ StackIsMapped' = StackIsMapped
         /\ UNCHANGED <<memAreas, memLastFaultAddress, cpuRegs, cpuPC, lastStatus, svStackBottom, svExitCode, stdout>>
  BY DEF IInv, memV, cpuV, svV, HardwareTyped, StackTyped, StackIsMapped

LEMMA DbgPassKeeps ==
  ASSUME IInv, DbgPass
  PROVE  IInv'
  <1>1. UNCHANGED <<memV, cpuV, svV, status, dbg>> /\ phase = "debug" /\ status = "RUNNING" /\ phase' = "cpu"
        /\ ~dbgCheckTrigger /\ watch' = [watch EXCEPT !.prompted = FALSE]
    BY DEF DbgPass, Ticking
  <1>2. HardwareTyped' /\ StackTyped' /\ FlowInv' /\ RefusalInv' /\ StackInv'
    BY <1>1, DebuggerAside DEF IInv, FlowInv, RefusalInv, StackInv
  <1>3. DebuggerTyped'
    BY <1>1 DEF IInv, DebuggerTyped
  <1>4. ~AtBreakpoint
    <2>1. dbg.breakpoints = <<>> => ~AtBreakpoint
      BY DEF AtBreakpoint
    <2> QED  BY <1>1, <2>1 DEF IInv, DebuggerInv, dbgCheckTrigger
  <1>5. ~AtBreakpoint'
    BY <1>1, <1>4, DebuggerAside DEF AtBreakpoint
  <1>6. ~dbg.enabled \/ (~dbg.stepIn /\ ~dbg.userRequestsEnter)
    BY <1>1 DEF dbgCheckTrigger, IInv, DebuggerTyped
  <1>7. watch.asked = "s" => dbg.enabled /\ dbg.stepIn
    BY <1>1 DEF IInv, DebuggerInv
  <1>8. ~dbg.userRequestsEnter
    BY <1>1, <1>6 DEF IInv, DebuggerInv
  <1>9. DebuggerInv'
    BY <1>1, <1>3, <1>5, <1>6, <1>7, <1>8 DEF IInv, DebuggerInv, DebuggerTyped
  <1> QED  BY <1>2, <1>3, <1>9 DEF IInv

LEMMA DbgEnterKeeps ==
  ASSUME IInv, DbgEnter
  PROVE  IInv'
  <1>1. UNCHANGED <<memV, cpuV, svV, status>> /\ phase = "debug" /\ status = "RUNNING" /\ phase' = "prompt"
        /\ dbgCheckTrigger /\ watch' = [watch EXCEPT !.prompted = TRUE]
        /\ dbg' = [dbg EXCEPT !.userRequestsEnter = FALSE, !.stepIn = FALSE, !.stepOver = FALSE]
    BY DEF DbgEnter, Ticking
  <1>2. HardwareTyped' /\ StackTyped' /\ FlowInv' /\ RefusalInv' /\ StackInv'
    BY <1>1, DebuggerAside DEF IInv, FlowInv, RefusalInv, StackInv
  <1>3. DebuggerTyped'
    BY <1>1 DEF IInv, DebuggerTyped
  <1>4. DebuggerInv'
    BY <1>1, <1>3 DEF IInv, DebuggerInv, DebuggerTyped, dbgCheckTrigger
  <1> QED  BY <1>2, <1>3, <1>4 DEF IInv

\* The commands that leave the prompt for the next instruction
LEMMA ResumeKeeps ==
  ASSUME IInv, CmdContinue \/ CmdStepIn \/ dbgCmdStepOver
  PROVE  IInv'
  <1>1. cpuPC \in Nat /\ Wrap(cpuPC + WordBytes) \in Word /\ (-1) \notin Nat
    <2>1. cpuPC \in Nat /\ WordBytes \in Nat
      BY PageFacts DEF IInv, HardwareTyped, Word
    <2> QED  BY <2>1, WrapIsWord
  <1>2. PICK asked \in {"c", "s", "n"}, returnTo \in Word \union {-1} :
          /\ Resume(asked, returnTo)
          /\ \/ asked = "c" /\ dbg' = dbg
             \/ asked = "s" /\ dbg' = [dbg EXCEPT !.stepIn = TRUE]
             \/ asked = "n" /\ dbg' = [dbg EXCEPT !.stepOver = TRUE, !.stepOverAddr = returnTo]
                            /\ returnTo \in Word
    <2>1. CASE CmdContinue
      BY <2>1 DEF CmdContinue
    <2>2. CASE CmdStepIn
      BY <2>2 DEF CmdStepIn
    <2>3. CASE dbgCmdStepOver
      <3> DEFINE next == Wrap(cpuPC + WordBytes)
      <3>1. \/ Resume("n", next) /\ dbg' = [dbg EXCEPT !.stepOver = TRUE, !.stepOverAddr = next]
            \/ Resume("s", -1) /\ dbg' = [dbg EXCEPT !.stepIn = TRUE]
        BY <2>3 DEF dbgCmdStepOver
      <3> HIDE DEF next
      <3>2. next \in Word
        BY <1>1 DEF next
      <3> QED  BY <3>1, <3>2
    <2> QED  BY <2>1, <2>2, <2>3
  <1>3. /\ UNCHANGED <<memV, cpuV, svV, status>> /\ phase = "prompt" /\ phase' = "cpu"
        /\ watch' = [watch EXCEPT !.asked = asked, !.returnTo = returnTo, !.ran = 0, !.broke = FALSE]
    BY <1>2 DEF Resume
  <1>4. HardwareTyped' /\ StackTyped' /\ FlowInv' /\ RefusalInv' /\ StackInv'
    BY <1>3, DebuggerAside DEF IInv, FlowInv, RefusalInv, StackInv
  <1>5. DebuggerTyped'
    <2>1. watch' \in [asked : {"start", "c", "s", "n"}, returnTo : Word \union {-1}, ran : 0..2,
                      broke : BOOLEAN, prompted : BOOLEAN]
      <3> DEFINE Returns  == Word \union {-1}
                 Askables == {"start", "c", "s", "n"}
                 Counts   == 0..2
      <3>1. /\ returnTo \in Returns /\ asked \in Askables /\ 0 \in Counts
            /\ watch \in [asked : Askables, returnTo : Returns, ran : Counts, broke : BOOLEAN, prompted : BOOLEAN]
        BY DEF IInv, DebuggerTyped
      <3> HIDE DEF Returns, Askables, Counts
      <3>2. watch' \in [asked : Askables, returnTo : Returns, ran : Counts, broke : BOOLEAN, prompted : BOOLEAN]
        BY <1>3, <3>1
      <3> QED  BY <3>2 DEF Returns, Askables, Counts
    <2>2. dbg' \in [enabled : BOOLEAN, userRequestsEnter : BOOLEAN, stepIn : BOOLEAN, stepOver : BOOLEAN,
              stepOverAddr : Word, breakpoints : Seq([id : Nat, address : BreakAddresses]), lastID : Nat]
      <3> DEFINE Bps == Seq([id : Nat, address : BreakAddresses])
      <3>1. dbg \in [enabled : BOOLEAN, userRequestsEnter : BOOLEAN, stepIn : BOOLEAN, stepOver : BOOLEAN,
                    stepOverAddr : Word, breakpoints : Bps, lastID : Nat]
        BY DEF IInv, DebuggerTyped
      <3> HIDE DEF Bps
      <3> DEFINE Debuggers == [enabled : BOOLEAN, userRequestsEnter : BOOLEAN, stepIn : BOOLEAN, stepOver : BOOLEAN,
                               stepOverAddr : Word, breakpoints : Bps, lastID : Nat]
      <3>2. dbg' = dbg => dbg' \in Debuggers
        BY <3>1
      <3>3. dbg' = [dbg EXCEPT !.stepIn = TRUE] => dbg' \in Debuggers
        BY <3>1
      <3>4. dbg' = [dbg EXCEPT !.stepOver = TRUE, !.stepOverAddr = returnTo] /\ returnTo \in Word
              => dbg' \in Debuggers
        BY <3>1
      <3>5. dbg' \in Debuggers
        BY <1>2, <3>2, <3>3, <3>4
      <3> QED  BY <3>5 DEF Bps
    <2> QED  BY <2>1, <2>2 DEF DebuggerTyped
  <1>6. dbg.enabled /\ watch.prompted /\ ~dbg.userRequestsEnter /\ ~dbg.stepIn /\ ~dbg.stepOver
    BY <1>3 DEF IInv, DebuggerInv
  <1>7. /\ watch'.asked = asked /\ watch'.returnTo = returnTo /\ watch'.ran = 0
        /\ watch'.prompted = watch.prompted
    BY <1>3 DEF IInv, DebuggerTyped
  <1>8. /\ dbg'.enabled = dbg.enabled /\ dbg'.userRequestsEnter = dbg.userRequestsEnter
        /\ dbg'.breakpoints = dbg.breakpoints
        /\ dbg'.stepIn <=> asked = "s"
        /\ dbg'.stepOver => asked = "n" /\ dbg'.stepOverAddr = returnTo
    BY <1>2, <1>6 DEF IInv, DebuggerTyped
  <1>9. DebuggerInv'
    BY <1>3, <1>6, <1>7, <1>8 DEF IInv, DebuggerInv
  <1> QED  BY <1>4, <1>5, <1>9 DEF IInv

LEMMA CmdQuitKeeps ==
  ASSUME IInv, CmdQuit
  PROVE  IInv'
  <1>1. UNCHANGED <<memV, cpuV, svV, dbg, watch>> /\ phase = "prompt" /\ phase' = "debug" /\ status' = "KILLED"
    BY DEF CmdQuit
  <1>2. HardwareTyped' /\ StackTyped' /\ FlowInv' /\ RefusalInv' /\ StackInv'
    BY <1>1, DebuggerAside DEF IInv, FlowInv, RefusalInv, StackInv
  <1>3. DebuggerTyped'
    BY <1>1 DEF IInv, DebuggerTyped
  <1>4. DebuggerInv'
    BY <1>1 DEF IInv, DebuggerInv
  <1> QED  BY <1>2, <1>3, <1>4 DEF IInv

LEMMA BreakpointsKeep ==
  ASSUME IInv, \/ \E addr \in BreakAddresses : dbgAddBreakpoint(addr)
               \/ \E id \in 0..MaxBreakpoints - 1 : dbgRemoveBreakpoint(id)
  PROVE  IInv'
  <1> DEFINE Bps == Seq([id : Nat, address : BreakAddresses])
  <1>1. PICK bps \in Bps, last \in Nat : dbg' = [dbg EXCEPT !.breakpoints = bps, !.lastID = last]
    <2>1. dbg.breakpoints \in Bps /\ dbg.lastID \in Nat
      BY DEF IInv, DebuggerTyped
    <2>2. ASSUME NEW addr \in BreakAddresses, dbgAddBreakpoint(addr)
          PROVE  \E bps \in Bps, last \in Nat : dbg' = [dbg EXCEPT !.breakpoints = bps, !.lastID = last]
      <3> DEFINE bps == <<[id |-> dbg.lastID, address |-> addr]>> \o dbg.breakpoints
                 last == dbg.lastID + 1
      <3>1. bps \in Bps /\ last \in Nat
        BY <2>1
      <3>2. dbg' = [dbg EXCEPT !.breakpoints = bps, !.lastID = last]
        BY <2>2 DEF dbgAddBreakpoint
      <3> HIDE DEF bps, last
      <3> QED  BY <3>1, <3>2
    <2>3. ASSUME NEW id \in 0..MaxBreakpoints - 1, dbgRemoveBreakpoint(id)
          PROVE  \E bps \in Bps, last \in Nat : dbg' = [dbg EXCEPT !.breakpoints = bps, !.lastID = last]
      <3>1. PICK i \in DOMAIN dbg.breakpoints : dbg' = [dbg EXCEPT !.breakpoints = RemoveAt(@, i)]
        BY <2>3 DEF dbgRemoveBreakpoint
      <3> DEFINE bps == RemoveAt(dbg.breakpoints, i)
      <3>2. bps \in Bps
        <4> DEFINE Bp == [id : Nat, address : BreakAddresses]
                   s == dbg.breakpoints
        <4> HIDE DEF Bp, s
        <4>1. s \in Seq(Bp) /\ i \in 1..Len(s)
          BY <2>1, <3>1 DEF Bp, s
        <4>2. RemoveAt(s, i) \in Seq(Bp)
          BY <4>1 DEF RemoveAt
        <4> QED  BY <4>2 DEF Bp, s
      <3>3. dbg' = [dbg EXCEPT !.breakpoints = bps, !.lastID = dbg.lastID]
        BY <3>1 DEF IInv, DebuggerTyped
      <3> HIDE DEF bps
      <3> QED  BY <2>1, <3>2, <3>3
    <2> QED  BY <2>2, <2>3
  <1>2. UNCHANGED <<memV, cpuV, svV, status, phase, watch>> /\ phase = "prompt"
    BY DEF dbgAddBreakpoint, dbgRemoveBreakpoint
  <1>3. HardwareTyped' /\ StackTyped' /\ FlowInv' /\ RefusalInv' /\ StackInv'
    BY <1>2, DebuggerAside DEF IInv, FlowInv, RefusalInv, StackInv
  <1>4. DebuggerTyped'
    BY <1>1, <1>2 DEF IInv, DebuggerTyped
  <1>5. dbg'.enabled = dbg.enabled /\ dbg'.userRequestsEnter = dbg.userRequestsEnter
        /\ dbg'.stepIn = dbg.stepIn /\ dbg'.stepOver = dbg.stepOver
    BY <1>1 DEF IInv, DebuggerTyped
  <1>6. DebuggerInv'
    BY <1>2, <1>5 DEF IInv, DebuggerInv
  <1> QED  BY <1>3, <1>4, <1>6 DEF IInv

LEMMA CpuKeeps ==
  ASSUME IInv, Cpu
  PROVE  IInv'
  <1>1. /\ phase \in {"cpu", "retry"} /\ cpuTick /\ UNCHANGED <<svV, status, dbg>>
        /\ phase' = IF lastStatus' = "MEMORY_FAULT" /\ phase = "cpu" THEN "expand" ELSE "handle"
        /\ watch' = IF Executes THEN [watch EXCEPT !.ran = IF @ = 2 THEN 2 ELSE @ + 1,
                                                   !.broke = @ \/ lastStatus' = "EBREAK_TRAP"] ELSE watch
    BY DEF Cpu
  <1>2. status = "RUNNING" /\ lastStatus = "OK" /\ UNCHANGED <<svStackBottom, svExitCode, stdout>>
    BY <1>1 DEF IInv, FlowInv, svV
  <1>3. TurnFaults \/ TurnTraps \/ TurnCompletes
    BY <1>1, <1>2, Turn DEF IInv
  <1>4. HardwareTyped'
    BY <1>3 DEF IInv, HardwareTyped, TurnFaults, TurnTraps, TurnCompletes, memV
  <1>5. StackTyped'
    BY <1>2 DEF IInv, StackTyped
  <1>6. FlowInv'
    BY <1>1, <1>2, <1>3 DEF IInv, FlowInv, TurnFaults, TurnTraps, TurnCompletes
  <1>7. RefusalInv'
    <2>1. CASE TurnFaults
      <3>1. RefusedAt(memAreas', cpuPC', cpuRegs') = {memLastFaultAddress'}
        BY <2>1 DEF TurnFaults
      <3>2. phase = "retry" => RefusedAt(memAreas', cpuPC', cpuRegs') \intersect PageBelow(svStackBottom') = {}
        BY <1>2, <2>1 DEF IInv, RefusalInv, TurnFaults
      <3> QED  BY <1>1, <2>1, <3>1, <3>2 DEF RefusalInv, TurnFaults
    <2>2. CASE TurnTraps
      BY <1>1, <2>2 DEF RefusalInv, TurnTraps, memV
    <2>3. CASE TurnCompletes
      BY <1>1, <2>3 DEF RefusalInv, TurnCompletes
    <2> QED  BY <1>3, <2>1, <2>2, <2>3
  <1>8. StackInv'
    <2>1. RegionsOf(memAreas)' = RegionsOf(memAreas)
      BY <1>3 DEF TurnFaults, TurnTraps, TurnCompletes, memV
    <2>2. StackIsMapped' = StackIsMapped
      BY <1>2, <2>1 DEF StackIsMapped
    <2>3. StackIsMapped \/ (phase = "retry" /\ TurnFaults)
      BY <1>1, <1>2, <1>3 DEF IInv, StackInv, TurnTraps, TurnCompletes
    <2> QED  BY <1>1, <2>2, <2>3 DEF StackInv, TurnFaults
  <1> DEFINE ran   == IF Executes THEN IF watch.ran = 2 THEN 2 ELSE watch.ran + 1 ELSE watch.ran
             broke == IF Executes THEN watch.broke \/ lastStatus' = "EBREAK_TRAP" ELSE watch.broke
  <1>11. watch' = [watch EXCEPT !.ran = ran, !.broke = broke] /\ ran \in 0..2 /\ broke \in BOOLEAN
    <2>1. watch.ran \in 0..2 /\ watch.broke \in BOOLEAN
      BY DEF IInv, DebuggerTyped
    <2>2. CASE Executes
      <3>1. ran = (IF watch.ran = 2 THEN 2 ELSE watch.ran + 1) /\ broke = (watch.broke \/ lastStatus' = "EBREAK_TRAP")
        BY <2>2
      <3>2. watch' = [watch EXCEPT !.ran = IF @ = 2 THEN 2 ELSE @ + 1,
                                   !.broke = @ \/ lastStatus' = "EBREAK_TRAP"]
        BY <1>1, <2>2
      <3>3. watch' = [watch EXCEPT !.ran = ran, !.broke = broke]
        BY <3>1, <3>2, Zenon
      <3> HIDE DEF ran, broke
      <3> QED  BY <2>1, <3>1, <3>3
    <2>3. CASE ~Executes
      <3>1. ran = watch.ran /\ broke = watch.broke /\ watch' = watch
        BY <1>1, <2>3
      <3> HIDE DEF ran, broke
      <3> QED  BY <2>1, <3>1 DEF IInv, DebuggerTyped
    <2> QED  BY <2>2, <2>3
  <1>12. /\ watch.broke => broke
         /\ lastStatus' = "EBREAK_TRAP" => broke
         /\ lastStatus' = "MEMORY_FAULT" => ran = watch.ran
         /\ lastStatus' # "MEMORY_FAULT" /\ watch.ran = 0 => ran = 1
    BY <1>2 DEF Executes
  <1> HIDE DEF ran, broke
  <1>9. DebuggerTyped'
    BY <1>1, <1>11 DEF IInv, DebuggerTyped
  <1>10. DebuggerInv'
    <2>1. watch'.asked = watch.asked /\ watch'.prompted = watch.prompted /\ watch'.returnTo = watch.returnTo
      BY <1>11 DEF IInv, DebuggerTyped
    <2>2. /\ watch.broke => watch'.broke
          /\ lastStatus' = "EBREAK_TRAP" => watch'.broke
          /\ lastStatus' = "MEMORY_FAULT" => watch'.ran = watch.ran
          /\ lastStatus' # "MEMORY_FAULT" /\ watch.ran = 0 => watch'.ran = 1
      BY <1>11, <1>12 DEF IInv, DebuggerTyped
    <2>3. ~dbg.userRequestsEnter /\ dbg' = dbg
      BY <1>1 DEF IInv, DebuggerInv
    <2>4. phase' = "expand" => AtBreakpoint' = AtBreakpoint
      BY <1>1, <1>3, <2>3 DEF AtBreakpoint, TurnFaults, TurnTraps, TurnCompletes
    <2>5. watch.asked = "s" => watch.ran = 0 /\ dbg.enabled /\ dbg.stepIn
      BY <1>1, <1>2 DEF IInv, DebuggerInv
    <2> QED  BY <1>1, <1>2, <2>1, <2>2, <2>3, <2>4, <2>5 DEF IInv, DebuggerInv
  <1> QED  BY <1>4, <1>5, <1>6, <1>7, <1>8, <1>9, <1>10 DEF IInv

LEMMA svExpandStackKeeps ==
  ASSUME IInv, svExpandStack
  PROVE  IInv'
  <1>1. /\ phase = "expand" /\ phase' = "retry"
        /\ UNCHANGED <<memLastFaultAddress, cpuRegs, svExitCode, stdout, status, dbg, watch>>
    BY DEF svExpandStack
  <1>2. lastStatus = "MEMORY_FAULT" /\ RefusedAt(memAreas, cpuPC, cpuRegs) = {memLastFaultAddress}
        /\ status = "RUNNING"
    BY <1>1 DEF IInv, FlowInv, RefusalInv
  <1>3. /\ HardwareTyped' /\ StackTyped' /\ lastStatus' = "OK"
        /\ UNCHANGED <<cpuPC, cpuRegs, memLastFaultAddress>>
        /\ RefusedAt(memAreas', cpuPC', cpuRegs') \intersect PageBelow(svStackBottom') = {}
        /\ StackIsMapped => StackIsMapped' \/ RefusedAt(memAreas', cpuPC', cpuRegs') # {}
    BY <1>2, Growth DEF IInv
  <1>4. FlowInv'
    BY <1>1, <1>3 DEF IInv, FlowInv
  <1>5. RefusalInv'
    BY <1>1, <1>3 DEF RefusalInv
  <1>6. StackInv'
    BY <1>1, <1>2, <1>3 DEF IInv, StackInv
  <1>7. DebuggerTyped' /\ AtBreakpoint' = AtBreakpoint
    BY <1>1, <1>3 DEF IInv, DebuggerTyped, AtBreakpoint
  <1>8. DebuggerInv'
    BY <1>1, <1>7 DEF IInv, DebuggerInv
  <1> QED  BY <1>3, <1>4, <1>5, <1>6, <1>7, <1>8 DEF IInv

\* The end of a turn: either the processor is ready for the next instruction or the
\* simulation is over.
LEMMA HandleFacts ==
  ASSUME IInv, Handle
  PROVE  /\ HardwareTyped' /\ svExitCode' \in Word
         /\ phase = "handle" /\ phase' = "debug" /\ status = "RUNNING"
         /\ UNCHANGED <<memAreas, memLastFaultAddress, svStackBottom, watch>>
         /\ \/ /\ lastStatus \in {"OK", "ECALL_TRAP", "EBREAK_TRAP"} /\ lastStatus' = "OK" /\ status' = "RUNNING"
            \/ /\ UNCHANGED <<cpuRegs, cpuPC, lastStatus>>
               /\ status' \in {"TERMINATED", "MEMORY_FAULT", "ILL_INST_FAULT", "INVALID_SYSCALL"}
         /\ \/ lastStatus # "EBREAK_TRAP" /\ dbg' = dbg
            \/ /\ lastStatus = "EBREAK_TRAP" /\ status' = "RUNNING"
               /\ dbg' = [dbg EXCEPT !.userRequestsEnter = @ \/ dbg.enabled]
  <1>1. /\ phase = "handle" /\ phase' = "debug" /\ status = "RUNNING"
        /\ UNCHANGED <<memAreas, memLastFaultAddress, svStackBottom, watch>>
    BY DEF Handle, IInv, FlowInv, memV
  <1>2. HardwareTyped /\ svExitCode \in Word
    BY DEF IInv, FlowInv
  <1>3. ClearedPC \in Word
    <2>1. cpuPC \in Word /\ cpuPC + WordBytes \in Int
      BY <1>2, PageFacts DEF HardwareTyped, Word
    <2> QED  BY <2>1, WrapIsWord DEF ClearedPC
  <1>4. CASE lastStatus = "ECALL_TRAP" /\ svHandleEnvCall
    <2>1. cpuRegs[A0] \in Word /\ 0 \in Word
      BY <1>2, ZeroRegister DEF HardwareTyped
    <2>2. dbg' = dbg
      BY <1>4 DEF svHandleEnvCall
    <2>3. CASE Return
      <3>1. cpuRegs' = cpuRegs \/ \E ret \in Inputs : cpuRegs' = [cpuRegs EXCEPT ![A0] = ret]
        BY <1>4, <2>3 DEF svHandleEnvCall
      <3>2. cpuRegs' \in [Registers -> Word] /\ cpuRegs'[ZERO] = 0
        BY <1>2, <3>1, ZeroRegister, MachineAssumption DEF HardwareTyped
      <3> QED  BY <1>1, <1>2, <1>3, <1>4, <2>2, <2>3, <3>2 DEF Return, HardwareTyped
    <2>4. CASE ~Return
      <3>1. /\ UNCHANGED <<cpuRegs, cpuPC, lastStatus>>
            /\ status' \in {"TERMINATED", "INVALID_SYSCALL"} /\ svExitCode' \in Word
        BY <1>2, <1>4, <2>1, <2>4 DEF svHandleEnvCall, Terminate
      <3> QED  BY <1>1, <1>2, <1>4, <2>2, <3>1 DEF HardwareTyped
    <2> QED  BY <2>3, <2>4
  <1>5. CASE lastStatus = "EBREAK_TRAP" /\ svHandleBreak
    BY <1>1, <1>2, <1>3, <1>5 DEF svHandleBreak, HardwareTyped
  <1>6. CASE lastStatus \in {"MEMORY_FAULT", "ILL_INST_FAULT"} /\ status' = lastStatus
             /\ UNCHANGED <<cpuV, svExitCode, stdout, dbg>>
    BY <1>1, <1>2, <1>6 DEF HardwareTyped, cpuV
  <1>7. CASE lastStatus = "OK" /\ UNCHANGED <<cpuV, svExitCode, stdout, status, dbg>>
    BY <1>1, <1>2, <1>7 DEF HardwareTyped, cpuV
  <1> QED  BY <1>4, <1>5, <1>6, <1>7 DEF Handle

LEMMA HandleKeeps ==
  ASSUME IInv, Handle
  PROVE  IInv'
  <1> DEFINE continues == lastStatus \in {"OK", "ECALL_TRAP", "EBREAK_TRAP"} /\ lastStatus' = "OK" /\ status' = "RUNNING"
             ends == UNCHANGED <<cpuRegs, cpuPC, lastStatus>>
                     /\ status' \in {"TERMINATED", "MEMORY_FAULT", "ILL_INST_FAULT", "INVALID_SYSCALL"}
             broken == /\ lastStatus = "EBREAK_TRAP" /\ status' = "RUNNING"
                       /\ dbg' = [dbg EXCEPT !.userRequestsEnter = @ \/ dbg.enabled]
  <1>1. /\ HardwareTyped' /\ svExitCode' \in Word
        /\ phase = "handle" /\ phase' = "debug" /\ status = "RUNNING"
        /\ UNCHANGED <<memAreas, memLastFaultAddress, svStackBottom, watch>>
        /\ continues \/ ends
        /\ (lastStatus # "EBREAK_TRAP" /\ dbg' = dbg) \/ broken
    BY HandleFacts
  <1>2. StackTyped'
    BY <1>1 DEF IInv, StackTyped
  <1>3. FlowInv'
    BY <1>1 DEF IInv, FlowInv
  <1>4. RefusalInv'
    BY <1>1 DEF IInv, RefusalInv
  <1>5. StackInv'
    <2>1. StackIsMapped' = StackIsMapped
      BY <1>1 DEF StackIsMapped
    <2> QED  BY <1>1, <2>1 DEF IInv, StackInv
  <1> HIDE DEF continues, ends
  <1>6. DebuggerTyped'
    <2>1. dbg.enabled \in BOOLEAN /\ dbg.userRequestsEnter \in BOOLEAN
      BY DEF IInv, DebuggerTyped
    <2>2. (dbg.userRequestsEnter \/ dbg.enabled) \in BOOLEAN
      OBVIOUS
    <2> QED  BY <1>1, <2>1, <2>2 DEF IInv, DebuggerTyped
  <1>7. DebuggerInv'
    <2>1. ~dbg.userRequestsEnter
      BY <1>1 DEF IInv, DebuggerInv
    <2>2. /\ dbg'.enabled = dbg.enabled /\ dbg'.stepIn = dbg.stepIn /\ dbg'.stepOver = dbg.stepOver
          /\ dbg'.stepOverAddr = dbg.stepOverAddr /\ dbg'.breakpoints = dbg.breakpoints
          /\ dbg'.userRequestsEnter => dbg.enabled /\ lastStatus = "EBREAK_TRAP"
      BY <1>1, <2>1 DEF IInv, DebuggerTyped
    <2>3. status' = "RUNNING" => lastStatus # "MEMORY_FAULT"
      BY <1>1 DEF continues, ends
    <2> QED  BY <1>1, <2>2, <2>3 DEF IInv, DebuggerInv
  <1> QED  BY <1>1, <1>2, <1>3, <1>4, <1>5, <1>6, <1>7 DEF IInv

LEMMA NextKeeps == IInv /\ [Next]_vars => IInv'
  <1> SUFFICES ASSUME IInv, [Next]_vars PROVE IInv'
    OBVIOUS
  <1>1. CASE UNCHANGED vars
    BY <1>1 DEF vars, memV, cpuV, svV, IInv, HardwareTyped, StackTyped, FlowInv, RefusalInv, StackInv,
                StackIsMapped, DebuggerTyped, DebuggerInv, AtBreakpoint
  <1>2. CASE DbgPass
    BY <1>2, DbgPassKeeps
  <1>3. CASE DbgEnter
    BY <1>3, DbgEnterKeeps
  <1>4. CASE Cpu
    BY <1>4, CpuKeeps
  <1>5. CASE svExpandStack
    BY <1>5, svExpandStackKeeps
  <1>6. CASE Handle
    BY <1>6, HandleKeeps
  <1>7. CASE CmdContinue \/ CmdStepIn \/ dbgCmdStepOver
    BY <1>7, ResumeKeeps
  <1>8. CASE CmdQuit
    BY <1>8, CmdQuitKeeps
  <1>9. CASE \/ \E addr \in BreakAddresses : dbgAddBreakpoint(addr)
             \/ \E id \in 0..MaxBreakpoints - 1 : dbgRemoveBreakpoint(id)
    BY <1>9, BreakpointsKeep
  <1> QED  BY <1>1, <1>2, <1>3, <1>4, <1>5, <1>6, <1>7, <1>8, <1>9 DEF Next, Tick, LeavePrompt, Stopped

-----------------------------------------------------------------------------
(* Loading *)

\* A segment that touches nothing that is mapped is there afterwards, and nothing else
\* has changed.
LEMMA SegmentLoaded ==
  ASSUME NEW areas, M!Listed(areas), NEW s \in Segments,
         s.base + Len(s.bytes) + WordBytes <= WordSize,
         Span(s.base, Len(s.bytes)) \intersect UNION RegionsOf(areas) = {}
  PROVE  LET new == WithSegment(areas, s)
         IN /\ M!Listed(new)
            /\ RegionsOf(new) = RegionsOf(areas) \union {Span(s.base, Len(s.bytes))}
            /\ \A a \in UNION RegionsOf(areas) : MemOf(new)[a] = MemOf(areas)[a]
            /\ \A k \in DOMAIN s.bytes : MemOf(new)[s.base + k - 1] = s.bytes[k]
  <1> DEFINE base == s.base
             n == Len(s.bytes)
             i == AreaPlace(areas, base, n)
             m == memMapArea(areas, base, n)
             c == Contents(s.bytes)
             new == WithSegment(areas, s)
  <1>1. /\ base \in Nat /\ base \in Word /\ n \in Nat \ {0} /\ s.bytes \in Seq(Byte) /\ DOMAIN s.bytes = 1..n
        /\ base + n + WordBytes <= WordSize
    BY PageFacts DEF Segments, Word
  <1>2. c \in [0..(n - 1) -> Byte] /\ \A k \in 1..n : c[k - 1] = s.bytes[k]
    BY <1>1 DEF Contents
  <1>3. /\ M!Listed(m) /\ ~ExtentMapped(areas, base, n)
        /\ RegionsOf(m) = RegionsOf(areas) \union {Span(base, n)}
        /\ MemOf(m) = Cleared(MemOf(areas), Span(base, n))
    BY <1>1, Mapping
  <1>4. i \in 1..(Len(areas) + 1)
    <2>1. base + n + WordBytes <= M!WordSize
      BY <1>1, WordsOfMemory
    <2>2. M!AreaPlace(areas, base, n) \in 1..(Len(areas) + 1)
      BY <1>1, <2>1, M!Place, MemoryAssumptions
    <2> QED  BY <2>2, AreasOfMemory
  <1>5. /\ m \in Seq(Range(m)) /\ Len(m) = Len(areas) + 1 /\ m[i] = NewArea(base, n) /\ Len(areas) \in Nat
    <2>1. m = InsertAt(areas, i, NewArea(base, n))
      BY <1>1, <1>3 DEF memMapArea
    <2>2. areas \in Seq(M!Range(areas))
      BY DEF M!Listed
    <2> HIDE DEF i, m
    <2>3. Len(M!InsertAt(areas, i, NewArea(base, n))) = Len(areas) + 1
          /\ M!InsertAt(areas, i, NewArea(base, n))[i] = NewArea(base, n)
      BY <1>4, <2>2, M!Insertion, MemoryAssumptions
    <2>4. M!InsertAt(areas, i, NewArea(base, n)) = InsertAt(areas, i, NewArea(base, n))
      BY DEF M!InsertAt, InsertAt
    <2>5. m \in Seq(M!Range(m)) /\ M!Range(m) = Range(m)
      BY <1>3 DEF M!Listed, M!Range, Range
    <2> QED  BY <2>1, <2>2, <2>3, <2>4, <2>5
  <1>6. new = [m EXCEPT ![i].buffer = c]
    BY DEF WithSegment
  <1> HIDE DEF i, m, c, new
  <1>7. DOMAIN m = 1..Len(m) /\ i \in DOMAIN m /\ DOMAIN new = DOMAIN m
    BY <1>4, <1>5, <1>6
  <1>8. \A j \in DOMAIN m : j # i => new[j] = m[j]
    BY <1>6, <1>7
  <1>9. new[i] = [baseAddress |-> base, extent |-> n, buffer |-> c]
    BY <1>5, <1>6, <1>7 DEF NewArea
  <1>10. \A j \in DOMAIN m : new[j].baseAddress = m[j].baseAddress /\ new[j].extent = m[j].extent
    BY <1>5, <1>8, <1>9 DEF NewArea
  <1>11. \A j \in DOMAIN m : AreaSpan(new[j]) = AreaSpan(m[j])
    BY <1>10 DEF AreaSpan
  <1>12. RegionsOf(new) = RegionsOf(m)
    BY <1>7, <1>11 DEF RegionsOf
  <1>13. M!Listed(new)
    <2>1. \A j \in DOMAIN new : M!WellFormedArea(new[j])
      <3>1. M!WellFormedArea(new[i])
        BY <1>1, <1>2, <1>9, WordsOfMemory DEF M!WellFormedArea
      <3> QED  BY <1>3, <1>7, <1>8, <3>1 DEF M!Listed
    <2>2. new \in Seq(M!Range(new))
      <3>1. new \in [1..Len(m) -> M!Range(new)] /\ Len(m) \in Nat
        BY <1>5, <1>6, <1>7 DEF M!Range
      <3> QED  BY <3>1
    <2>3. M!AreasApart(new)
      BY <1>3, <1>7, <1>10 DEF M!Listed, M!AreasApart
    <2> QED  BY <2>1, <2>2, <2>3 DEF M!Listed
  <1>14. AreaSpan(new[i]) = Span(base, n)
    BY <1>9 DEF AreaSpan
  <1>15. ASSUME NEW a \in UNION RegionsOf(areas)
         PROVE  MemOf(new)[a] = MemOf(areas)[a]
    <2>1. a \notin Span(base, n) /\ a \in UNION RegionsOf(m) /\ a \in DOMAIN MemOf(areas)
      BY <1>3, <1>15, BytesHere
    <2>2. MemOf(m)[a] = MemOf(areas)[a]
      BY <1>3, <2>1 DEF Cleared
    <2>3. PICK j \in DOMAIN m : a \in AreaSpan(m[j])
      BY <1>3, <2>1, BytesHere
    <2>4. j # i
      BY <1>11, <1>14, <2>1, <2>3
    <2>5. new[j] = m[j] /\ j \in DOMAIN new
      BY <1>7, <1>8, <2>4
    <2>6. a \in AreaSpan(new[j])
      BY <2>3, <2>5
    <2>7. MemOf(m)[a] = m[j].buffer[a - m[j].baseAddress]
      <3>1. M!Listed(m)
        BY <1>3
      <3> QED  BY <2>3, <3>1, BytesHere
    <2>8. MemOf(new)[a] = new[j].buffer[a - new[j].baseAddress]
      BY <1>13, <2>5, <2>6, BytesHere
    <2> QED  BY <2>2, <2>5, <2>7, <2>8
  <1>16. ASSUME NEW k \in DOMAIN s.bytes
         PROVE  MemOf(new)[s.base + k - 1] = s.bytes[k]
    <2> DEFINE a == s.base + k - 1
    <2>1. a \in Span(base, n) /\ a - base = k - 1
      BY <1>1 DEF Span
    <2> HIDE DEF a
    <2>2. i \in DOMAIN new /\ a \in AreaSpan(new[i])
      BY <1>7, <1>14, <2>1
    <2>3. MemOf(new)[a] = new[i].buffer[a - new[i].baseAddress]
      BY <1>13, <2>2, BytesHere
    <2>4. MemOf(new)[a] = c[a - base]
      BY <1>9, <2>3
    <2> QED  BY <1>1, <1>2, <2>1, <2>4 DEF a
  <1> QED  BY <1>3, <1>12, <1>13, <1>15, <1>16 DEF new

\* A set that holds 0 and with each natural the next one holds them all.
LEMMA InductiveSet ==
  ASSUME NEW S, 0 \in S, \A n \in Nat : n \in S => n + 1 \in S
  PROVE  \A n \in Nat : n \in S
  <1> DEFINE T == Nat \ S
  <1> SUFFICES ASSUME T # {} PROVE FALSE
    OBVIOUS
  <1>1. T \in SUBSET Nat
    OBVIOUS
  <1>2. PICK x \in T : \A y \in T : ~ (<<y, x>> \in M!NatLess)
    <2> HIDE DEF T, M!NatLess
    <2>1. QED BY <1>1, M!NatLessWellFounded, M!WFMin, MemoryAssumptions, Zenon
  <1>3. x - 1 \in Nat /\ <<x - 1, x>> \in M!NatLess
    BY DEF M!NatLess
  <1>4. x - 1 \in S
    BY <1>2, <1>3
  <1>5. QED BY <1>3, <1>4

\* The recursive function of Loaded is what its definition says.
LoadedUpTo(segments, h, n) ==
  h = [k \in 0..n |-> IF k = 0 THEN <<>> ELSE WithSegment(h[k - 1], segments[k])]

LEMMA LoadedUpToExists ==
  ASSUME NEW segments
  PROVE  \A n \in Nat : \E h : LoadedUpTo(segments, h, n)
  <1> DEFINE S == {n \in Nat : \E h : LoadedUpTo(segments, h, n)}
  <1>1. 0 \in S
    <2> DEFINE h == [k \in 0..0 |-> <<>>]
    <2>1. LoadedUpTo(segments, h, 0)
      BY DEF LoadedUpTo
    <2> QED  BY <2>1
  <1>2. ASSUME NEW n \in Nat, n \in S
        PROVE  n + 1 \in S
    <2>1. PICK h : LoadedUpTo(segments, h, n)
      BY <1>2
    <2> DEFINE g == [k \in 0..(n + 1) |-> IF k = 0 THEN <<>> ELSE WithSegment(h[k - 1], segments[k])]
    <2>2. \A k \in 0..n : h[k] = IF k = 0 THEN <<>> ELSE WithSegment(h[k - 1], segments[k])
      BY <2>1, Zenon DEF LoadedUpTo
    <2>3. \A k \in 0..n : g[k] = h[k]
      BY <2>2
    <2>4. \A k \in 0..(n + 1) : (IF k = 0 THEN <<>> ELSE WithSegment(h[k - 1], segments[k]))
                              = (IF k = 0 THEN <<>> ELSE WithSegment(g[k - 1], segments[k]))
      <3> SUFFICES ASSUME NEW k \in 0..(n + 1), k # 0
                   PROVE  h[k - 1] = g[k - 1]
        OBVIOUS
      <3> HIDE DEF g
      <3> QED  BY <2>3
    <2>5. LoadedUpTo(segments, g, n + 1)
      BY <2>4, Zenon DEF LoadedUpTo
    <2> HIDE DEF g
    <2> QED  BY <2>5
  <1> HIDE DEF S
  <1>3. \A n \in Nat : n \in S
    <2>1. \A n \in Nat : n \in S => n + 1 \in S
      BY <1>2
    <2> QED  BY <1>1, <2>1, InductiveSet
  <1> QED  BY <1>3 DEF S

\* What is mapped once the program is loaded
LEMMA ProgramLoaded ==
  ASSUME NEW p \in Programs
  PROVE  LET n == Len(p.segments)
             SpanAt(k) == Span(p.segments[k].base, Len(p.segments[k].bytes))
         IN /\ p.segments \in Seq(Segments) /\ DOMAIN p.segments = 1..n
            /\ M!Listed(Loaded(p.segments))
            /\ RegionsOf(Loaded(p.segments)) = {SpanAt(k) : k \in 1..n}
            /\ \A k \in 1..n : \A j \in DOMAIN p.segments[k].bytes :
                 MemOf(Loaded(p.segments))[p.segments[k].base + j - 1] = p.segments[k].bytes[j]
  <1> DEFINE seg == p.segments
             n == Len(seg)
             SpanAt(k) == Span(seg[k].base, Len(seg[k].bytes))
             F == CHOOSE h : LoadedUpTo(seg, h, n)
             Good(k) == /\ M!Listed(F[k])
                        /\ RegionsOf(F[k]) = {SpanAt(l) : l \in 1..k}
                        /\ \A l \in 1..k : \A j \in DOMAIN seg[l].bytes :
                             MemOf(F[k])[seg[l].base + j - 1] = seg[l].bytes[j]
  <1>1. seg \in Seq(Segments) /\ n \in Nat /\ DOMAIN seg = 1..n
    BY ProgramsAssumption
  <1>2. Loaded(seg) = F[n]
    BY DEF Loaded, LoadedUpTo
  <1>3. LoadedUpTo(seg, F, n)
    BY <1>1, LoadedUpToExists
  <1> HIDE DEF F
  <1>4. \A k \in 0..n : F[k] = IF k = 0 THEN <<>> ELSE WithSegment(F[k - 1], seg[k])
    BY <1>3, Zenon DEF LoadedUpTo
  <1>5. \A k \in 1..n : /\ seg[k] \in Segments
                        /\ seg[k].base + Len(seg[k].bytes) + WordBytes <= WordSize
                        /\ \A l \in 1..n : l # k => SpanAt(k) \intersect SpanAt(l) = {}
    <2> SUFFICES ASSUME NEW k \in 1..n
                 PROVE  /\ seg[k] \in Segments
                        /\ seg[k].base + Len(seg[k].bytes) + WordBytes <= WordSize
                        /\ \A l \in 1..n : l # k => SpanAt(k) \intersect SpanAt(l) = {}
      OBVIOUS
    <2>1. k \in DOMAIN p.segments /\ seg[k] \in Segments
      BY <1>1
    <2>2. LET SpanOf(t) == Span(t.base, Len(t.bytes))
          IN /\ seg[k].base + Len(seg[k].bytes) + WordBytes <= WordSize
             /\ \A j \in DOMAIN p.segments \ {k} : SpanOf(seg[k]) \intersect SpanOf(p.segments[j]) = {}
      BY <2>1, ProgramsAssumption, Zenon
    <2> QED  BY <1>1, <2>1, <2>2
  <1> HIDE DEF seg, n
  <1> DEFINE S == {k \in Nat : k <= n => Good(k)}
  <1>6. 0 \in S
    <2>1. F[0] = <<>>
      BY <1>1, <1>4
    <2>2. M!Listed(<<>>)
      BY DEF M!Listed, M!AreasApart, M!Range
    <2>3. RegionsOf(<<>>) = {}
      BY DEF RegionsOf
    <2> QED  BY <2>1, <2>2, <2>3
  <1>7. ASSUME NEW k \in Nat, k \in S
        PROVE  k + 1 \in S
    <2> SUFFICES ASSUME k + 1 <= n PROVE Good(k + 1)
      OBVIOUS
    <2> DEFINE s == seg[k + 1]
               old == F[k]
               new == F[k + 1]
    <2>1. Good(k) /\ k + 1 \in 1..n /\ k \in 0..n /\ k + 1 \in 0..n /\ k + 1 # 0 /\ (k + 1) - 1 = k
      BY <1>1, <1>7
    <2>2. new = WithSegment(old, s)
      BY <1>4, <2>1
    <2>3. s \in Segments /\ s.base + Len(s.bytes) + WordBytes <= WordSize
      BY <1>5, <2>1
    <2>4. Span(s.base, Len(s.bytes)) \intersect UNION RegionsOf(old) = {}
      <3>1. \A l \in 1..k : l \in 1..n /\ l # k + 1
        BY <1>1, <2>1
      <3>2. \A l \in 1..k : SpanAt(k + 1) \intersect SpanAt(l) = {}
        BY <1>5, <2>1, <3>1
      <3> QED  BY <2>1, <3>2
    <2>5. M!Listed(old)
      BY <2>1
    <2>6. /\ M!Listed(new)
          /\ RegionsOf(new) = RegionsOf(old) \union {Span(s.base, Len(s.bytes))}
          /\ \A a \in UNION RegionsOf(old) : MemOf(new)[a] = MemOf(old)[a]
          /\ \A j \in DOMAIN s.bytes : MemOf(new)[s.base + j - 1] = s.bytes[j]
      <3> HIDE DEF s, old, new
      <3> QED  BY <2>2, <2>3, <2>4, <2>5, SegmentLoaded
    <2>7. RegionsOf(new) = {SpanAt(l) : l \in 1..(k + 1)}
      <3>1. \A l : l \in 1..(k + 1) <=> l \in 1..k \/ l = k + 1
        OBVIOUS
      <3> HIDE DEF new
      <3> QED  BY <2>1, <2>6, <3>1
    <2>8. ASSUME NEW l \in 1..(k + 1), NEW j \in DOMAIN seg[l].bytes
          PROVE  MemOf(new)[seg[l].base + j - 1] = seg[l].bytes[j]
      <3>1. CASE l = k + 1
        BY <2>6, <3>1
      <3>2. CASE l # k + 1
        <4>1. l \in 1..k /\ l \in 1..n
          BY <1>1, <2>1, <3>2
        <4>2. seg[l].base \in Nat /\ j \in 1..Len(seg[l].bytes) /\ Len(seg[l].bytes) \in Nat
          <5>1. seg[l].base \in Word /\ seg[l].bytes \in Seq(Byte)
            BY <1>5, <4>1 DEF Segments
          <5> QED  BY <5>1, PageFacts DEF Word
        <4>3. seg[l].base + j - 1 \in SpanAt(l)
          BY <4>2 DEF Span
        <4>4. SpanAt(l) \in RegionsOf(old)
          BY <2>1, <4>1
        <4>5. MemOf(new)[seg[l].base + j - 1] = MemOf(old)[seg[l].base + j - 1]
          BY <2>6, <4>3, <4>4
        <4>6. MemOf(old)[seg[l].base + j - 1] = seg[l].bytes[j]
          BY <2>1, <4>1
        <4> QED  BY <4>5, <4>6
      <3> QED  BY <3>1, <3>2
    <2> QED  BY <2>6, <2>7, <2>8
  <1> HIDE DEF S
  <1>8. \A k \in Nat : k \in S
    <2>1. \A k \in Nat : k \in S => k + 1 \in S
      BY <1>7
    <2> QED  BY <1>6, <2>1, InductiveSet
  <1>9. Good(n)
    BY <1>1, <1>8 DEF S
  <1> QED  BY <1>1, <1>2, <1>9 DEF seg, n

\* The first page of the stack is mapped after the segments.
LEMMA StackLoaded ==
  ASSUME NEW p \in Programs
  PROVE  LET loaded == Loaded(p.segments)
             areas  == memMapArea(loaded, StackTop - PageSize, PageSize)
         IN /\ M!Listed(areas)
            /\ RegionsOf(areas) = RegionsOf(loaded) \union {PageBelow(StackTop)}
            /\ MemOf(areas) = Cleared(MemOf(loaded), PageBelow(StackTop))
            /\ PageBelow(StackTop) \intersect UNION RegionsOf(loaded) = {}
  <1> DEFINE loaded == Loaded(p.segments)
             base == StackTop - PageSize
             SpanAt(k) == Span(p.segments[k].base, Len(p.segments[k].bytes))
  <1>1. /\ M!Listed(loaded) /\ DOMAIN p.segments = 1..Len(p.segments)
        /\ RegionsOf(loaded) = {SpanAt(k) : k \in 1..Len(p.segments)}
    BY ProgramLoaded
  <1>2. \A k \in DOMAIN p.segments : SpanAt(k) \intersect Span(base, PageSize) = {}
    BY ProgramsAssumption, Zenon
  <1>3. Span(base, PageSize) \intersect UNION RegionsOf(loaded) = {}
    BY <1>1, <1>2
  <1>4. base \in Nat /\ PageSize \in Nat \ {0} /\ base + PageSize + WordBytes <= WordSize
    BY PageFacts
  <1> HIDE DEF loaded, base
  <1>5. LET areas == memMapArea(loaded, base, PageSize)
        IN /\ M!Listed(areas)
           /\ RegionsOf(areas) = RegionsOf(loaded) \union {Span(base, PageSize)}
           /\ MemOf(areas) = Cleared(MemOf(loaded), Span(base, PageSize))
    BY <1>1, <1>3, <1>4, Mapping
  <1>6. PageBelow(StackTop) = Span(base, PageSize)
    BY DEF PageBelow, base
  <1>7. PageBelow(StackTop) \intersect UNION RegionsOf(loaded) = {}
    BY <1>3, <1>6, Zenon
  <1> QED  BY <1>5, <1>6, <1>7, Zenon DEF loaded, base

LEMMA InitKeeps == Init => IInv
  <1> SUFFICES ASSUME Init PROVE IInv
    OBVIOUS
  <1>1. PICK p \in Programs : memAreas = memMapArea(Loaded(p.segments), StackTop - PageSize, PageSize)
                              /\ cpuPC = p.entry
    BY DEF Init
  <1>2. HardwareTyped
    <2>1. M!Listed(memAreas)
      BY <1>1, StackLoaded
    <2>2. cpuPC \in Word
      BY <1>1, ProgramsAssumption
    <2>3. StackTop - WordBytes \in Word /\ 0 \in Word /\ ZERO \in Registers /\ ZERO # SP
      BY PageFacts, ZeroRegister DEF Word, ZERO, SP
    <2> QED  BY <2>1, <2>2, <2>3 DEF Init, HardwareTyped
  <1>3. StackTyped
    <2> DEFINE k == StackTop \div PageSize
    <2>1. StackTop % PageSize = 0
      BY MachineAssumption
    <2>2. StackTop = PageSize * k /\ k \in Nat
      BY <2>1, PageFacts
    <2> HIDE DEF k
    <2>3. k # 0
      BY <2>2, PageFacts
    <2>4. k - 1 \in Nat /\ StackTop - PageSize = (k - 1) * PageSize
      BY <2>2, <2>3, PageFacts
    <2>5. svStackBottom = StackTop - PageSize
      BY DEF Init
    <2> QED  BY <2>4, <2>5, PageFacts DEF StackTyped
  <1>4. FlowInv
    BY ZeroRegister DEF Init, FlowInv
  <1>5. RefusalInv
    BY DEF Init, RefusalInv
  <1>6. StackInv
    <2>1. PageBelow(StackTop) \in RegionsOf(memAreas)
      BY <1>1, StackLoaded
    <2>2. svStackBottom..(StackTop - 1) = PageBelow(StackTop)
      <3>1. svStackBottom = StackTop - PageSize
        BY DEF Init
      <3> QED  BY <3>1, PageFacts DEF PageBelow, Span
    <2> QED  BY <2>1, <2>2 DEF StackInv, StackIsMapped
  <1>7. PICK debug \in BOOLEAN :
          dbg = [enabled |-> debug, userRequestsEnter |-> debug, stepIn |-> FALSE,
                 stepOver |-> FALSE, stepOverAddr |-> 0, breakpoints |-> <<>>, lastID |-> 0]
    BY MachineAssumption DEF Init
  <1>8. watch = [asked |-> "start", returnTo |-> -1, ran |-> 0, broke |-> FALSE, prompted |-> FALSE]
        /\ phase = "debug"
    BY DEF Init
  <1>9. DebuggerTyped
    BY <1>7, <1>8, ZeroRegister DEF DebuggerTyped
  <1>10. DebuggerInv
    BY <1>7, <1>8 DEF DebuggerInv
  <1> QED  BY <1>2, <1>3, <1>4, <1>5, <1>6, <1>9, <1>10 DEF IInv

-----------------------------------------------------------------------------
(* What follows from it *)

\* At every moment of every turn of the loop (svVMTick) all parts of the invariant hold.
THEOREM MachineInvariant == Spec => []IInv
  <1>1. Init => IInv
    BY InitKeeps
  <1>2. IInv /\ [Next]_vars => IInv'
    BY NextKeeps
  <1> QED  BY <1>1, <1>2, PTL DEF Spec

\* Whatever a program does, registers and memory hold words and bytes, x0 holds zero, and
\* the driver is in one of its phases.
THEOREM TypesCorrect == Spec => []TypeOK
  <1>1. IInv => TypeOK
    <2> SUFFICES ASSUME IInv PROVE TypeOK
      OBVIOUS
    <2>1. \A i \in DOMAIN memAreas : memAreas[i].buffer \in [0..(memAreas[i].extent - 1) -> Byte]
      BY AreaHere DEF IInv, HardwareTyped
    <2>2. svStackBottom \in Word
      <3>1. PICK k \in Nat : svStackBottom = k * PageSize
        BY DEF IInv, StackTyped
      <3>2. svStackBottom \in Nat
        BY <3>1, PageFacts
      <3> QED  BY <3>2, PageFacts DEF IInv, StackTyped, Word
    <2> QED  BY <2>1, <2>2 DEF IInv, HardwareTyped, FlowInv, TypeOK
  <1> QED  BY <1>1, MachineInvariant, PTL

\* While a program runs, its whole stack is mapped: svExpandStack moves the bottom of the
\* stack whether or not the page could be mapped (supervisor.c:29), and a program for
\* which it could not be mapped is stopped before its next instruction.
THEOREM StackIsThere == Spec => []StackMapped
  <1>1. IInv => StackMapped
    <2>1. status = "RUNNING" /\ phase \notin {"retry", "handle"} /\ IInv => StackIsMapped
      BY DEF IInv, StackInv
    <2> QED  BY <2>1 DEF StackMapped, StackIsMapped
  <1> QED  BY <1>1, MachineInvariant, PTL

\* A step of the debugger runs one instruction, also when the stack grows under it and
\* the instruction is tried twice.
THEOREM OneInstructionAtATime == Spec => []StepsOneInstruction
  <1>1. IInv => StepsOneInstruction
    BY DEF IInv, DebuggerInv, StepsOneInstruction
  <1> QED  BY <1>1, MachineInvariant, PTL

\* The debugger stops for what was asked last, at a break point, or after a break
\* instruction.
THEOREM EveryStopHasAReason == Spec => StopsHaveAReason
  <1> DEFINE Reason ==
        \/ watch.asked = "start" /\ watch.ran = 0
        \/ watch.asked = "s" /\ watch.ran = 1
        \/ watch.asked = "n" /\ cpuPC = watch.returnTo
        \/ watch.broke
        \/ AtBreakpoint
  <1>1. IInv /\ [Next]_vars => [DbgEnter => Reason]_vars
    <2> SUFFICES ASSUME IInv, DbgEnter PROVE Reason
      OBVIOUS
    <2>1. phase = "debug" /\ status = "RUNNING"
          /\ (dbg.userRequestsEnter \/ dbg.stepIn \/ (dbg.stepOver /\ dbg.stepOverAddr = cpuPC) \/ AtBreakpoint)
      BY DEF DbgEnter, Ticking, dbgCheckTrigger
    <2> QED  BY <2>1 DEF IInv, DebuggerInv
  <1>2. Spec => [][Next]_vars
    BY PTL DEF Spec
  <1> QED  BY <1>1, <1>2, MachineInvariant, PTL DEF StopsHaveAReason

\* No instruction at a break point runs unless the debugger was entered in the same turn.
THEOREM BreakpointsHold == Spec => NothingRunsPastABreakpoint
  <1>1. IInv /\ [Next]_vars => [Cpu /\ Executes /\ AtBreakpoint => watch.prompted]_vars
    <2> SUFFICES ASSUME IInv, Cpu, AtBreakpoint PROVE watch.prompted
      OBVIOUS
    <2>1. phase \in {"cpu", "retry"}
      BY DEF Cpu
    <2> QED  BY <2>1 DEF IInv, DebuggerInv
  <1>2. Spec => [][Next]_vars
    BY PTL DEF Spec
  <1> QED  BY <1>1, <1>2, MachineInvariant, PTL DEF NothingRunsPastABreakpoint

-----------------------------------------------------------------------------
(* The simulator is a RISC-V processor. *)

OutcomeNames ==
  [RUNNING |-> "running", TERMINATED |-> "terminated", KILLED |-> "killed",
   MEMORY_FAULT |-> "memory fault", ILL_INST_FAULT |-> "illegal instruction",
   INVALID_SYSCALL |-> "invalid syscall"]

LEMMA OutcomeFacts ==
  /\ Outcome = OutcomeNames[status] /\ Outcome' = OutcomeNames[status']
  /\ OutcomeNames["RUNNING"] = "running" /\ OutcomeNames["TERMINATED"] = "terminated"
  /\ OutcomeNames["KILLED"] = "killed" /\ OutcomeNames["MEMORY_FAULT"] = "memory fault"
  /\ OutcomeNames["ILL_INST_FAULT"] = "illegal instruction"
  /\ OutcomeNames["INVALID_SYSCALL"] = "invalid syscall"
  BY DEF Outcome, OutcomeNames

LEMMA PagesOfHart == \A b : Abstract!StackPage(b) = PageBelow(b)
  BY WordsOfHart DEF Abstract!StackPage, PageBelow

LEMMA InitIsHart == Init => Abstract!HartInit
  <1> SUFFICES ASSUME Init PROVE Abstract!HartInit
    OBVIOUS
  <1>1. PICK p \in Programs : memAreas = memMapArea(Loaded(p.segments), StackTop - PageSize, PageSize)
                              /\ cpuPC = p.entry
    BY DEF Init
  <1> DEFINE seg    == p.segments
             loaded == Loaded(seg)
             spans  == {Abstract!SegmentSpan(seg[i]) : i \in DOMAIN seg}
             byteAt == UNION {{<<s.base + k - 1, s.bytes[k]>> : k \in DOMAIN s.bytes} :
                                s \in {seg[i] : i \in DOMAIN seg}}
             page   == Abstract!StackPage(StackTop)
             h(a)   == (CHOOSE b \in byteAt : b[1] = a)[2]
             all    == UNION spans
             mem    == [a \in all \union page |-> IF a \in all THEN h(a) ELSE 0]
  <1>2. page = PageBelow(StackTop)
    BY PagesOfHart
  <1>3. /\ seg \in Seq(Segments) /\ DOMAIN seg = 1..Len(seg) /\ M!Listed(loaded)
        /\ RegionsOf(loaded) = {Span(seg[k].base, Len(seg[k].bytes)) : k \in 1..Len(seg)}
        /\ \A k \in 1..Len(seg) : \A j \in DOMAIN seg[k].bytes :
             MemOf(loaded)[seg[k].base + j - 1] = seg[k].bytes[j]
    BY ProgramLoaded
  <1>4. spans = RegionsOf(loaded)
    BY <1>3, WordsOfHart DEF Abstract!SegmentSpan
  <1>5. /\ RegionsOf(memAreas) = RegionsOf(loaded) \union {page}
        /\ MemOf(memAreas) = Cleared(MemOf(loaded), page)
        /\ page \intersect UNION RegionsOf(loaded) = {}
    BY <1>1, <1>2, StackLoaded
  <1>6. \A b \in byteAt : MemOf(loaded)[b[1]] = b[2]
    <2> SUFFICES ASSUME NEW i \in DOMAIN seg, NEW k \in DOMAIN seg[i].bytes
                 PROVE  MemOf(loaded)[seg[i].base + k - 1] = seg[i].bytes[k]
      OBVIOUS
    <2> QED  BY <1>3
  <1>7. \A a \in UNION spans : \E b \in byteAt : b[1] = a
    <2> SUFFICES ASSUME NEW a \in UNION spans PROVE \E b \in byteAt : b[1] = a
      OBVIOUS
    <2>0. PICK i \in DOMAIN seg : a \in Abstract!SegmentSpan(seg[i])
      OBVIOUS
    <2>5. a \in Span(seg[i].base, Len(seg[i].bytes))
      BY <2>0, WordsOfHart DEF Abstract!SegmentSpan
    <2>1. seg[i].base \in Nat /\ seg[i].bytes \in Seq(Byte)
      <3>1. seg[i] \in Segments
        BY <1>3
      <3> QED  BY <3>1, PageFacts DEF Segments, Word
    <2> DEFINE k == a - seg[i].base + 1
               b == <<seg[i].base + k - 1, seg[i].bytes[k]>>
    <2>2. k \in DOMAIN seg[i].bytes /\ seg[i].base + k - 1 = a
      BY <2>1, <2>5 DEF Span
    <2> HIDE DEF k
    <2>3. b \in byteAt
      BY <2>2
    <2>4. b[1] = a
      BY <2>2
    <2> HIDE DEF b, byteAt
    <2> QED  BY <2>3, <2>4
  <1> DEFINE m == MemOf(loaded)
  <1>8. \A a \in all : h(a) = m[a]
    <2> SUFFICES ASSUME NEW a \in all PROVE h(a) = m[a]
      OBVIOUS
    <2> DEFINE b == CHOOSE b \in byteAt : b[1] = a
    <2> HIDE DEF byteAt, all
    <2>1. b \in byteAt /\ b[1] = a
      BY <1>7 DEF all
    <2> HIDE DEF b
    <2>2. m[b[1]] = b[2]
      BY <1>6, <2>1
    <2>3. b[2] = m[a]
      BY <2>1, <2>2
    <2> QED  BY <2>3 DEF b
  <1>9. DOMAIN m = all
    BY <1>3, <1>4, BytesHere
  <1>10. \A a \in all : a \notin page
    BY <1>4, <1>5
  <1>11. MemOf(memAreas) = mem
    <2>2. MemOf(memAreas) = [a \in all \union page |-> IF a \in page THEN 0 ELSE m[a]]
      <3> HIDE DEF page, all, m, loaded
      <3> QED  BY <1>5, <1>9 DEF m, Cleared
    <2> HIDE DEF h, all, page, m
    <2> QED  BY <1>8, <1>10, <2>2
  <1>12. RegionsOf(memAreas) = spans \union {page}
    BY <1>4, <1>5
  <1> HIDE DEF mem, spans, page
  <1>13. /\ cpuPC = p.entry /\ svStackBottom = StackTop - PageSize
         /\ cpuRegs = Abstract!InitialRegisters /\ Outcome = "running" /\ svExitCode = 0 /\ stdout = <<0, 0, 0>>
    BY <1>1, OutcomeFacts DEF Init, Abstract!InitialRegisters, SP, Abstract!SP
  <1>14. /\ RegionsOf(memAreas) = spans \union {page}
         /\ MemOf(memAreas) = mem
         /\ cpuPC = p.entry
    BY <1>11, <1>12, <1>13
  <1>15. \E q \in Programs :
           LET spansOf  == {Abstract!SegmentSpan(q.segments[i]) : i \in DOMAIN q.segments}
               bytesOf == UNION {{<<s.base + k - 1, s.bytes[k]>> : k \in DOMAIN s.bytes} :
                                   s \in {q.segments[i] : i \in DOMAIN q.segments}}
           IN /\ RegionsOf(memAreas) = spansOf \union {Abstract!StackPage(StackTop)}
              /\ MemOf(memAreas) = [a \in (UNION spansOf) \union Abstract!StackPage(StackTop) |->
                                     IF a \in UNION spansOf THEN (CHOOSE b \in bytesOf : b[1] = a)[2] ELSE 0]
              /\ cpuPC = q.entry
    <2> WITNESS p \in Programs
    <2> QED  BY <1>14, Zenon DEF mem, spans, page
  <1> QED  BY <1>13, <1>15, Zenon DEF Abstract!HartInit

\* Steps the program does not see
LEMMA Unseen ==
  ASSUME UNCHANGED <<memAreas, svStackBottom, cpuPC, cpuRegs, status, svExitCode, stdout>>
  PROVE  UNCHANGED Abstract!hartVars
  BY DEF Abstract!hartVars, Outcome

LEMMA RegisterNames ==
  /\ Abstract!ZERO = ZERO /\ Abstract!A0 = A0 /\ Abstract!A7 = A7
  BY DEF Abstract!ZERO, ZERO, Abstract!A0, A0, Abstract!A7, A7

\* An instruction that completes is one that Hart executes.
LEMMA EffectIsHart ==
  ASSUME LinksThroughOthers, HardwareTyped, NEW i, i = InstrAt(memAreas, cpuPC),
         Accessible(RegionsOf(memAreas), cpuPC, WordBytes),
         RefusedAt(memAreas, cpuPC, cpuRegs) = {}, Effect(i),
         UNCHANGED <<svStackBottom, status, svExitCode, stdout>>
  PROVE  Abstract!Execute
  <1>1. Abstract!Refused = {} /\ Abstract!instr = i /\ Abstract!DataAddr(i) = AddrOf(i, cpuRegs)
    BY RefusedIsRefused
  <1>2. i.op = "JALR" => i.rd # i.rs1
    <2>1. Value(MemOf(memAreas), cpuPC, WordBytes) \in Word
      BY InstrTyped DEF HardwareTyped
    <2> QED  BY <2>1 DEF LinksThroughOthers, InstrAt
  <1>3. UNCHANGED <<RegionsOf(memAreas), svStackBottom, Outcome, svExitCode, stdout>>
    BY DEF Effect, Outcome
  <1>4. Abstract!Wrap(cpuPC + WordBytes) = Wrap(cpuPC + WordBytes) /\ Abstract!Wrap(cpuPC + i.imm) = Wrap(cpuPC + i.imm)
        /\ \A x : Abstract!Wrap(x) = Wrap(x)
    BY WordsOfHart
  <1>5. CASE i.op = "ADDI"
    <2>1. Abstract!SetReg(i.rd, Abstract!Wrap(cpuRegs[i.rs1] + i.imm)) /\ MemOf(memAreas)' = MemOf(memAreas)
          /\ Abstract!FallThrough
      BY <1>4, <1>5, RegisterNames DEF Effect, AddrOf, Abstract!SetReg, Abstract!FallThrough
    <2>2. Abstract!Computes(i)
      BY <1>3, <1>5, <2>1 DEF Abstract!Computes
    <2> QED  BY <1>1, <1>3, <2>2 DEF Abstract!Execute
  <1>6. CASE i.op = "LOAD"
    <2>1. Abstract!Value(MemOf(memAreas), Abstract!DataAddr(i), i.size) = Value(MemOf(memAreas), AddrOf(i, cpuRegs), i.size)
      BY <1>1, WordsOfHart
    <2>2. Abstract!SetReg(i.rd, Abstract!Extended(Abstract!Value(MemOf(memAreas), Abstract!DataAddr(i), i.size), i.size, i.signed))
          /\ MemOf(memAreas)' = MemOf(memAreas) /\ Abstract!FallThrough
      BY <1>4, <1>6, <2>1, RegisterNames DEF Effect, Abstract!SetReg, Abstract!FallThrough
    <2>3. Abstract!Computes(i)
      BY <1>3, <1>6, <2>2 DEF Abstract!Computes
    <2> QED  BY <1>1, <1>3, <2>3 DEF Abstract!Execute
  <1>7. CASE i.op = "STORE"
    <2>1. /\ MemOf(memAreas)' = Abstract!Stored(MemOf(memAreas), Abstract!DataAddr(i), i.size, cpuRegs[i.rs2])
          /\ cpuRegs' = cpuRegs /\ Abstract!FallThrough
      BY <1>1, <1>4, <1>7, WordsOfHart DEF Effect, Abstract!FallThrough
    <2>2. Abstract!Computes(i)
      BY <1>3, <1>7, <2>1 DEF Abstract!Computes
    <2> QED  BY <1>1, <1>3, <2>2 DEF Abstract!Execute
  <1>8. CASE i.op \in {"BEQ", "JAL", "JALR"}
    <2>1. MemOf(memAreas)' = MemOf(memAreas)
      BY <1>8 DEF Effect
    <2>2. \/ /\ i.op = "BEQ"
             /\ cpuPC' = Abstract!Wrap(cpuPC + (IF cpuRegs[i.rs1] = cpuRegs[i.rs2] THEN i.imm ELSE WordBytes))
             /\ cpuRegs' = cpuRegs
          \/ /\ i.op = "JAL"
             /\ cpuPC' = Abstract!Wrap(cpuPC + i.imm)
             /\ Abstract!SetReg(i.rd, Abstract!Wrap(cpuPC + WordBytes))
          \/ /\ i.op = "JALR"
             /\ cpuPC' = LET target == Abstract!Wrap(cpuRegs[i.rs1] + i.imm) IN target - (target % 2)
             /\ Abstract!SetReg(i.rd, Abstract!Wrap(cpuPC + WordBytes))
      BY <1>2, <1>4, <1>8, RegisterNames DEF Effect, AddrOf, Abstract!SetReg
    <2>3. Abstract!Jumps(i)
      BY <1>3, <2>1, <2>2 DEF Abstract!Jumps
    <2> QED  BY <1>1, <1>3, <2>3 DEF Abstract!Execute
  <1> QED  BY <1>5, <1>6, <1>7, <1>8 DEF Effect

LEMMA CpuIsHart ==
  ASSUME LinksThroughOthers, IInv, Cpu
  PROVE  Abstract!HartNext \/ UNCHANGED Abstract!hartVars
  <1>1. cpuTick /\ UNCHANGED <<svStackBottom, svExitCode, stdout, status>>
        /\ status = "RUNNING" /\ lastStatus = "OK"
    BY DEF Cpu, svV, IInv, FlowInv
  <1>2. CASE TurnFaults \/ TurnTraps
    BY <1>1, <1>2, Unseen DEF TurnFaults, TurnTraps, memV
  <1>3. CASE TurnCompletes /\ Effect(InstrAt(memAreas, cpuPC))
    <2>1. RefusedAt(memAreas, cpuPC, cpuRegs) = {}
      BY <1>3 DEF TurnCompletes
    <2>2. Accessible(RegionsOf(memAreas), cpuPC, WordBytes)
      BY <2>1 DEF RefusedAt
    <2>3. Abstract!Execute
      BY <1>1, <1>3, <2>1, <2>2, EffectIsHart DEF IInv
    <2> QED  BY <1>1, <2>3, OutcomeFacts DEF Abstract!HartNext
  <1> QED  BY <1>1, <1>2, <1>3, Turn DEF IInv

LEMMA svExpandStackIsHart ==
  ASSUME IInv, svExpandStack
  PROVE  Abstract!HartNext \/ UNCHANGED Abstract!hartVars
  <1>1. /\ phase = "expand" /\ UNCHANGED <<cpuRegs, svExitCode, stdout, status>>
    BY DEF svExpandStack
  <1>2. lastStatus = "MEMORY_FAULT" /\ RefusedAt(memAreas, cpuPC, cpuRegs) = {memLastFaultAddress}
        /\ status = "RUNNING"
    BY <1>1 DEF IInv, FlowInv, RefusalInv
  <1>3. UNCHANGED cpuPC /\ (Grown \/ UNCHANGED <<memAreas, svStackBottom>>)
    BY <1>2, Growth DEF IInv
  <1>4. CASE UNCHANGED <<memAreas, svStackBottom>>
    BY <1>1, <1>3, <1>4, Unseen
  <1>5. CASE Grown
    <2> DEFINE page == PageBelow(svStackBottom)
    <2>1. Abstract!Refused \intersect Abstract!StackPage(svStackBottom) # {}
          /\ Abstract!StackPage(svStackBottom) = page
      BY <1>5, RefusedIsRefused, PagesOfHart DEF Grown
    <2>2. DOMAIN MemOf(memAreas) = UNION RegionsOf(memAreas)
      BY BytesHere DEF IInv, HardwareTyped
    <2>3. UNCHANGED <<cpuPC, cpuRegs, Outcome, svExitCode, stdout>>
      BY <1>1, <1>3 DEF Outcome
    <2>4. svStackBottom' = svStackBottom - PageSize
      BY <1>5 DEF Grown
    <2>5. IF page \intersect UNION RegionsOf(memAreas) = {}
            THEN /\ RegionsOf(memAreas)' = RegionsOf(memAreas) \union {page}
                 /\ MemOf(memAreas)' = Abstract!Cleared(MemOf(memAreas), page)
            ELSE UNCHANGED <<MemOf(memAreas), RegionsOf(memAreas)>>
      BY <1>5, WordsOfHart DEF Grown
    <2>6. IF page \intersect DOMAIN MemOf(memAreas) = {}
            THEN /\ RegionsOf(memAreas)' = RegionsOf(memAreas) \union {page}
                 /\ MemOf(memAreas)' = Abstract!Cleared(MemOf(memAreas), page)
            ELSE UNCHANGED <<MemOf(memAreas), RegionsOf(memAreas)>>
      BY <2>2, <2>5, Zenon
    <2> HIDE DEF page
    <2>7. Abstract!GrowStack
      BY <2>1, <2>3, <2>4, <2>6, Zenon DEF Abstract!GrowStack
    <2> QED  BY <1>2, <2>7, OutcomeFacts DEF Abstract!HartNext
  <1> QED  BY <1>3, <1>4, <1>5

LEMMA HandleIsHart ==
  ASSUME IInv, Handle
  PROVE  Abstract!HartNext \/ UNCHANGED Abstract!hartVars
  <1> DEFINE i == InstrAt(memAreas, cpuPC)
             next == Wrap(cpuPC + WordBytes)
  <1>1. status = "RUNNING" /\ UNCHANGED <<memAreas, svStackBottom>> /\ Outcome = "running"
    BY HandleFacts, OutcomeFacts
  <1>2. UNCHANGED <<MemOf(memAreas), RegionsOf(memAreas), svStackBottom>>
    BY <1>1
  <1>3. Abstract!instr = i /\ Abstract!Refused = RefusedAt(memAreas, cpuPC, cpuRegs)
    BY RefusedIsRefused
  <1>4. Abstract!Wrap(cpuPC + WordBytes) = next
    BY WordsOfHart
  <1>5. (\A b : Abstract!StackPage(b) = PageBelow(b)) /\ Abstract!A0 = A0 /\ Abstract!A7 = A7 /\ Abstract!ZERO = ZERO
    BY PagesOfHart, RegisterNames
  <1> HIDE DEF i, next
  <1>6. CASE lastStatus = "ECALL_TRAP" /\ svHandleEnvCall
    <2>1. Abstract!Refused = {} /\ i.op = "ECALL"
      BY <1>3, <1>6 DEF IInv, RefusalInv, i
    <2> DEFINE id == cpuRegs[A7]
               arg == cpuRegs[A0]
    <2>2. Return => cpuPC' = next /\ UNCHANGED <<svExitCode, Outcome>>
      BY <1>6 DEF Return, ClearedPC, next, Outcome
    <2>3. \/ id \in {1, 11} /\ stdout' = <<1 - stdout[1], id, arg>> /\ Return /\ UNCHANGED cpuRegs
          \/ id \in {5, 12} /\ (\E ret \in Inputs : cpuRegs' = [cpuRegs EXCEPT ![A0] = ret])
             /\ Return /\ UNCHANGED stdout
          \/ id \in {10, 93} /\ svExitCode' = (IF id = 10 THEN 0 ELSE arg) /\ status' = "TERMINATED"
             /\ UNCHANGED <<cpuPC, cpuRegs, stdout>>
          \/ id \notin {1, 5, 10, 11, 12, 93} /\ status' = "INVALID_SYSCALL"
             /\ UNCHANGED <<cpuPC, cpuRegs, svExitCode, stdout>>
      BY <1>6 DEF svHandleEnvCall, Terminate
    <2>4. (status' = "TERMINATED" => Outcome' = "terminated")
          /\ (status' = "INVALID_SYSCALL" => Outcome' = "invalid syscall")
      BY OutcomeFacts
    <2>5. \A ret : [cpuRegs EXCEPT ![A0] = ret] = [cpuRegs EXCEPT ![A0] = IF A0 = ZERO THEN 0 ELSE ret]
      BY ZeroRegister
    <2>6. \/ /\ id \in {1, 11} /\ stdout' = <<1 - stdout[1], id, arg>>
             /\ Abstract!FallThrough /\ UNCHANGED <<cpuRegs, Outcome, svExitCode>>
          \/ /\ id \in {5, 12} /\ (\E v \in Inputs : Abstract!SetReg(Abstract!A0, v))
             /\ Abstract!FallThrough /\ UNCHANGED <<Outcome, svExitCode, stdout>>
          \/ /\ id \in {10, 93} /\ Outcome' = "terminated"
             /\ svExitCode' = (IF id = 10 THEN 0 ELSE arg) /\ UNCHANGED <<cpuPC, cpuRegs, stdout>>
          \/ /\ id \notin {1, 5, 10, 11, 12, 93} /\ Outcome' = "invalid syscall"
             /\ UNCHANGED <<cpuPC, cpuRegs, svExitCode, stdout>>
      <3> HIDE DEF id, arg
      <3>1. Return => Abstract!FallThrough /\ UNCHANGED <<svExitCode, Outcome>>
        BY <1>4, <2>2 DEF Abstract!FallThrough
      <3>2. \A ret : cpuRegs' = [cpuRegs EXCEPT ![A0] = ret] => Abstract!SetReg(Abstract!A0, ret)
        BY <1>5, <2>5 DEF Abstract!SetReg
      <3> QED  BY <2>3, <2>4, <3>1, <3>2
    <2>7. Abstract!EnvCall(i)
      BY <1>2, <1>5, <2>1, <2>6 DEF Abstract!EnvCall
    <2>8. Abstract!Execute
      BY <1>2, <1>3, <2>1, <2>7 DEF Abstract!Execute
    <2> QED  BY <1>1, <2>8 DEF Abstract!HartNext
  <1>7. CASE lastStatus = "EBREAK_TRAP" /\ svHandleBreak
    <2>1. Abstract!Refused = {} /\ i.op = "EBREAK"
      BY <1>3, <1>7 DEF IInv, RefusalInv, i
    <2>2. cpuPC' = next /\ UNCHANGED <<cpuRegs, svExitCode, stdout, Outcome>>
      BY <1>7 DEF svHandleBreak, ClearedPC, next, Outcome
    <2>3. Abstract!Break(i)
      BY <1>2, <1>4, <2>1, <2>2 DEF Abstract!Break, Abstract!FallThrough
    <2>4. Abstract!Execute
      BY <1>2, <1>3, <2>1, <2>3 DEF Abstract!Execute
    <2> QED  BY <1>1, <2>4 DEF Abstract!HartNext
  <1>8. CASE lastStatus \in {"MEMORY_FAULT", "ILL_INST_FAULT"} /\ status' = lastStatus
             /\ UNCHANGED <<cpuV, svExitCode, stdout, dbg>>
    <2>1. UNCHANGED <<cpuRegs, cpuPC, svExitCode, stdout>>
      BY <1>8 DEF cpuV
    <2>2. /\ lastStatus = "MEMORY_FAULT" => Outcome' = "memory fault"
          /\ lastStatus = "ILL_INST_FAULT" => Outcome' = "illegal instruction"
      BY <1>8, OutcomeFacts
    <2>3. CASE lastStatus = "MEMORY_FAULT"
      <3>1. phase = "handle"
        BY HandleFacts
      <3>2. Abstract!Refused # {} /\ Abstract!Refused \intersect Abstract!StackPage(svStackBottom) = {}
        BY <1>3, <1>5, <2>3, <3>1 DEF IInv, RefusalInv
      <3>3. Abstract!MemoryFault
        BY <1>2, <2>1, <2>2, <2>3, <3>2 DEF Abstract!MemoryFault
      <3> QED  BY <1>1, <3>3 DEF Abstract!HartNext
    <2>4. CASE lastStatus = "ILL_INST_FAULT"
      <3>1. Abstract!Refused = {} /\ i.op = "ILLEGAL"
        BY <1>3, <2>4 DEF IInv, RefusalInv, i
      <3>2. Abstract!Illegal(i)
        BY <1>2, <2>1, <2>2, <2>4, <3>1 DEF Abstract!Illegal
      <3>3. Abstract!Execute
        BY <1>2, <1>3, <3>1, <3>2 DEF Abstract!Execute
      <3> QED  BY <1>1, <3>3 DEF Abstract!HartNext
    <2> QED  BY <1>8, <2>3, <2>4
  <1>9. CASE lastStatus = "OK" /\ UNCHANGED <<cpuV, svExitCode, stdout, status, dbg>>
    BY <1>1, <1>9, Unseen DEF cpuV
  <1> QED  BY <1>6, <1>7, <1>8, <1>9 DEF Handle

LEMMA NextIsHart ==
  ASSUME LinksThroughOthers
  PROVE  IInv /\ [Next]_vars => [Abstract!HartNext]_(Abstract!hartVars)
  <1> SUFFICES ASSUME IInv, [Next]_vars PROVE Abstract!HartNext \/ UNCHANGED Abstract!hartVars
    OBVIOUS
  <1>1. CASE DbgPass \/ DbgEnter \/ CmdContinue \/ CmdStepIn \/ dbgCmdStepOver \/ Stopped \/ UNCHANGED vars
             \/ (\E addr \in BreakAddresses : dbgAddBreakpoint(addr))
             \/ (\E id \in 0..MaxBreakpoints - 1 : dbgRemoveBreakpoint(id))
    <2>1. UNCHANGED <<memV, cpuV, svV, status>>
      BY <1>1 DEF DbgPass, DbgEnter, CmdContinue, CmdStepIn, dbgCmdStepOver, Resume, Stopped, vars,
                  dbgAddBreakpoint, dbgRemoveBreakpoint
    <2> QED  BY <2>1, Unseen DEF memV, cpuV, svV
  <1>2. CASE CmdQuit
    <2>1. UNCHANGED <<memAreas, svStackBottom, cpuPC, cpuRegs, svExitCode, stdout>> /\ phase = "prompt" /\ status' = "KILLED"
      BY <1>2 DEF CmdQuit, memV, cpuV, svV
    <2>2. Outcome = "running"
      BY <2>1, OutcomeFacts DEF IInv, FlowInv
    <2>3. Outcome' = "killed"
      BY <2>1, OutcomeFacts
    <2>4. Abstract!Kill
      BY <2>1, <2>3 DEF Abstract!Kill
    <2> QED  BY <2>2, <2>4 DEF Abstract!HartNext
  <1>3. CASE Cpu
    BY <1>3, CpuIsHart
  <1>4. CASE svExpandStack
    BY <1>4, svExpandStackIsHart
  <1>5. CASE Handle
    BY <1>5, HandleIsHart
  <1> QED  BY <1>1, <1>2, <1>3, <1>4, <1>5 DEF Next, Tick, LeavePrompt

\* To every program the simulator is the processor of the specification, provided that no
\* instruction jumps through the register it writes: cpu.c:406 writes the return address
\* before it reads the register.
THEOREM SimulatorIsAProcessor ==
  ASSUME LinksThroughOthers
  PROVE  Spec => Implements
  <1>1. Init => Abstract!HartInit
    BY InitIsHart
  <1>2. IInv /\ [Next]_vars => [Abstract!HartNext]_(Abstract!hartVars)
    BY NextIsHart
  <1>3. Spec => Init /\ [][Next]_vars
    BY PTL DEF Spec
  <1> QED  BY <1>1, <1>2, <1>3, MachineInvariant, PTL DEF Implements, Abstract!HartSpec
===============================================================================
