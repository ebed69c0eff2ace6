----------------------------- MODULE MemoryProofs -----------------------------
(***************************************************************************)
(* However many areas are mapped, in whatever order, the list of areas     *)
(* stays in order and behaves as a flat memory.                            *)
(***************************************************************************)
EXTENDS Memory, SequenceTheorems, WellFoundedInduction, TLAPS

-----------------------------------------------------------------------------
(* Numbers and sequences *)

LEMMA SmallRemainder ==
  ASSUME NEW m \in Nat \ {0}, NEW x \in 0..(m - 1)
  PROVE  x % m = x
  <1>1. (x % m) \in 0..(m - 1) /\ (x \div m) \in Int /\ x = (m * (x \div m)) + (x % m)
    OBVIOUS
  <1> DEFINE d == x \div m
  <1> HIDE DEF d
  <1>2. CASE d >= 1
    <2>1. m * d >= m
      BY <1>1, <1>2 DEF d
    <2>2. QED BY <2>1, <1>1 DEF d
  <1>3. CASE d <= -1
    <2>1. m * d <= -m
      BY <1>1, <1>3 DEF d
    <2>2. QED BY <2>1, <1>1 DEF d
  <1>4. CASE d = 0
    BY <1>1, <1>4 DEF d
  <1>5. QED BY <1>1, <1>2, <1>3, <1>4 DEF d

NatLess == {ss \in Nat \X Nat : ss[1] < ss[2]}

LEMMA NatLessWellFounded == IsWellFoundedOn(NatLess, Nat)
  <1>1. OpToRel(<, Nat) = NatLess
    BY Zenon DEF OpToRel, NatLess
  <1> HIDE DEF OpToRel, NatLess
  <1>2. QED BY <1>1, NatLessThanWellFounded, Zenon

\* A set of naturals that is not empty has a least element, and Min yields it.
LEMMA LeastElement ==
  ASSUME NEW S \in SUBSET Nat, S # {}
  PROVE  Min(S) \in S /\ \A y \in S : Min(S) <= y
  <1>1. \E x \in S : \A y \in S : ~ (<<y, x>> \in NatLess)
    <2> HIDE DEF NatLess
    <2>1. QED BY NatLessWellFounded, WFMin, Zenon
  <1>2. PICK x \in S : \A y \in S : ~ (<<y, x>> \in NatLess)
    BY <1>1
  <1>3. ASSUME NEW y \in S PROVE x <= y
    <2>1. <<y, x>> \notin NatLess
      BY <1>2
    <2>2. <<y, x>> \in NatLess <=> <<y, x>> \in Nat \X Nat /\ <<y, x>>[1] < <<y, x>>[2]
      BY DEF NatLess
    <2>3. QED BY <2>1, <2>2
  <1>4. QED BY <1>3 DEF Min

\* What InsertAt makes of a sequence
LEMMA Insertion ==
  ASSUME NEW q, q \in Seq(Range(q)), NEW p \in 1..(Len(q) + 1), NEW e
  PROVE  /\ InsertAt(q, p, e) \in Seq(Range(InsertAt(q, p, e)))
         /\ Len(InsertAt(q, p, e)) = Len(q) + 1
         /\ \A k \in 1..(Len(q) + 1) :
              InsertAt(q, p, e)[k] = IF k < p THEN q[k] ELSE IF k = p THEN e ELSE q[k - 1]
  <1> DEFINE before == SubSeq(q, 1, p - 1)
             after  == SubSeq(q, p, Len(q))
             first  == before \o <<e>>
             t      == first \o after
             S      == Range(q) \union {e}
  <1>1. q \in Seq(S) /\ <<e>> \in Seq(S) /\ Len(q) \in Nat
    BY DEF Range
  <1> HIDE DEF S
  <1>2. before \in Seq(S) /\ Len(before) = p - 1 /\ \A k \in 1..(p - 1) : before[k] = q[k]
    BY <1>1
  <1>3. after \in Seq(S) /\ Len(after) = (Len(q) - p) + 1
        /\ \A k \in 1..((Len(q) - p) + 1) : after[k] = q[(p + k) - 1]
    BY <1>1
  <1> HIDE DEF before, after
  <1>4. first \in Seq(S) /\ Len(first) = p /\ first[p] = e /\ \A k \in 1..(p - 1) : first[k] = q[k]
    BY <1>1, <1>2
  <1> HIDE DEF first
  <1>5. t \in Seq(S) /\ Len(t) = Len(q) + 1
        /\ \A k \in 1..(Len(q) + 1) :
             t[k] = IF k < p THEN q[k] ELSE IF k = p THEN e ELSE q[k - 1]
    <2>0. /\ t \in Seq(S) /\ Len(t) = Len(first) + Len(after)
          /\ \A k \in 1..(Len(first) + Len(after)) :
               t[k] = IF k <= Len(first) THEN first[k] ELSE after[k - Len(first)]
      BY <1>3, <1>4, ConcatProperties
    <2> HIDE DEF t
    <2>1. /\ t \in Seq(S) /\ Len(t) = p + ((Len(q) - p) + 1)
          /\ \A k \in 1..(p + ((Len(q) - p) + 1)) : t[k] = IF k <= p THEN first[k] ELSE after[k - p]
      BY <1>1, <1>3, <1>4, <2>0
    <2>2. p + ((Len(q) - p) + 1) = Len(q) + 1
      BY <1>1
    <2>3. ASSUME NEW k \in 1..(Len(q) + 1)
          PROVE  t[k] = IF k < p THEN q[k] ELSE IF k = p THEN e ELSE q[k - 1]
      <3>1. CASE k < p
        BY <1>1, <1>4, <2>1, <2>2, <3>1
      <3>2. CASE k = p
        BY <1>1, <1>4, <2>1, <2>2, <3>2
      <3>3. CASE k > p
        <4>1. k - p \in 1..((Len(q) - p) + 1) /\ (p + (k - p)) - 1 = k - 1
          BY <1>1, <3>3
        <4>2. after[k - p] = q[(p + (k - p)) - 1]
          BY <1>3, <4>1
        <4>3. t[k] = after[k - p]
          BY <1>1, <2>1, <2>2, <3>3
        <4>4. QED BY <1>1, <3>3, <4>1, <4>2, <4>3
      <3>4. QED BY <1>1, <3>1, <3>2, <3>3
    <2>4. QED BY <2>1, <2>2, <2>3
  <1>6. t = InsertAt(q, p, e)
    BY DEF InsertAt, t, first, before, after
  <1> HIDE DEF t
  <1>7. t \in Seq(Range(t))
    <2>1. t \in [1..(Len(q) + 1) -> Range(t)]
      BY <1>1, <1>5 DEF Range
    <2>2. QED BY <1>1, <2>1
  <1>8. QED BY <1>5, <1>6, <1>7

-----------------------------------------------------------------------------
(* Areas *)

LEMMA AreaFacts ==
  ASSUME NEW area, WellFormedArea(area)
  PROVE  /\ area.baseAddress \in Nat /\ area.extent \in Nat \ {0}
         /\ area.buffer \in [0..(area.extent - 1) -> Byte]
         /\ area.baseAddress + area.extent + WordBytes <= WordSize
         /\ memAreaEnd(area) = area.baseAddress + area.extent
         /\ AreaSpan(area) = area.baseAddress..(area.baseAddress + area.extent - 1)
  <1>1. area.baseAddress \in 0..(WordSize - 1) /\ area.extent \in Nat \ {0}
        /\ area.buffer \in [0..(area.extent - 1) -> Byte]
        /\ area.baseAddress + area.extent + WordBytes <= WordSize
    BY DEF WellFormedArea, Word
  <1>2. area.baseAddress + area.extent \in 0..(WordSize - 1)
    BY <1>1, WidthAssumption, PowersOfTwo
  <1>3. memAreaEnd(area) = area.baseAddress + area.extent
    BY <1>2, PowersOfTwo, SmallRemainder DEF memAreaEnd, Wrap
  <1>4. QED BY <1>1, <1>3, PowersOfTwo DEF AreaSpan, Span

\* A sequence of well-formed areas, in order and apart
Listed(areas) ==
  /\ areas \in Seq(Range(areas))
  /\ \A i \in DOMAIN areas : WellFormedArea(areas[i])
  /\ AreasApart(areas)

\* An address is in one area at most.
LEMMA OneArea ==
  ASSUME NEW areas, Listed(areas), NEW i \in DOMAIN areas, NEW j \in DOMAIN areas, NEW a,
         a \in AreaSpan(areas[i]), a \in AreaSpan(areas[j])
  PROVE  i = j
  <1>1. /\ areas[i].baseAddress \in Nat /\ areas[i].extent \in Nat
        /\ areas[j].baseAddress \in Nat /\ areas[j].extent \in Nat
        /\ a \in areas[i].baseAddress..(areas[i].baseAddress + areas[i].extent - 1)
        /\ a \in areas[j].baseAddress..(areas[j].baseAddress + areas[j].extent - 1)
    BY AreaFacts DEF Listed
  <1>2. i \in Nat /\ j \in Nat
    BY DEF Listed
  <1>3. /\ i < j => areas[i].baseAddress + areas[i].extent <= areas[j].baseAddress
        /\ j < i => areas[j].baseAddress + areas[j].extent <= areas[i].baseAddress
    BY DEF Listed, AreasApart
  <1>4. QED BY <1>1, <1>2, <1>3

\* The flat memory has the bytes of the areas.
LEMMA FlatBytes ==
  ASSUME NEW areas, Listed(areas)
  PROVE  /\ DOMAIN MemOf(areas) = UNION RegionsOf(areas)
         /\ \A a : a \in UNION RegionsOf(areas) <=> \E i \in DOMAIN areas : a \in AreaSpan(areas[i])
         /\ \A i \in DOMAIN areas : \A a \in AreaSpan(areas[i]) :
              MemOf(areas)[a] = areas[i].buffer[a - areas[i].baseAddress]
  <1>1. DOMAIN MemOf(areas) = UNION RegionsOf(areas)
    BY DEF MemOf
  <1>2. \A a : a \in UNION RegionsOf(areas) <=> \E i \in DOMAIN areas : a \in AreaSpan(areas[i])
    BY DEF RegionsOf
  <1>3. ASSUME NEW i \in DOMAIN areas, NEW a \in AreaSpan(areas[i])
        PROVE  MemOf(areas)[a] = areas[i].buffer[a - areas[i].baseAddress]
    <2> DEFINE h == CHOOSE j \in DOMAIN areas : a \in AreaSpan(areas[j])
    <2>1. h \in DOMAIN areas /\ a \in AreaSpan(areas[h])
      BY Zenon
    <2>2. h = i
      <3> HIDE DEF h
      <3>1. QED BY <2>1, OneArea
    <2>3. MemOf(areas)[a] = areas[h].buffer[a - areas[h].baseAddress]
      BY <1>2 DEF MemOf
    <2> HIDE DEF h
    <2>4. QED BY <2>2, <2>3
  <1>4. QED BY <1>1, <1>2, <1>3

-----------------------------------------------------------------------------
(* Looking up an area *)

LEMMA AccessFacts ==
  ASSUME NEW n \in AccessSizes
  PROVE  n \in 1..4 /\ n <= WordBytes
  BY WidthAssumption DEF AccessSizes

\* memFindArea finds an area when one holds all the bytes, and then this one.
LEMMA Lookup ==
  ASSUME NEW areas, Listed(areas), NEW addr \in Word, NEW n \in AccessSizes
  PROVE  LET i == memFindArea(areas, addr, n)
         IN /\ i # 0 <=> Accessible(RegionsOf(areas), addr, n)
            /\ i # 0 => i \in DOMAIN areas /\ Span(addr, n) \subseteq AreaSpan(areas[i])
  <1> DEFINE holding == {i \in DOMAIN areas : areas[i].baseAddress <= addr /\ addr < memAreaEnd(areas[i])}
             first   == Min(holding)
             fits    == Wrap(addr + n) <= memAreaEnd(areas[first])
             found   == memFindArea(areas, addr, n)
  <1>1. addr \in Nat /\ n \in 1..4 /\ n <= WordBytes /\ WordSize \in Nat \ {0} /\ WordBytes \in Nat
    BY AccessFacts, PowersOfTwo, WidthAssumption DEF Word
  <1>2. ASSUME NEW i \in DOMAIN areas
        PROVE  i \in holding <=> addr \in AreaSpan(areas[i])
    <2>1. WellFormedArea(areas[i])
      BY DEF Listed
    <2>2. /\ areas[i].baseAddress \in Nat /\ areas[i].extent \in Nat \ {0}
          /\ memAreaEnd(areas[i]) = areas[i].baseAddress + areas[i].extent
          /\ AreaSpan(areas[i]) = areas[i].baseAddress..(areas[i].baseAddress + areas[i].extent - 1)
      BY <2>1, AreaFacts
    <2>3. i \in holding <=> areas[i].baseAddress <= addr /\ addr < memAreaEnd(areas[i])
      OBVIOUS
    <2> HIDE DEF holding
    <2>4. QED BY <1>1, <2>2, <2>3
  <1>3. found = IF holding # {} /\ fits THEN first ELSE 0
    BY DEF memFindArea
  <1>4. ASSUME NEW i \in DOMAIN areas, Span(addr, n) \subseteq AreaSpan(areas[i])
        PROVE  i \in holding
    <2>1. addr \in Span(addr, n)
      BY <1>1 DEF Span
    <2>2. QED BY <1>2, <1>4, <2>1
  <1>5. Accessible(RegionsOf(areas), addr, n)
          <=> \E i \in DOMAIN areas : Span(addr, n) \subseteq AreaSpan(areas[i])
    BY DEF Accessible, RegionsOf
  <1>6. holding \subseteq DOMAIN areas /\ DOMAIN areas \subseteq Nat \ {0}
    BY DEF Listed
  <1>7. CASE holding = {}
    <2> HIDE DEF holding, found
    <2>1. QED BY <1>3, <1>4, <1>5, <1>7 DEF found
  <1>8. CASE holding # {}
    <2>1. PICK j \in holding : TRUE
      BY <1>8
    <2>2. holding = {j}
      <3> HIDE DEF holding
      <3>1. \A i \in holding : i = j
        BY <1>2, <1>6, <2>1, OneArea
      <3>2. QED BY <2>1, <3>1
    <2>3. first = j
      <3> HIDE DEF holding
      <3>1. j \in Nat
        BY <1>6, <2>1
      <3>2. QED BY <2>2, <3>1 DEF Min
    <2> HIDE DEF holding, first
    <2> DEFINE lo == areas[j].baseAddress
               hi == areas[j].baseAddress + areas[j].extent
    <2>4. /\ lo \in Nat /\ hi \in Nat /\ hi + WordBytes <= WordSize
          /\ memAreaEnd(areas[j]) = hi
          /\ AreaSpan(areas[j]) = lo..(hi - 1)
      <3>1. WellFormedArea(areas[j])
        BY <1>6, <2>1 DEF Listed
      <3>2. /\ areas[j].baseAddress \in Nat /\ areas[j].extent \in Nat \ {0}
            /\ areas[j].baseAddress + areas[j].extent + WordBytes <= WordSize
            /\ memAreaEnd(areas[j]) = areas[j].baseAddress + areas[j].extent
            /\ AreaSpan(areas[j]) = areas[j].baseAddress..(areas[j].baseAddress + areas[j].extent - 1)
        BY <3>1, AreaFacts
      <3>3. QED BY <3>2
    <2> HIDE DEF lo, hi
    <2>5. addr \in lo..(hi - 1)
      BY <1>2, <1>6, <2>1, <2>4
    <2>6. Wrap(addr + n) = addr + n
      <3>1. addr + n \in 0..(WordSize - 1)
        BY <1>1, <2>4, <2>5
      <3>2. QED BY <1>1, <3>1, SmallRemainder DEF Wrap
    <2>7. fits <=> addr + n <= hi
      BY <2>3, <2>4, <2>6
    <2>8. Span(addr, n) \subseteq AreaSpan(areas[j]) <=> addr + n <= hi
      <3>1. Span(addr, n) = addr..((addr + n) - 1) /\ (addr + n) - 1 \in addr..((addr + n) - 1)
        BY <1>1 DEF Span
      <3>2. QED BY <1>1, <2>4, <2>5, <3>1
    <2> HIDE DEF fits, found
    <2>9. found # 0 <=> fits
      BY <1>3, <1>6, <1>8, <2>1, <2>3
    <2>10. Accessible(RegionsOf(areas), addr, n) <=> Span(addr, n) \subseteq AreaSpan(areas[j])
      BY <1>4, <1>5, <1>6, <2>1, <2>2
    <2>11. found # 0 => found = j /\ j \in DOMAIN areas
      BY <1>3, <1>6, <2>1, <2>3
    <2>12. QED BY <2>7, <2>8, <2>9, <2>10, <2>11 DEF found
  <1>9. QED BY <1>7, <1>8

-----------------------------------------------------------------------------
(* Mapping *)

\* Where memMapArea puts an area
LEMMA Place ==
  ASSUME NEW areas, Listed(areas), NEW base \in Nat, NEW extent \in Nat,
         base + extent + WordBytes <= WordSize
  PROVE  LET p == AreaPlace(areas, base, extent)
         IN /\ p \in 1..(Len(areas) + 1)
            /\ \A i \in DOMAIN areas : i < p => ~ (base + extent <= areas[i].baseAddress)
            /\ p <= Len(areas) => base + extent <= areas[p].baseAddress
  <1> DEFINE after == {i \in DOMAIN areas : Wrap(base + extent) <= areas[i].baseAddress}
             S     == after \union {Len(areas) + 1}
  <1>1. Wrap(base + extent) = base + extent
    <2>1. base + extent \in 0..(WordSize - 1) /\ WordSize \in Nat \ {0}
      BY WidthAssumption, PowersOfTwo
    <2>2. QED BY <2>1, SmallRemainder DEF Wrap
  <1>2. DOMAIN areas = 1..Len(areas) /\ Len(areas) \in Nat
    BY DEF Listed
  <1>3. S \in SUBSET Nat /\ S # {}
    BY <1>2
  <1>4. AreaPlace(areas, base, extent) = Min(S)
    BY DEF AreaPlace
  <1>5. \A i \in DOMAIN areas : i \in S <=> base + extent <= areas[i].baseAddress
    BY <1>1, <1>2
  <1>6. \A i \in S : i \in 1..(Len(areas) + 1)
    BY <1>2
  <1> HIDE DEF S
  <1>7. Min(S) \in S /\ \A y \in S : Min(S) <= y
    BY <1>3, LeastElement
  <1> DEFINE p == Min(S)
  <1> HIDE DEF p
  <1>8. p \in S /\ (\A y \in S : p <= y) /\ p = AreaPlace(areas, base, extent)
    BY <1>4, <1>7 DEF p
  <1>9. QED BY <1>2, <1>5, <1>6, <1>8

\* A range that memMapArea refuses shares an address with an area.
LEMMA Refused ==
  ASSUME NEW areas, Listed(areas), NEW base \in Nat, NEW extent \in Nat \ {0},
         base + extent + WordBytes <= WordSize, ExtentMapped(areas, base, extent)
  PROVE  Span(base, extent) \intersect UNION RegionsOf(areas) # {}
  <1> DEFINE p == AreaPlace(areas, base, extent)
             q == p - 1
  <1>1. /\ p \in 1..(Len(areas) + 1)
        /\ \A i \in DOMAIN areas : i < p => ~ (base + extent <= areas[i].baseAddress)
    BY Place
  <1>2. q > 0 /\ base < memAreaEnd(areas[q])
    BY DEF ExtentMapped
  <1> HIDE DEF p
  <1>3. q \in DOMAIN areas /\ q < p
    BY <1>1, <1>2 DEF Listed
  <1>4. ~ (base + extent <= areas[q].baseAddress)
    BY <1>1, <1>3
  <1> HIDE DEF q
  <1> DEFINE lo == areas[q].baseAddress
             hi == areas[q].baseAddress + areas[q].extent
  <1>5. lo \in Nat /\ hi \in Nat /\ lo < hi /\ AreaSpan(areas[q]) = lo..(hi - 1) /\ base < hi
    <2>1. WellFormedArea(areas[q])
      BY <1>3 DEF Listed
    <2>2. /\ areas[q].baseAddress \in Nat /\ areas[q].extent \in Nat \ {0}
          /\ memAreaEnd(areas[q]) = areas[q].baseAddress + areas[q].extent
          /\ AreaSpan(areas[q]) = areas[q].baseAddress..(areas[q].baseAddress + areas[q].extent - 1)
      BY <2>1, AreaFacts
    <2>3. QED BY <1>2, <2>2
  <1> HIDE DEF lo, hi
  <1>6. PICK a : a \in Span(base, extent) /\ a \in AreaSpan(areas[q])
    <2>1. Span(base, extent) = base..(base + extent - 1) /\ lo < base + extent
      BY <1>4, <1>5 DEF Span, lo
    <2>2. CASE base <= lo
      <3>1. lo \in base..(base + extent - 1) /\ lo \in lo..(hi - 1)
        BY <1>5, <2>1, <2>2
      <3>2. QED BY <1>5, <2>1, <3>1
    <2>3. CASE lo < base
      <3>1. base \in base..(base + extent - 1) /\ base \in lo..(hi - 1)
        BY <1>5, <2>3
      <3>2. QED BY <1>5, <2>1, <3>1
    <2>4. QED BY <1>5, <2>2, <2>3
  <1>7. QED BY <1>3, <1>6, FlatBytes

\* A range that it accepts becomes an area among the others, which reads as zeros.
LEMMA Mapped ==
  ASSUME NEW areas, Listed(areas), NEW base \in Nat, NEW extent \in Nat \ {0},
         base + extent + WordBytes <= WordSize, ~ ExtentMapped(areas, base, extent)
  PROVE  /\ Listed(memMapArea(areas, base, extent))
         /\ Span(base, extent) \intersect UNION RegionsOf(areas) = {}
         /\ RegionsOf(memMapArea(areas, base, extent)) = RegionsOf(areas) \union {Span(base, extent)}
         /\ MemOf(memMapArea(areas, base, extent)) = Cleared(MemOf(areas), Span(base, extent))
  <1> DEFINE p   == AreaPlace(areas, base, extent)
             e   == NewArea(base, extent)
             new == InsertAt(areas, p, e)
  <1>1. memMapArea(areas, base, extent) = new
    BY DEF memMapArea
  <1>2. /\ p \in 1..(Len(areas) + 1)
        /\ p <= Len(areas) => base + extent <= areas[p].baseAddress
    BY Place
  <1>3. p > 1 => memAreaEnd(areas[p - 1]) <= base
    <2>1. ~ (p - 1 > 0 /\ base < memAreaEnd(areas[p - 1]))
      BY DEF ExtentMapped
    <2> HIDE DEF p
    <2>2. p > 1 => p - 1 \in DOMAIN areas
      BY <1>2 DEF Listed
    <2>3. p > 1 => memAreaEnd(areas[p - 1]) \in Nat
      BY <2>2, AreaFacts DEF Listed
    <2>4. QED BY <1>2, <2>1, <2>3
  <1>4. WellFormedArea(e) /\ e.baseAddress = base /\ e.extent = extent
        /\ e.buffer = [k \in 0..(extent - 1) |-> 0]
    <2>1. 0 \in Byte
      BY PowersOfTwo DEF Byte
    <2>2. base \in Word
      BY WidthAssumption, PowersOfTwo DEF Word
    <2>3. [k \in 0..(extent - 1) |-> 0] \in [0..(extent - 1) -> Byte]
      BY <2>1
    <2>4. QED BY <2>2, <2>3 DEF WellFormedArea, NewArea
  <1>5. Len(areas) \in Nat /\ DOMAIN areas = 1..Len(areas)
    BY DEF Listed
  <1> HIDE DEF p, e
  <1>6. /\ new \in Seq(Range(new))
        /\ Len(new) = Len(areas) + 1
        /\ \A k \in 1..(Len(areas) + 1) :
             new[k] = IF k < p THEN areas[k] ELSE IF k = p THEN e ELSE areas[k - 1]
    BY <1>2, Insertion DEF Listed
  <1> HIDE DEF new
  <1>7. DOMAIN new = 1..(Len(areas) + 1)
    BY <1>6
  \* positions of the list before and after
  <1>8. /\ new[p] = e /\ p \in DOMAIN new
        /\ \A i \in DOMAIN areas : i < p => i \in DOMAIN new /\ new[i] = areas[i]
        /\ \A i \in DOMAIN areas : i >= p => i + 1 \in DOMAIN new /\ new[i + 1] = areas[i]
    <2>1. ASSUME NEW i \in DOMAIN areas, i >= p
          PROVE  i + 1 \in DOMAIN new /\ new[i + 1] = areas[i]
      <3>1. i + 1 \in 1..(Len(areas) + 1) /\ i + 1 > p /\ (i + 1) - 1 = i /\ ~ (i + 1 < p) /\ i + 1 # p
        BY <1>2, <1>5, <2>1
      <3>2. QED BY <1>6, <1>7, <3>1
    <2>2. QED BY <1>2, <1>5, <1>6, <1>7, <2>1
  <1>9. ASSUME NEW i \in DOMAIN new
        PROVE  \/ i < p /\ i \in DOMAIN areas /\ new[i] = areas[i]
               \/ i = p /\ new[i] = e
               \/ i > p /\ i - 1 \in DOMAIN areas /\ i - 1 >= p /\ new[i] = areas[i - 1]
    BY <1>2, <1>5, <1>6, <1>7
  <1>10. \A i \in DOMAIN new : WellFormedArea(new[i])
    BY <1>4, <1>9 DEF Listed
  \* what was before the place ends before the range, what was after begins after it
  <1>11. \A i \in DOMAIN areas :
           /\ areas[i].baseAddress \in Nat /\ areas[i].extent \in Nat \ {0}
           /\ memAreaEnd(areas[i]) = areas[i].baseAddress + areas[i].extent
    BY AreaFacts DEF Listed
  <1>12. ASSUME NEW i \in DOMAIN areas, i < p
         PROVE  areas[i].baseAddress + areas[i].extent <= base
    <2>1. p - 1 \in DOMAIN areas /\ p > 1 /\ (i = p - 1 \/ i < p - 1)
      BY <1>2, <1>5, <1>12
    <2>2. i < p - 1 => areas[i].baseAddress + areas[i].extent <= areas[p - 1].baseAddress
      BY <2>1 DEF Listed, AreasApart
    <2>3. areas[p - 1].baseAddress + areas[p - 1].extent <= base
      BY <1>3, <1>11, <2>1
    <2>4. QED BY <1>11, <2>1, <2>2, <2>3
  <1>13. ASSUME NEW i \in DOMAIN areas, i >= p
         PROVE  base + extent <= areas[i].baseAddress
    <2>1. p \in DOMAIN areas /\ (i = p \/ p < i)
      BY <1>2, <1>5, <1>13
    <2>2. p < i => areas[p].baseAddress + areas[p].extent <= areas[i].baseAddress
      BY <2>1 DEF Listed, AreasApart
    <2>3. base + extent <= areas[p].baseAddress
      BY <1>2, <1>5, <2>1
    <2>4. QED BY <1>11, <2>1, <2>2, <2>3
  <1>14. AreasApart(new)
    <2> SUFFICES ASSUME NEW i \in DOMAIN new, NEW j \in DOMAIN new, i < j
                 PROVE  new[i].baseAddress + new[i].extent <= new[j].baseAddress
      BY DEF AreasApart
    <2>1. i \in Nat /\ j \in Nat /\ p \in Nat
      BY <1>2, <1>5, <1>7
    <2>2. CASE i < p /\ j < p
      BY <1>9, <2>1, <2>2 DEF Listed, AreasApart
    <2>3. CASE i < p /\ j = p
      BY <1>4, <1>9, <1>12, <2>1, <2>3
    <2>4. CASE i < p /\ j > p
      <3>1. /\ i \in DOMAIN areas /\ new[i] = areas[i]
            /\ j - 1 \in DOMAIN areas /\ new[j] = areas[j - 1] /\ i < j - 1
        BY <1>9, <2>1, <2>4
      <3>2. QED BY <3>1 DEF Listed, AreasApart
    <2>5. CASE i = p /\ j > p
      BY <1>4, <1>9, <1>13, <2>1, <2>5
    <2>6. CASE i > p /\ j > p
      <3>1. /\ i - 1 \in DOMAIN areas /\ new[i] = areas[i - 1]
            /\ j - 1 \in DOMAIN areas /\ new[j] = areas[j - 1] /\ i - 1 < j - 1
        BY <1>9, <2>1, <2>6
      <3>2. QED BY <3>1 DEF Listed, AreasApart
    <2>7. QED BY <2>1, <2>2, <2>3, <2>4, <2>5, <2>6
  <1>15. Listed(new)
    BY <1>6, <1>10, <1>14 DEF Listed
  <1>16. AreaSpan(e) = Span(base, extent) /\ Span(base, extent) = base..(base + extent - 1)
    BY <1>4 DEF AreaSpan, Span
  <1>17. Span(base, extent) \intersect UNION RegionsOf(areas) = {}
    <2> SUFFICES ASSUME NEW a \in Span(base, extent), NEW i \in DOMAIN areas, a \in AreaSpan(areas[i])
                 PROVE  FALSE
      BY FlatBytes
    <2>1. a \in areas[i].baseAddress..(areas[i].baseAddress + areas[i].extent - 1)
      BY AreaFacts DEF Listed
    <2>2. i \in Nat /\ p \in Nat
      BY <1>2, <1>5
    <2>3. CASE i < p
      BY <1>11, <1>12, <1>16, <2>1, <2>3
    <2>4. CASE i >= p
      BY <1>11, <1>13, <1>16, <2>1, <2>4
    <2>5. QED BY <2>2, <2>3, <2>4
  <1>18. RegionsOf(new) = RegionsOf(areas) \union {Span(base, extent)}
    <2>1. ASSUME NEW i \in DOMAIN areas
          PROVE  \E j \in DOMAIN new : new[j] = areas[i]
      <3>1. i < p \/ i >= p
        BY <1>2, <1>5
      <3>2. QED BY <1>8, <3>1
    <2>2. \A i \in DOMAIN new : new[i] = e \/ \E j \in DOMAIN areas : new[i] = areas[j]
      BY <1>9
    <2>3. QED BY <1>8, <1>16, <2>1, <2>2 DEF RegionsOf
  <1>19. MemOf(new) = Cleared(MemOf(areas), Span(base, extent))
    <2> DEFINE f == MemOf(new)
               g == Cleared(MemOf(areas), Span(base, extent))
    <2>1. DOMAIN f = UNION RegionsOf(new) /\ DOMAIN MemOf(areas) = UNION RegionsOf(areas)
      BY <1>15, FlatBytes
    <2>2. DOMAIN g = DOMAIN MemOf(areas) \union Span(base, extent)
          /\ \A a \in DOMAIN g : g[a] = IF a \in Span(base, extent) THEN 0 ELSE MemOf(areas)[a]
      BY DEF Cleared
    <2>3. DOMAIN f = DOMAIN g
      BY <1>18, <2>1, <2>2
    <2>4. ASSUME NEW a \in Span(base, extent)
          PROVE  f[a] = 0
      <3>1. f[a] = e.buffer[a - base]
        <4>1. p \in DOMAIN new /\ a \in AreaSpan(new[p])
          BY <1>8, <1>16
        <4>2. f[a] = new[p].buffer[a - new[p].baseAddress]
          <5> HIDE DEF f
          <5>1. MemOf(new)[a] = new[p].buffer[a - new[p].baseAddress]
            BY <1>15, <4>1, FlatBytes
          <5>2. QED BY <5>1 DEF f
        <4>3. QED BY <1>4, <1>8, <4>2
      <3>2. a - base \in 0..(extent - 1)
        BY <1>16
      <3>3. QED BY <1>4, <3>1, <3>2
    <2>5. ASSUME NEW a \in UNION RegionsOf(areas)
          PROVE  f[a] = MemOf(areas)[a]
      <3>1. PICK i \in DOMAIN areas : a \in AreaSpan(areas[i])
        BY FlatBytes
      <3>2. MemOf(areas)[a] = areas[i].buffer[a - areas[i].baseAddress]
        BY <3>1, FlatBytes
      <3>3. PICK j \in DOMAIN new : new[j] = areas[i]
        <4>1. i < p \/ i >= p
          BY <1>2, <1>5
        <4>2. QED BY <1>8, <4>1
      <3>4. f[a] = new[j].buffer[a - new[j].baseAddress]
        BY <1>15, <3>1, <3>3, FlatBytes
      <3>5. QED BY <3>2, <3>3, <3>4
    <2>6. \A a \in DOMAIN f : f[a] = g[a]
      BY <1>17, <2>1, <2>2, <2>3, <2>4, <2>5
    <2>7. f = [a \in DOMAIN f |-> f[a]] /\ g = [a \in DOMAIN g |-> g[a]]
      <3>1. f = [a \in DOMAIN f |-> f[a]]
        BY DEF MemOf
      <3>2. g = [a \in DOMAIN g |-> g[a]]
        BY DEF Cleared
      <3>3. QED BY <3>1, <3>2
    <2> HIDE DEF f, g
    <2>8. f = g
      BY <2>3, <2>6, <2>7
    <2>9. QED BY <2>8 DEF f, g
  <1>20. QED BY <1>1, <1>15, <1>17, <1>18, <1>19

-----------------------------------------------------------------------------
(* Reading and writing *)

LEMMA BytesReadAreValue ==
  ASSUME NEW areas, Listed(areas), NEW i \in DOMAIN areas, NEW addr \in Word, NEW n \in AccessSizes,
         Span(addr, n) \subseteq AreaSpan(areas[i])
  PROVE  BytesRead(areas[i], addr, n) = Value(MemOf(areas), addr, n)
  <1>1. addr \in Nat /\ n \in 1..4 /\ areas[i].baseAddress \in Nat
    BY AccessFacts, AreaFacts, PowersOfTwo DEF Word, Listed
  <1>2. ASSUME NEW k \in 0..3, k < n
        PROVE  MemOf(areas)[addr + k] = areas[i].buffer[addr - areas[i].baseAddress + k]
    <2>1. addr + k \in AreaSpan(areas[i])
      BY <1>1, <1>2 DEF Span
    <2>2. MemOf(areas)[addr + k] = areas[i].buffer[(addr + k) - areas[i].baseAddress]
      BY <2>1, FlatBytes
    <2>3. (addr + k) - areas[i].baseAddress = addr - areas[i].baseAddress + k
      BY <1>1
    <2>4. QED BY <2>2, <2>3
  <1> DEFINE read(k) == IF k < n THEN areas[i].buffer[addr - areas[i].baseAddress + k] * ByteSize ^ k ELSE 0
             flat(k) == IF k < n THEN MemOf(areas)[addr + k] * ByteSize ^ k ELSE 0
  <1>3. read(0) = flat(0) /\ read(1) = flat(1) /\ read(2) = flat(2) /\ read(3) = flat(3)
    BY <1>2
  <1>4. BytesRead(areas[i], addr, n) = read(0) + read(1) + read(2) + read(3)
    BY DEF BytesRead
  <1>5. Value(MemOf(areas), addr, n) = flat(0) + flat(1) + flat(2) + flat(3)
    BY DEF Value
  <1> HIDE DEF read, flat
  <1>6. QED BY <1>3, <1>4, <1>5

LEMMA ByteIsByte ==
  ASSUME NEW v \in Word, NEW k \in 0..3
  PROVE  ByteOf(v, k) \in Byte
  <1> DEFINE d == ByteSize ^ k
             q == v \div d
             m == ByteSize
  <1>1. v \in Nat /\ d \in Nat \ {0} /\ m \in Nat \ {0}
    BY PowersOfTwo DEF Word
  <1> HIDE DEF d
  <1>2. q \in Int
    BY <1>1
  <1> HIDE DEF q, m
  <1>3. (q % m) \in 0..(m - 1)
    BY <1>1, <1>2
  <1>4. QED BY <1>3 DEF ByteOf, Byte, q, d, m

LEMMA Written ==
  ASSUME NEW areas, Listed(areas), NEW i \in DOMAIN areas, NEW addr \in Word, NEW n \in AccessSizes,
         NEW in \in Word, Span(addr, n) \subseteq AreaSpan(areas[i])
  PROVE  LET new == [areas EXCEPT ![i] = BytesWritten(@, addr, n, in)]
         IN /\ Listed(new)
            /\ RegionsOf(new) = RegionsOf(areas)
            /\ MemOf(new) = Stored(MemOf(areas), addr, n, in)
  <1> DEFINE old    == areas[i]
             offset == addr - old.baseAddress
             buffer == [k \in DOMAIN old.buffer |->
                         IF k \in offset..(offset + n - 1) THEN ByteOf(in, k - offset) ELSE old.buffer[k]]
             e      == [old EXCEPT !.buffer = buffer]
             new    == [areas EXCEPT ![i] = e]
  <1>1. BytesWritten(areas[i], addr, n, in) = e
    BY DEF BytesWritten
  <1>2. /\ old.baseAddress \in Nat /\ old.extent \in Nat \ {0}
        /\ old.buffer \in [0..(old.extent - 1) -> Byte]
        /\ AreaSpan(old) = old.baseAddress..(old.baseAddress + old.extent - 1)
    BY AreaFacts DEF Listed
  <1>3. addr \in Nat /\ n \in 1..4 /\ offset \in Int
    BY <1>2, AccessFacts, PowersOfTwo DEF Word
  <1>4. buffer \in [0..(old.extent - 1) -> Byte]
    <2>1. ASSUME NEW k \in 0..(old.extent - 1), k \in offset..(offset + n - 1)
          PROVE  ByteOf(in, k - offset) \in Byte
      <3> HIDE DEF offset
      <3>1. k - offset \in 0..3
        BY <1>2, <1>3, <2>1
      <3>2. QED BY <3>1, ByteIsByte
    <2> HIDE DEF offset
    <2>2. QED BY <1>2, <2>1
  <1>5. /\ WellFormedArea(e) /\ e.baseAddress = old.baseAddress /\ e.extent = old.extent
        /\ e.buffer = buffer
    <2>1. WellFormedArea(old)
      BY DEF Listed
    <2> HIDE DEF buffer, old
    <2>2. QED BY <1>4, <2>1 DEF WellFormedArea
  <1>6. areas \in Seq(Range(areas)) /\ DOMAIN areas = 1..Len(areas) /\ Len(areas) \in Nat
    BY DEF Listed
  <1> HIDE DEF e
  <1>7. /\ DOMAIN new = DOMAIN areas /\ new[i] = e
        /\ \A j \in DOMAIN areas : j # i => new[j] = areas[j]
    OBVIOUS
  <1>8. new \in Seq(Range(new))
    <2>1. new \in [1..Len(areas) -> Range(new)]
      BY <1>6, <1>7 DEF Range
    <2> HIDE DEF new
    <2>2. QED BY <1>6, <2>1
  <1> HIDE DEF new
  <1>9. \A j \in DOMAIN areas :
          /\ new[j].baseAddress = areas[j].baseAddress
          /\ new[j].extent = areas[j].extent
          /\ AreaSpan(new[j]) = AreaSpan(areas[j])
    BY <1>5, <1>7 DEF AreaSpan
  <1>10. Listed(new)
    <2>1. \A j \in DOMAIN new : WellFormedArea(new[j])
      BY <1>5, <1>7 DEF Listed
    <2>2. AreasApart(new)
      BY <1>7, <1>9 DEF Listed, AreasApart
    <2>3. QED BY <1>8, <2>1, <2>2 DEF Listed
  <1>11. RegionsOf(new) = RegionsOf(areas)
    BY <1>7, <1>9 DEF RegionsOf
  <1>12. MemOf(new) = Stored(MemOf(areas), addr, n, in)
    <2> DEFINE f == MemOf(new)
               m == MemOf(areas)
               g == Stored(MemOf(areas), addr, n, in)
    <2>1. DOMAIN f = UNION RegionsOf(areas) /\ DOMAIN m = UNION RegionsOf(areas)
      BY <1>10, <1>11, FlatBytes
    <2>2. DOMAIN g = DOMAIN m /\ \A a \in DOMAIN m :
            g[a] = IF a \in Span(addr, n) THEN ByteOf(in, a - addr) ELSE m[a]
      BY DEF Stored
    <2>3. f = [a \in DOMAIN f |-> f[a]] /\ g = [a \in DOMAIN g |-> g[a]]
      <3>1. f = [a \in DOMAIN f |-> f[a]]
        BY DEF MemOf
      <3>2. g = [a \in DOMAIN g |-> g[a]]
        BY DEF Stored
      <3>3. QED BY <3>1, <3>2
    <2>4. ASSUME NEW j \in DOMAIN areas, NEW a \in AreaSpan(areas[j])
          PROVE  /\ f[a] = new[j].buffer[a - areas[j].baseAddress]
                 /\ m[a] = areas[j].buffer[a - areas[j].baseAddress]
      <3>1. j \in DOMAIN new /\ a \in AreaSpan(new[j]) /\ new[j].baseAddress = areas[j].baseAddress
        BY <1>7, <1>9
      <3> HIDE DEF f, m
      <3>2. MemOf(new)[a] = new[j].buffer[a - new[j].baseAddress]
        BY <1>10, <3>1, FlatBytes
      <3>3. MemOf(areas)[a] = areas[j].buffer[a - areas[j].baseAddress]
        BY FlatBytes
      <3>4. QED BY <3>1, <3>2, <3>3 DEF f, m
    <2> HIDE DEF f, g, m
    <2>5. ASSUME NEW j \in DOMAIN areas, NEW a \in AreaSpan(areas[j])
          PROVE  f[a] = g[a]
      <3>1. a \in DOMAIN m
        BY <2>1, FlatBytes
      <3>2. CASE j # i
        <4>1. a \notin Span(addr, n)
          BY <3>2, OneArea
        <4>2. QED BY <1>7, <2>2, <2>4, <3>1, <3>2, <4>1
      <3>3. CASE j = i
        <4> DEFINE k == a - old.baseAddress
        <4>1. /\ k \in 0..(old.extent - 1) /\ a \in Int
              /\ k \in offset..(offset + n - 1) <=> a \in Span(addr, n)
              /\ k - offset = a - addr
          <5> DEFINE base == old.baseAddress
          <5>1. base \in Nat /\ old.extent \in Nat /\ a \in base..(base + old.extent - 1)
            BY <1>2, <3>3
          <5>2. offset = addr - base /\ k = a - base
            OBVIOUS
          <5> HIDE DEF base, offset, k, old
          <5>3. QED BY <1>3, <5>1, <5>2 DEF Span
        <4>2. f[a] = buffer[k] /\ m[a] = old.buffer[k]
          BY <1>5, <1>7, <2>4, <3>3
        <4>3. buffer[k] = IF k \in offset..(offset + n - 1) THEN ByteOf(in, k - offset) ELSE old.buffer[k]
          BY <1>2, <4>1
        <4> HIDE DEF k, buffer, offset, old
        <4>4. QED BY <2>2, <3>1, <4>1, <4>2, <4>3
      <3>4. QED BY <3>2, <3>3
    <2>6. ASSUME NEW a \in DOMAIN f PROVE f[a] = g[a]
      <3>1. a \in UNION RegionsOf(areas)
        BY <2>1
      <3>2. PICK j \in DOMAIN areas : a \in AreaSpan(areas[j])
        BY <3>1, FlatBytes
      <3>3. QED BY <2>5, <3>2
    <2>7. f = g
      BY <2>1, <2>2, <2>3, <2>6
    <2>8. QED BY <2>7 DEF f, g
  <1>13. QED BY <1>1, <1>10, <1>11, <1>12 DEF new

\* The same, for whoever names the new list
LEMMA WrittenList ==
  ASSUME NEW areas, Listed(areas), NEW i \in DOMAIN areas, NEW addr \in Word, NEW n \in AccessSizes,
         NEW in \in Word, Span(addr, n) \subseteq AreaSpan(areas[i]),
         NEW new, new = [k \in DOMAIN areas |-> IF k = i THEN BytesWritten(areas[k], addr, n, in) ELSE areas[k]]
  PROVE  /\ Listed(new)
         /\ RegionsOf(new) = RegionsOf(areas)
         /\ MemOf(new) = Stored(MemOf(areas), addr, n, in)
  <1>1. new = [areas EXCEPT ![i] = BytesWritten(@, addr, n, in)]
    BY DEF Listed
  <1>2. QED BY <1>1, Written

-----------------------------------------------------------------------------
(* The invariant and the refinement *)

IInv == Listed(memAreas) /\ memLastFaultAddress \in Word

\* FlatMemory speaks of spans and accesses in the words of Memory.
LEMMA SameWords ==
  /\ Flat!AccessSizes = AccessSizes
  /\ \A a, n : Flat!Span(a, n) = Span(a, n)
  /\ \A r, a, n : Flat!Accessible(r, a, n) = Accessible(r, a, n)
  /\ \A m, a, n : Flat!Value(m, a, n) = Value(m, a, n)
  /\ \A m, a, n, v : Flat!Stored(m, a, n, v) = Stored(m, a, n, v)
  /\ \A m, r : Flat!Cleared(m, r) = Cleared(m, r)
  <1>1. /\ Flat!AccessSizes = AccessSizes
        /\ \A a, n : Flat!Span(a, n) = Span(a, n)
        /\ \A a, k : Flat!ByteOf(a, k) = ByteOf(a, k)
    BY DEF Flat!AccessSizes, AccessSizes, Flat!Span, Span, Flat!ByteOf, ByteOf, Flat!ByteSize, ByteSize
  <1>2. \A r, a, n : Flat!Accessible(r, a, n) = Accessible(r, a, n)
    BY <1>1 DEF Flat!Accessible, Accessible
  <1>3. \A m, a, n : Flat!Value(m, a, n) = Value(m, a, n)
    BY DEF Flat!Value, Value, Flat!ByteSize, ByteSize
  <1>4. \A m, a, n, v : Flat!Stored(m, a, n, v) = Stored(m, a, n, v)
    BY <1>1 DEF Flat!Stored, Stored
  <1>5. \A m, r : Flat!Cleared(m, r) = Cleared(m, r)
    BY DEF Flat!Cleared, Cleared
  <1>6. QED BY <1>1, <1>2, <1>3, <1>4, <1>5

LEMMA InitFlat == Init => IInv /\ Flat!FlatInit
  <1> SUFFICES ASSUME Init PROVE IInv /\ Flat!FlatInit
    OBVIOUS
  <1>1. memAreas = <<>> /\ memLastFaultAddress = 0 /\ returned = <<<<"none">>, "ok", 0>>
    BY DEF Init
  <1>2. IInv
    <2>1. 0 \in Word
      BY PowersOfTwo DEF Word
    <2>2. <<>> \in Seq(Range(<<>>)) /\ DOMAIN <<>> = {}
      OBVIOUS
    <2>3. QED BY <1>1, <2>1, <2>2 DEF IInv, Listed, AreasApart
  <1>3. RegionsOf(memAreas) = {}
    BY <1>1 DEF RegionsOf
  <1>4. MemOf(memAreas) = [a \in {} |-> 0]
    BY <1>3 DEF MemOf
  <1>5. QED BY <1>1, <1>2, <1>3, <1>4 DEF Flat!FlatInit

LEMMA MapFlat ==
  ASSUME IInv, NEW r \in Ranges, MapArea(r[1], r[2])
  PROVE  IInv' /\ Flat!Map(r, Flat!Span(r[1], r[2]))
  <1> DEFINE base   == r[1]
             extent == r[2]
             region == Span(base, extent)
  <1>1. r = <<base, extent>> /\ base \in Nat /\ extent \in Nat /\ base + extent + WordBytes <= WordSize
    BY MemoryAssumption, PowersOfTwo DEF Word
  <1>2. /\ memAreas' = memMapArea(memAreas, base, extent)
        /\ returned' = <<<<"map", r>>,
             IF extent # 0 /\ ExtentMapped(memAreas, base, extent) THEN "mapped" ELSE "ok", 0>>
        /\ memLastFaultAddress' = memLastFaultAddress
    BY <1>1 DEF MapArea
  <1> HIDE DEF base, extent
  <1>3. Listed(memAreas) /\ memLastFaultAddress \in Word
    BY DEF IInv
  <1>4. DOMAIN MemOf(memAreas) = UNION RegionsOf(memAreas)
    BY <1>3, FlatBytes
  <1>5. {} \notin RegionsOf(memAreas)
    <2> SUFFICES ASSUME NEW i \in DOMAIN memAreas PROVE AreaSpan(memAreas[i]) # {}
      BY DEF RegionsOf
    <2>1. /\ memAreas[i].baseAddress \in Nat /\ memAreas[i].extent \in Nat \ {0}
          /\ AreaSpan(memAreas[i]) = memAreas[i].baseAddress..(memAreas[i].baseAddress + memAreas[i].extent - 1)
      BY <1>3, AreaFacts DEF Listed
    <2>2. memAreas[i].baseAddress \in AreaSpan(memAreas[i])
      BY <2>1
    <2>3. QED BY <2>2
  <1>6. CASE extent = 0
    <2>1. memAreas' = memAreas /\ returned' = <<<<"map", r>>, "ok", 0>>
      BY <1>2, <1>6 DEF memMapArea
    <2>2. region = {}
      BY <1>1, <1>6 DEF Span
    <2>3. Cleared(MemOf(memAreas), region) = MemOf(memAreas)
      BY <2>2 DEF Cleared, MemOf
    <2>4. IInv'
      BY <1>2, <1>3, <2>1 DEF IInv
    <2>5. RegionsOf(memAreas') = (RegionsOf(memAreas) \union {region}) \ {{}}
      BY <1>5, <2>1, <2>2
    <2>6. QED BY <2>1, <2>2, <2>3, <2>4, <2>5, SameWords DEF Flat!Map, base, extent
  <1>7. CASE extent # 0 /\ ExtentMapped(memAreas, base, extent)
    <2>1. memAreas' = memAreas /\ returned' = <<<<"map", r>>, "mapped", 0>>
      BY <1>2, <1>7 DEF memMapArea
    <2>2. region \intersect DOMAIN MemOf(memAreas) # {}
      BY <1>1, <1>3, <1>4, <1>7, Refused
    <2>3. IInv'
      BY <1>2, <1>3, <2>1 DEF IInv
    <2>4. QED BY <2>1, <2>2, <2>3, SameWords DEF Flat!Map, base, extent
  <1>8. CASE extent # 0 /\ ~ ExtentMapped(memAreas, base, extent)
    <2>1. returned' = <<<<"map", r>>, "ok", 0>>
      BY <1>2, <1>8
    <2>2. /\ Listed(memAreas')
          /\ region \intersect DOMAIN MemOf(memAreas) = {}
          /\ RegionsOf(memAreas') = RegionsOf(memAreas) \union {region}
          /\ MemOf(memAreas') = Cleared(MemOf(memAreas), region)
      BY <1>1, <1>2, <1>3, <1>4, <1>8, Mapped
    <2>3. region # {}
      <3>1. base \in region
        BY <1>1, <1>8 DEF Span
      <3>2. QED BY <3>1
    <2>4. RegionsOf(memAreas') = (RegionsOf(memAreas) \union {region}) \ {{}}
      BY <1>5, <2>2, <2>3
    <2>5. IInv'
      BY <1>2, <1>3, <2>2 DEF IInv
    <2>6. QED BY <2>1, <2>2, <2>4, <2>5, SameWords DEF Flat!Map, base, extent
  <1>9. QED BY <1>6, <1>7, <1>8

LEMMA ReadFlat ==
  ASSUME IInv, NEW addr \in Addresses, NEW n \in AccessSizes, Read(addr, n)
  PROVE  IInv' /\ Flat!Read(addr, n)
  <1> DEFINE i == memFindArea(memAreas, addr, n)
  <1>1. Listed(memAreas) /\ memLastFaultAddress \in Word /\ addr \in Word
    BY MemoryAssumption DEF IInv
  <1>2. /\ i # 0 <=> Accessible(RegionsOf(memAreas), addr, n)
        /\ i # 0 => i \in DOMAIN memAreas /\ Span(addr, n) \subseteq AreaSpan(memAreas[i])
    BY <1>1, Lookup
  <1>3. /\ returned' = IF i = 0 THEN <<<<"read", addr, n>>, "fault", 0>>
                       ELSE <<<<"read", addr, n>>, "ok", BytesRead(memAreas[i], addr, n)>>
        /\ memLastFaultAddress' = IF i = 0 THEN addr ELSE memLastFaultAddress
        /\ memAreas' = memAreas
    BY DEF Read
  <1> HIDE DEF i
  <1>4. i # 0 => BytesRead(memAreas[i], addr, n) = Value(MemOf(memAreas), addr, n)
    BY <1>1, <1>2, BytesReadAreValue
  <1>5. IInv'
    BY <1>1, <1>3 DEF IInv
  <1>6. QED BY <1>2, <1>3, <1>4, <1>5, SameWords DEF Flat!Read

LEMMA WriteFlat ==
  ASSUME IInv, NEW addr \in Addresses, NEW n \in AccessSizes, NEW in \in Values, Write(addr, n, in)
  PROVE  IInv' /\ Flat!Write(addr, n, in)
  <1> DEFINE i   == memFindArea(memAreas, addr, n)
             new == [memAreas EXCEPT ![i] = BytesWritten(@, addr, n, in)]
  <1>1. Listed(memAreas) /\ memLastFaultAddress \in Word /\ addr \in Word /\ in \in Word
    BY MemoryAssumption DEF IInv
  <1>2. /\ i # 0 <=> Accessible(RegionsOf(memAreas), addr, n)
        /\ i # 0 => i \in DOMAIN memAreas /\ Span(addr, n) \subseteq AreaSpan(memAreas[i])
    BY <1>1, Lookup
  <1>3. /\ memAreas' = IF i = 0 THEN memAreas ELSE new
        /\ returned' = <<<<"write", addr, n, in>>, IF i = 0 THEN "fault" ELSE "ok", 0>>
        /\ memLastFaultAddress' = IF i = 0 THEN addr ELSE memLastFaultAddress
    BY DEF Write
  <1> HIDE DEF i
  <1>4. i # 0 => /\ Listed(new)
                 /\ RegionsOf(new) = RegionsOf(memAreas)
                 /\ MemOf(new) = Stored(MemOf(memAreas), addr, n, in)
    BY <1>1, <1>2, Written
  <1> HIDE DEF new
  <1>5. IInv'
    BY <1>1, <1>3, <1>4 DEF IInv
  <1>6. QED BY <1>2, <1>3, <1>4, <1>5, SameWords DEF Flat!Write

LEMMA NextFlat == IInv /\ [Next]_memVars => IInv' /\ [Flat!FlatNext]_(Flat!flatVars)
  <1> SUFFICES ASSUME IInv, [Next]_memVars
               PROVE  IInv' /\ [Flat!FlatNext]_(Flat!flatVars)
    OBVIOUS
  <1>1. ASSUME NEW r \in Ranges, MapArea(r[1], r[2])
        PROVE  IInv' /\ Flat!FlatNext
    BY <1>1, MapFlat DEF Flat!FlatNext
  <1>2. ASSUME NEW addr \in Addresses, NEW n \in AccessSizes, Read(addr, n)
        PROVE  IInv' /\ Flat!FlatNext
    BY <1>2, ReadFlat, SameWords DEF Flat!FlatNext
  <1>3. ASSUME NEW addr \in Addresses, NEW n \in AccessSizes, NEW in \in Values, Write(addr, n, in)
        PROVE  IInv' /\ Flat!FlatNext
    BY <1>3, WriteFlat, SameWords DEF Flat!FlatNext
  <1>4. CASE UNCHANGED memVars
    BY <1>4 DEF IInv, memVars, Flat!flatVars
  <1>5. QED BY <1>1, <1>2, <1>3, <1>4 DEF Next

\* The list of areas and the areas in it keep their form (memory.c:4).
THEOREM TypeCorrect == Spec => []TypeOK
  <1>1. IInv => TypeOK
    BY DEF IInv, Listed, TypeOK
  <1>2. QED BY <1>1, InitFlat, NextFlat, PTL DEF Spec

\* Whatever is mapped in whatever order, the list stays sorted and its areas apart, as
\* memFindArea needs it (memory.c:26) and memMapArea, which compares neighbours, hopes
\* (memory.c:49-59).
THEOREM InOrder == Spec => []ListInOrder
  <1>1. IInv => ListInOrder
    BY DEF IInv, Listed, ListInOrder
  <1>2. QED BY <1>1, InitFlat, NextFlat, PTL DEF Spec

\* memory.c is a flat memory: every call succeeds, fails and yields what it would if memory
\* were bytes at addresses.
THEOREM MemoryIsFlat == Spec => Implements
  BY InitFlat, NextFlat, PTL DEF Spec, Implements, Flat!FlatSpec

===============================================================================
