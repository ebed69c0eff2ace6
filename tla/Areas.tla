--------------------------------- MODULE Areas ---------------------------------
(***************************************************************************)
(* The list of mapped areas of the simulator (simrv32im/memory.c), in      *)
(* order of their addresses, each with its bytes.                          *)
(***************************************************************************)
EXTENDS Bytes, SequencesExt

\* Powers of two are numbers, and multiply.
ASSUME PowersOfTwo ==
  /\ ByteSize \in Nat \ {0} /\ WordSize \in Nat \ {0}
  /\ \A k \in 0..3 : ByteSize ^ k \in Nat \ {0}

ASSUME PowersMultiply ==
  /\ ByteSize ^ 0 = 1 /\ \A k \in 0..3 : ByteSize ^ (k + 1) = ByteSize ^ k * ByteSize
  /\ \A n \in 1..4 : 2 * (ByteSize ^ n \div 2) = ByteSize ^ n /\ (n <= WordBytes => ByteSize ^ n <= WordSize)

memAreaEnd(area) == Wrap(area.baseAddress + area.extent)

\* Fault: the last byte of an area is out of reach.
FindAreaShort(areas, addr, n) ==
  LET holding == {i \in DOMAIN areas : areas[i].baseAddress <= addr /\ addr < memAreaEnd(areas[i])}
      first   == Min(holding)
  IN IF holding # {} /\ Wrap(addr + n) < memAreaEnd(areas[first]) THEN first ELSE 0

\* The area that holds n bytes at addr, 0 when memFindArea returns none.
memFindArea(areas, addr, n) ==
  LET holding == {i \in DOMAIN areas : areas[i].baseAddress <= addr /\ addr < memAreaEnd(areas[i])}
      first   == Min(holding)
  IN IF holding # {} /\ Wrap(addr + n) <= memAreaEnd(areas[first]) THEN first ELSE 0

\* memRead8, memRead16, memRead32 of an area that was found
BytesRead(area, addr, n) ==
  LET offset  == addr - area.baseAddress
      byte(k) == IF k < n THEN area.buffer[offset + k] * ByteSize ^ k ELSE 0
  IN byte(0) + byte(1) + byte(2) + byte(3)

\* memWrite8, memWrite16, memWrite32
BytesWritten(area, addr, n, in) ==
  LET offset == addr - area.baseAddress
  IN [area EXCEPT !.buffer = [k \in DOMAIN @ |->
        IF k \in offset..(offset + n - 1) THEN ByteOf(in, k - offset) ELSE @[k]]]

-----------------------------------------------------------------------------
(* Mapping *)

\* Where memMapArea inserts: before the first area that starts after the new one ends.
AreaPlace(areas, base, extent) ==
  Min({i \in DOMAIN areas : Wrap(base + extent) <= areas[i].baseAddress} \union {Len(areas) + 1})

\* Fault: the new area may start at the last byte of the one before.
ExtentMappedLate(areas, base, extent) ==
  LET prev == AreaPlace(areas, base, extent) - 1
  IN prev > 0 /\ base < memAreaEnd(areas[prev]) - 1

ExtentMapped(areas, base, extent) ==
  LET prev == AreaPlace(areas, base, extent) - 1
  IN prev > 0 /\ base < memAreaEnd(areas[prev])

\* calloc clears the buffer
NewArea(base, extent) ==
  [baseAddress |-> base, extent |-> extent, buffer |-> [k \in 0..(extent - 1) |-> 0]]

memMapArea(areas, base, extent) ==
  IF extent = 0 \/ ExtentMapped(areas, base, extent) THEN areas
  ELSE InsertAt(areas, AreaPlace(areas, base, extent), NewArea(base, extent))

-----------------------------------------------------------------------------
(* The flat memory the list stands for. *)

AreaSpan(area) == Span(area.baseAddress, area.extent)
RegionsOf(areas) == {AreaSpan(areas[i]) : i \in DOMAIN areas}
MemOf(areas) ==
  [a \in UNION RegionsOf(areas) |->
     LET i == CHOOSE i \in DOMAIN areas : a \in AreaSpan(areas[i])
     IN areas[i].buffer[a - areas[i].baseAddress]]

\* Areas are in order and no two share an address.
AreasApart(areas) ==
  \A i, j \in DOMAIN areas : i < j =>
    areas[i].baseAddress + areas[i].extent <= areas[j].baseAddress
===============================================================================
