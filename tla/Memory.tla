-------------------------------- MODULE Memory --------------------------------
(***************************************************************************)
(* The memory of the simulator (simrv32im/memory.c) on its own, under any  *)
(* sequence of calls.                                                      *)
(***************************************************************************)
EXTENDS Areas

CONSTANTS
  Ranges,     \* what is mapped: pairs of an address and a number of bytes
  Addresses,  \* the addresses read and written
  Values      \* the words written

ASSUME MemoryAssumption ==
  /\ Addresses \subseteq Word /\ Values \subseteq Word
  \* no area reaches into the last word of the address space: the end of an access that
  \* starts in such an area could wrap to 0, and so could the area's own end
  /\ Ranges \subseteq Word \X Nat
  /\ \A r \in Ranges : r[1] + r[2] + WordBytes <= WordSize

VARIABLES
  memAreas,            \* the areas, first to last
  memLastFaultAddress,
  returned             \* the last call, its outcome and the value it read

memVars == <<memAreas, memLastFaultAddress, returned>>

Init ==
  /\ memAreas = <<>>
  /\ memLastFaultAddress = 0
  /\ returned = <<<<"none">>, "ok", 0>>

MapArea(base, extent) ==
  /\ memAreas' = memMapArea(memAreas, base, extent)
  /\ returned' = <<<<"map", <<base, extent>>>>,
                  IF extent # 0 /\ ExtentMapped(memAreas, base, extent) THEN "mapped" ELSE "ok", 0>>
  /\ UNCHANGED memLastFaultAddress

Read(addr, n) ==
  LET i == memFindArea(memAreas, addr, n)
  IN /\ returned' = IF i = 0 THEN <<<<"read", addr, n>>, "fault", 0>>
                      ELSE <<<<"read", addr, n>>, "ok", BytesRead(memAreas[i], addr, n)>>
     /\ memLastFaultAddress' = IF i = 0 THEN addr ELSE memLastFaultAddress
     /\ UNCHANGED memAreas

Write(addr, n, in) ==
  LET i == memFindArea(memAreas, addr, n)
  IN /\ memAreas' = IF i = 0 THEN memAreas
                    ELSE [memAreas EXCEPT ![i] = BytesWritten(@, addr, n, in)]
     /\ returned' = <<<<"write", addr, n, in>>, IF i = 0 THEN "fault" ELSE "ok", 0>>
     /\ memLastFaultAddress' = IF i = 0 THEN addr ELSE memLastFaultAddress

Next ==
  \/ \E r \in Ranges : MapArea(r[1], r[2])
  \/ \E addr \in Addresses, n \in AccessSizes : Read(addr, n)
  \/ \E addr \in Addresses, n \in AccessSizes, in \in Values : Write(addr, n, in)

Spec == Init /\ [][Next]_memVars

-----------------------------------------------------------------------------
\* An area has a buffer of its extent (t_memArea in memory.c:4) and ends before the last
\* word of the address space.
WellFormedArea(area) ==
  /\ area \in [baseAddress : Word, extent : Nat \ {0}, buffer : [0..(area.extent - 1) -> Byte]]
  /\ area.baseAddress + area.extent + WordBytes <= WordSize

\* The list holds areas, the address of the last fault is one.
TypeOK ==
  /\ \A i \in DOMAIN memAreas : WellFormedArea(memAreas[i])
  /\ memLastFaultAddress \in Word

\* memMapArea keeps the list in order and its areas apart, which memFindArea relies on
\* when it gives up at the first area that holds the address (memory.c:26).
ListInOrder == AreasApart(memAreas)

\* Callers see a flat memory: calls succeed and fail when they should and every byte read
\* is the one written last, whatever the list of areas.
Flat == INSTANCE FlatMemory
          WITH mem <- MemOf(memAreas), regions <- RegionsOf(memAreas), answer <- returned
Implements == Flat!FlatSpec
===============================================================================
