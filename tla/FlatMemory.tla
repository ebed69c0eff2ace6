------------------------------ MODULE FlatMemory ------------------------------
(***************************************************************************)
(* The memory as its callers see it.  It is the specification that the     *)
(* list of areas of Memory implements.                                     *)
(***************************************************************************)
EXTENDS Bytes

CONSTANTS
  Ranges,     \* what is mapped: pairs of an address and a number of bytes
  Addresses,  \* the addresses read and written
  Values      \* the words written

VARIABLES
  mem,     \* the bytes of the mapped addresses
  regions, \* the sets of addresses mapped together
  answer   \* the last operation, its outcome and its value

flatVars == <<mem, regions, answer>>

FlatInit ==
  /\ mem = [a \in {} |-> 0]
  /\ regions = {}
  /\ answer = <<<<"none">>, "ok", 0>>

\* A region is mapped, and reads as zeros, when no address of it was mapped before.
Map(r, region) ==
  IF region \intersect DOMAIN mem = {}
    THEN /\ regions' = (regions \union {region}) \ {{}}
         /\ mem' = Cleared(mem, region)
         /\ answer' = <<<<"map", r>>, "ok", 0>>
    ELSE /\ answer' = <<<<"map", r>>, "mapped", 0>>
         /\ UNCHANGED <<mem, regions>>

\* Bytes are accessed together when they were mapped together.
Read(addr, n) ==
  /\ answer' = IF Accessible(regions, addr, n) THEN <<<<"read", addr, n>>, "ok", Value(mem, addr, n)>>
                ELSE <<<<"read", addr, n>>, "fault", 0>>
  /\ UNCHANGED <<mem, regions>>

Write(addr, n, v) ==
  /\ mem' = IF Accessible(regions, addr, n) THEN Stored(mem, addr, n, v) ELSE mem
  /\ answer' = <<<<"write", addr, n, v>>, IF Accessible(regions, addr, n) THEN "ok" ELSE "fault", 0>>
  /\ UNCHANGED regions

FlatNext ==
  \/ \E r \in Ranges : Map(r, Span(r[1], r[2]))
  \/ \E addr \in Addresses, n \in AccessSizes : Read(addr, n)
  \/ \E addr \in Addresses, n \in AccessSizes, v \in Values : Write(addr, n, v)

FlatSpec == FlatInit /\ [][FlatNext]_flatVars
===============================================================================
