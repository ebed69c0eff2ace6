--------------------------------- MODULE Bytes ---------------------------------
(***************************************************************************)
(* Words, bytes and addresses of the simulated machine, of any width, and  *)
(* what a program may take memory for: bytes at addresses, mapped in       *)
(* regions, zero until written.                                            *)
(***************************************************************************)
EXTENDS Integers, FiniteSets, Functions

CONSTANTS
  ByteBits,  \* bits of a byte (8)
  WordBytes  \* bytes of a word, of an address and of an instruction (4)

ASSUME WidthAssumption == ByteBits \in Nat \ {0} /\ WordBytes \in Nat \ {0}

ByteSize == 2 ^ ByteBits
WordSize == 2 ^ (ByteBits * WordBytes)
Byte     == 0 .. (ByteSize - 1)
Word     == 0 .. (WordSize - 1)

\* Unsigned arithmetic wraps.
Wrap(x) == x % WordSize

\* The k-th byte of a number, the least significant one being byte 0.
ByteOf(v, k) == (v \div ByteSize ^ k) % ByteSize

\* Bytes, half words and words are what instructions access.
AccessSizes == {n \in {1, 2, 4} : n <= WordBytes}

-----------------------------------------------------------------------------
(* Flat memory: mem is a function from the mapped addresses to bytes,      *)
(* regions the set of the sets of addresses mapped together.               *)

Span(addr, n) == addr .. (addr + n - 1)

Accessible(regions, addr, n) == \E r \in regions : Span(addr, n) \subseteq r
Value(mem, addr, n) ==
  LET byte(k) == IF k < n THEN mem[addr + k] * ByteSize ^ k ELSE 0
  IN byte(0) + byte(1) + byte(2) + byte(3)
Stored(mem, addr, n, v) ==
  [a \in DOMAIN mem |-> IF a \in Span(addr, n) THEN ByteOf(v, a - addr) ELSE mem[a]]
Cleared(mem, region) ==
  [a \in DOMAIN mem \union region |-> IF a \in region THEN 0 ELSE mem[a]]
===============================================================================
