------------------------------- MODULE MCMemory -------------------------------
(***************************************************************************)
(* Sixteen addresses, words of two bytes of two bits.  The ranges overlap, *)
(* touch, contain one another, leave gaps of one byte, and one ends where  *)
(* the last word of the address space begins.                              *)
(***************************************************************************)
EXTENDS Memory

MCRanges == {<<2, 2>>, <<4, 2>>, <<3, 1>>, <<5, 3>>, <<2, 5>>, <<12, 2>>, <<4, 0>>}
MCAddresses == {2, 3, 5, 13, 15}
MCValues == {9}
===============================================================================
