------------------------------ MODULE MCRegAlloc ------------------------------
(***************************************************************************)
(* Programs of the shapes the parser of LANCE generates: a statement, an   *)
(* if, a while, a do-while or an if in a while around a statement, and a   *)
(* last statement.                                                         *)
(***************************************************************************)
EXTENDS RegAlloc

CONSTANTS First, Inner, Final

On(l, code) == [code EXCEPT ![1].label = l]

IfThen(c, s, s2)    == <<BRANCH(c, 1)>> \o s \o On(1, s2)
WhileDo(c, s, s2)   == <<[BRANCH(c, 2) EXCEPT !.label = 1]>> \o s \o <<J(1)>> \o On(2, s2)
DoWhile(c, s, s2)   == On(1, s) \o <<BRANCH(c, 1)>> \o s2
LoopWithIf(c, s, s2) ==
  WhileDo(c, <<BRANCH(3 - c, 3)>> \o s \o On(3, <<OP(2, 2, 1)>>), s2)

Statement(n) ==
  CASE n = "read1"   -> <<READ(1)>>
    [] n = "read2"   -> <<READ(2)>>
    [] n = "print1"  -> <<PRINT(1)>>
    [] n = "print2"  -> <<PRINT(2)>>
    [] n = "add"     -> <<OP(1, 1, 2)>>
    [] n = "li2"     -> <<LI(2)>>
    [] n = "set"     -> <<LI(3), OP(2, 1, 3)>>
    [] n = "two"     -> <<READ(1), LI(2)>>
    [] n = "three"   -> <<LI(3), OP(1, 3, 3), OP(2, 1, 3)>>
    [] n = "used"    -> <<READ(1), PRINT(1)>>
    [] n = "lost"    -> <<LI(1), PRINT(2)>>
    [] n = "sum"     -> <<OP(1, 2, 3), PRINT(1)>>

MCPrograms ==
  LET st == [n \in First \union Inner \union Final |-> Statement(n)]
      shaped(c, s, s2) ==
        {IfThen(c, s, s2), WhileDo(c, s, s2), DoWhile(c, s, s2), LoopWithIf(c, s, s2)}
  IN UNION {{fixSyscalls(st[n0] \o p, 4) : p \in shaped(c, st[n1], st[n2])} :
              c \in 1..2, n0 \in First, n1 \in Inner, n2 \in Final}

\* Some of the programs read what was never written, which the parser never does.
ASSUME /\ \E p \in MCPrograms : EnteredFromAbove(p)
       /\ \E p \in MCPrograms : ~EnteredFromAbove(p)

\* Every call has been lowered.
ASSUME \A p \in MCPrograms : CallsLowered(p)

MCGpRegs == <<REG_S0, REG_T0, REG_A0, REG_A7>>
===============================================================================
