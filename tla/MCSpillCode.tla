------------------------------ MODULE MCSpillCode ------------------------------
(***************************************************************************)
(* Tasks: short programs with a branch or a loop over three temporaries    *)
(* and system calls, with every sound binding of the temporaries to two    *)
(* registers or to memory.                                                 *)
(***************************************************************************)
EXTENDS SpillCode

CONSTANTS InPlace   \* whether a spilled temporary may be source and destination at once

On(l, s) == [s EXCEPT ![1].label = l]

IfThen(c, s, s2)    == <<BRANCH(c, 1)>> \o s \o On(1, s2)
WhileDo(c, s, s2)   == <<[BRANCH(c, 2) EXCEPT !.label = 1]>> \o s \o <<J(1)>> \o On(2, s2)
DoWhile(c, s, s2)   == On(1, s) \o <<BRANCH(c, 1)>> \o s2

Bodies == {<<OP(1, 2, 3), OP(2, 3, 1)>>, <<OP(3, 1, 2)>>, <<OP(1, 2, 2)>>, <<OP(1, 1, 2)>>,
           <<PRINT(1)>>, <<READ(2)>>, <<LI(2), OP(3, 1, 2)>>}
Finals == {<<OP(2, 1, 3), PRINT(2)>>, <<OP(1, 3, 2), OP(3, 1, 2)>>}

Shaped == UNION {{fixSyscalls(<<LI(1), LI(2), LI(3)>> \o p, 4) :
                    p \in {IfThen(c, s, s2), WhileDo(c, s, s2), DoWhile(c, s, s2)}} :
                   c \in {1, 3}, s \in Bodies, s2 \in Finals}

Bindings(p) ==
  LET calls == [t \in TempsOf(p) \ 1..3 |->
                  IF \E k \in DOMAIN p : isCallInstruction(p[k]) /\ p[k].rSrc1.ID = t
                    THEN REG_A7 ELSE REG_A0]
  IN {b @@ calls : b \in [1..3 -> {RA_SPILL_REQUIRED, REG_S0, REG_T0}]}

Updates(task) ==
  \E k \in DOMAIN task.prog :
    \E t \in Defs(task.prog[k]) \intersect Uses(task.prog[k]) : task.bindings[t] = RA_SPILL_REQUIRED

MCTasks ==
  LET sound(p, table) == {b \in Bindings(p) : Sound(p, table, b) /\ Updates([prog |-> p, bindings |-> b]) = InPlace}
  IN UNION {{[prog |-> p, bindings |-> b] : b \in sound(p, LiveTable(p))} : p \in Shaped}
===============================================================================
