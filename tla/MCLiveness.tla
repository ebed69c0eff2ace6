------------------------------ MODULE MCLiveness ------------------------------
(***************************************************************************)
(* Every program of Size instructions over two temporaries and two labels, *)
(* label 1 being placed before label 2.                                     *)
(***************************************************************************)
EXTENDS Liveness

CONSTANT Size

Shapes ==
  {LI(1), OP(1, 1, 2), OP(2, 1, REG_0), MOVE(REG_0, 2), BRANCH(2, 1), BRANCH(1, 2), J(1)}

At(code, places) ==
  [k \in DOMAIN code |->
     [code[k] EXCEPT !.label = IF \E l \in 1..2 : places[l] = k
                                 THEN CHOOSE l \in 1..2 : places[l] = k ELSE NoLabel]]

MCPrograms ==
  {At(code, places) : code \in [1..Size -> Shapes],
                      places \in {p \in [1..2 -> 1..Size] : p[1] < p[2]}}
===============================================================================
