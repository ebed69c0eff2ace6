----------------------------- MODULE MCLinearScan -----------------------------
(***************************************************************************)
(* Every list of four intervals between instructions 0 and MaxPoint whose  *)
(* registers come from a few preference lists.  Register 4 is free but in  *)
(* no preference list, like the reserved registers of the target.          *)
(***************************************************************************)
EXTENDS LinearScan

CONSTANTS MaxStart, MaxPoint, N

MCTemps == 1..N
MCRegs  == 1..4

Preferences == {<<1, 2>>, <<2, 1, 3>>}

MCInputs ==
  { [order |-> [i \in MCTemps |-> i], startPoint |-> s, endPoint |-> e, mcRegs |-> m] :
      s \in {f \in [MCTemps -> 0..MaxStart] : \A i \in 1..(N - 1) : f[i] <= f[i + 1]},
      e \in [MCTemps -> 0..MaxPoint],
      m \in [MCTemps -> Preferences] }

MCStarts == {list \in MCInputs : \A t \in MCTemps : list.startPoint[t] <= list.endPoint[t]}
===============================================================================
