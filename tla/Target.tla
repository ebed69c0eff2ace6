-------------------------------- MODULE Target --------------------------------
(***************************************************************************)
(* The machine acse compiles for (target_info.c), the lowering of the      *)
(* system calls to it (fixSyscalls of target_transform.c), and what the    *)
(* allocation of its registers must achieve.                               *)
(***************************************************************************)
EXTENDS Ir, SequencesExt

REG_T0 == 5
REG_S0 == 8
REG_S1 == 9
REG_A0 == 10
REG_A7 == 17
REG_S9 == 25
REG_T6 == 31

CallerSaveRegs == (5..7) \union (28..30) \union (10..17)

getSpillMachineRegister(i) == i + REG_S9

ECALL(rd, rFunc, rArg) ==
  [ Instr("ECALL", rd, rFunc, rArg, NoLabel) EXCEPT
      !.rDest = ArgIn(rd, <<REG_A0>>),
      !.rSrc1 = ArgIn(rFunc, <<REG_A7>>),
      !.rSrc2 = ArgIn(rArg, <<REG_A0>>) ]

(***************************************************************************)
(* The instructions that replace call instruction i, the first free        *)
(* temporary being r.  Removing i hands its label to the first of them.    *)
(***************************************************************************)
LoweredCall(i, r) ==
  LET hasArg  == i.rSrc1.ID # REG_INVALID
      hasDest == i.rDest.ID # REG_INVALID
      rArg    == IF hasArg THEN r + 1 ELSE REG_INVALID
      rd      == IF hasDest THEN r + 1 + (IF hasArg THEN 1 ELSE 0) ELSE REG_INVALID
  IN <<[LI(r) EXCEPT !.label = i.label]>>
       \o (IF hasArg THEN <<MOVE(rArg, i.rSrc1.ID)>> ELSE <<>>)
       \o <<ECALL(rd, r, rArg)>>
       \o (IF hasDest THEN <<MOVE(i.rDest.ID, rd)>> ELSE <<>>)

\* program->firstUnusedReg after the call has been lowered.
UnusedAfter(i, r) ==
  r + 1 + Cardinality({a \in {"rSrc1", "rDest"} : i[a].ID # REG_INVALID})

\* fixSyscalls on a program whose first unused temporary is r.
fixSyscalls(prog, r) ==
  LET Lower(done, i) ==
        IF isSyscall(i)
          THEN [code |-> done.code \o LoweredCall(i, done.unused),
                unused |-> UnusedAfter(i, done.unused)]
          ELSE [done EXCEPT !.code = Append(@, i)]
  IN FoldLeft(Lower, [code |-> <<>>, unused |-> r], prog).code

-----------------------------------------------------------------------------
(* What a binding of temporaries to registers must satisfy for a program:  *)
(* what RegAlloc promises and SpillCode relies on.                         *)

RA_SPILL_REQUIRED == -2

\* Two temporaries whose values are needed at the same moment, or of which one is
\* written while the other is needed, are not in one register.
InterferenceFree(prog, table, bindings) ==
  \A k \in DOMAIN prog :
    \A S \in {table[k], LiveAfter(prog, table, k) \union (Defs(prog[k]) \ {REG_0})} :
      \A t, u \in S : t # u /\ bindings[t] # RA_SPILL_REQUIRED => bindings[t] # bindings[u]

\* The operands of a system call are in the registers it takes them from.
OperandsPlaced(prog, bindings) ==
  \A k \in DOMAIN prog : isCallInstruction(prog[k]) =>
    \A a \in Range(Args(prog[k])) :
      a.ID # REG_INVALID => bindings[a.ID] \in Range(a.mcRegWhitelist)

\* No value needed after a system call is in a register the call may destroy.
CallsSurvived(prog, table, bindings) ==
  \A k \in DOMAIN prog : isCallInstruction(prog[k]) =>
    \A t \in LiveAfter(prog, table, k) \ Defs(prog[k]) : bindings[t] \notin CallerSaveRegs

\* table is what is live before each instruction: LiveTable(prog).
Sound(prog, table, bindings) ==
  /\ OperandsPlaced(prog, bindings)
  /\ CallsSurvived(prog, table, bindings)
  /\ InterferenceFree(prog, table, bindings)
===============================================================================
