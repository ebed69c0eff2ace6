---------------------------------- MODULE Ir ----------------------------------
(***************************************************************************)
(* The intermediate representation of acse (program.h) as far as control   *)
(* flow and register use go: opcodes are classes, immediates and names are *)
(* left out.  A program is the list of its instructions.                   *)
(***************************************************************************)
EXTENDS Integers, Sequences

REG_INVALID == -1
REG_0       == 0
NoLabel     == -1

\* t_instrArg; an argument the instruction does not have is NoArg.
Arg(t)         == [ID |-> t, mcRegWhitelist |-> <<>>]
ArgIn(t, regs) == [ID |-> t, mcRegWhitelist |-> IF t = REG_INVALID THEN <<>> ELSE regs]
NoArg          == Arg(REG_INVALID)

\* t_instruction
InstrArgs == [ID : Nat \union {REG_INVALID}, mcRegWhitelist : Seq(Nat)]

Instructions ==
  [ opcode : STRING, rDest : InstrArgs, rSrc1 : InstrArgs, rSrc2 : InstrArgs,
    label : Nat \union {NoLabel}, addressParam : Nat \union {NoLabel} ]

\* An instruction without constraints on its registers, as genInstruction makes it.
Instr(opcode, rd, rs1, rs2, label) ==
  [ opcode |-> opcode, rDest |-> Arg(rd), rSrc1 |-> Arg(rs1), rSrc2 |-> Arg(rs2),
    label |-> NoLabel, addressParam |-> label ]

LI(rd)          == Instr("LI", rd, REG_INVALID, REG_INVALID, NoLabel)
OP(rd, rs1, rs2) == Instr("OP", rd, rs1, rs2, NoLabel)
MOVE(rd, rs)    == Instr("OP", rd, rs, REG_INVALID, NoLabel)
J(label)        == Instr("J", REG_INVALID, REG_INVALID, REG_INVALID, label)
BRANCH(rs, label) == Instr("BRANCH", REG_INVALID, rs, REG_INVALID, label)
READ(rd)        == Instr("CALL_READ_INT", rd, REG_INVALID, REG_INVALID, NoLabel)
PRINT(rs)       == Instr("CALL_PRINT_INT", REG_INVALID, rs, REG_INVALID, NoLabel)
EXIT            == Instr("CALL_EXIT_0", REG_INVALID, REG_INVALID, REG_INVALID, NoLabel)

isExitInstruction(i)   == i.opcode = "CALL_EXIT_0"
isUnconditionalJump(i) == i.opcode = "J"
isJumpInstruction(i)   == i.opcode \in {"J", "BRANCH"}
isCallInstruction(i)   == i.opcode = "ECALL"
isSyscall(i) == i.opcode \in {"CALL_EXIT_0", "CALL_READ_INT", "CALL_PRINT_INT"}

\* bbNodeComputeDefUses
Args(i) == <<i.rDest, i.rSrc1, i.rSrc2>>
Defs(i) == {i.rDest.ID} \ {REG_INVALID}
\* The arguments, by position, that an instruction reads.
Sources(i) == {a \in {2, 3} : Args(i)[a].ID # REG_INVALID}
Uses(i) == {i.rSrc1.ID, i.rSrc2.ID} \ {REG_INVALID}
TempsOf(prog) == UNION {Defs(prog[k]) \union Uses(prog[k]) : k \in DOMAIN prog}

-----------------------------------------------------------------------------
(* The flow of control of a program, as the machine executes it: the       *)
(* reference the control flow graph is compared with.  A position past the *)
(* last instruction is the end of the program.                             *)

Labelled(prog, label) == {k \in DOMAIN prog : prog[k].label = label}

Flow(prog, k) ==
  LET taken == IF isJumpInstruction(prog[k])
               THEN Labelled(prog, prog[k].addressParam) ELSE {}
      falls == IF isUnconditionalJump(prog[k]) \/ isExitInstruction(prog[k])
               THEN {} ELSE {k + 1}
      stops == IF isExitInstruction(prog[k]) THEN {Len(prog) + 1} ELSE {}
  IN taken \union falls \union stops

End(prog) == Len(prog) + 1

(* Liveness by its definition: a temporary is live before an instruction   *)
(* when some path from there reads it before anything overwrites it.  Such *)
(* a path need not pass an instruction twice.                              *)
Readers(prog) ==
  UNION {{<<k, t>> : t \in Uses(prog[k]) \ {REG_0}} : k \in DOMAIN prog}

Edges(prog) == {e \in (DOMAIN prog) \X (DOMAIN prog) : e[2] \in Flow(prog, e[1])}

\* The instructions from which one of the edges leads to a reader without
\* overwriting what it reads.
Backwards(prog, edges, readers) ==
  UNION {{<<e[1], l[2]>> : l \in {x \in readers :
                                    x[1] = e[2] /\ x[2] \notin Defs(prog[e[1]])}} : e \in edges}

\* The temporaries a path of at most n + 1 instructions reads.
Within(prog) ==
  LET edges == Edges(prog)
      within[n \in Nat] ==
        IF n = 0 THEN Readers(prog)
        ELSE LET fewer == within[n - 1] IN fewer \union Backwards(prog, edges, fewer)
  IN within

LiveTable(prog) ==
  LET read == Within(prog)[Len(prog)]
  IN [k \in DOMAIN prog |-> {l[2] : l \in {x \in read : x[1] = k}}]

\* What is live after instruction k, given what is live before each.
LiveAfter(prog, table, k) == UNION {table[j] : j \in Flow(prog, k) \ {End(prog)}}

\* Every label a jump names is on exactly one instruction.
LabelsPlaced(prog) ==
  \A k \in DOMAIN prog :
    isJumpInstruction(prog[k]) =>
      /\ prog[k].addressParam # NoLabel
      /\ \E l \in DOMAIN prog : Labelled(prog, prog[k].addressParam) = {l}
===============================================================================
