------------------------------- MODULE SpillCode -------------------------------
(***************************************************************************)
(* The code that the allocation turns a program into, with the loads and   *)
(* stores of the spilled temporaries (materializeRegAllocInCFG of          *)
(* acse/reg_alloc.c), and the execution of that code.                      *)
(*                                                                         *)
(* The first phase walks the program and emits the code, one argument of  *)
(* an instruction per step.  The second runs it on a machine whose         *)
(* caller-saved registers a system call destroys.                          *)
(***************************************************************************)
EXTENDS Target

CONSTANTS
  Tasks,      \* the programs with their bindings
  NumSlots    \* NUM_SPILL_REGS

ASSUME SlotsAssumption == NumSlots \in Nat /\ NumSlots >= 3

\* A program reads nothing it has not written, and its bindings are sound.
ASSUME TasksAssumption ==
  \A task \in Tasks :
    LET table == LiveTable(task.prog)
    IN /\ task.prog \in Seq(Instructions) /\ task.prog # <<>>
       /\ table[1] = {}
       /\ Sound(task.prog, table, task.bindings)

VARIABLES
  prog, bindings, needed,  \* the task, and the temporaries live before each instruction
  cursor,     \* curInnerNode: the instruction being materialized
  pass, arg,  \* the loop over its arguments that runs, and the argument it is at
  argSlot,    \* argState[].spillSlot
  label,      \* the label of the instruction, until a load takes it
  slots,      \* t_spillState of the current block
  closing,    \* the block's last instruction is materialized, its write back is not
  code,       \* the emitted code
  pc, regs, mem, runs, seen    \* the machine that executes it

taskVars    == <<prog, bindings, needed>>
argVars     == <<pass, arg, argSlot, label>>
emitVars    == <<cursor, argVars, slots, closing, code>>
machineVars == <<pc, regs, mem, runs, seen>>
vars        == <<taskVars, emitVars, machineVars>>

Slots  == 1..NumSlots
NoSlot == 0
Junk   == <<0, 0>>

spillReg(s) == getSpillMachineRegister(s - 1)
Spilled(t)  == t # REG_INVALID /\ bindings[t] = RA_SPILL_REQUIRED

EmptySlots == [s \in Slots |-> [assignedTempReg |-> REG_INVALID, needsWB |-> FALSE]]

\* Instruction k is the last of its basic block.
BlockEndsAt(k) ==
  \/ k = Len(prog)
  \/ isJumpInstruction(prog[k]) \/ isExitInstruction(prog[k])
  \/ prog[k + 1].label # NoLabel

-----------------------------------------------------------------------------
(* Emitting the code.  An emitted instruction remembers the instruction of *)
(* the program it stands before or implements, and the slots at its start. *)

Emitted(i, k, sl) == [instr |-> i, of |-> k, slots |-> sl]

\* genStoreSpillVariable, genLoadSpillVariable
StoreSlot(s, t) == [Instr("SW", REG_INVALID, spillReg(s), REG_INVALID, NoLabel) EXCEPT !.addressParam = t]
LoadSlot(s, t, lab) ==
  [Instr("LW", spillReg(s), REG_INVALID, REG_INVALID, NoLabel) EXCEPT !.addressParam = t, !.label = lab]

isDestination(a) == a = 1
ArgReg(a) == Args(prog[cursor])[a].ID

Materializing == cursor <= Len(prog) /\ ~closing

\* The first loop: is the argument in a slot since a previous instruction?
ReuseSlot ==
  /\ Materializing /\ pass = 1 /\ arg <= 3
  /\ LET holding == {s \in Slots : slots[s].assignedTempReg = ArgReg(arg)}
     IN IF Spilled(ArgReg(arg)) /\ holding # {}
          THEN \E s \in holding :
                 /\ argSlot' = [argSlot EXCEPT ![arg] = s]
                 /\ slots' = [slots EXCEPT ![s].needsWB = @ \/ isDestination(arg)]
          ELSE UNCHANGED <<argSlot, slots>>
  /\ arg' = arg + 1
  /\ UNCHANGED <<taskVars, cursor, pass, label, closing, code, machineVars>>

FindOthers ==
  /\ Materializing /\ pass = 1 /\ arg > 3
  /\ pass' = 2
  /\ arg' = 1
  /\ UNCHANGED <<taskVars, cursor, argSlot, label, slots, closing, code, machineVars>>

\* The second loop, for an argument that needs no slot or has one.
NeedsNoSlot ==
  /\ Materializing /\ pass = 2 /\ arg <= 3
  /\ ~Spilled(ArgReg(arg)) \/ argSlot[arg] # NoSlot
  /\ arg' = arg + 1
  /\ UNCHANGED <<taskVars, cursor, pass, argSlot, label, slots, closing, code, machineVars>>

\* Fault: an argument is not compared with the earlier ones.
NeverSame == {}

SameArgument == {b \in 1..(arg - 1) : ArgReg(b) = ArgReg(arg)}

\* The same temporary is an earlier argument: nothing to do but to note the write.
ShareSlot ==
  /\ Materializing /\ pass = 2 /\ arg <= 3
  /\ Spilled(ArgReg(arg)) /\ argSlot[arg] = NoSlot
  /\ \E b \in SameArgument :
       /\ \A c \in SameArgument : b <= c
       /\ argSlot' = [argSlot EXCEPT ![arg] = argSlot[b]]
       /\ slots' = [slots EXCEPT ![argSlot[b]].needsWB = @ \/ isDestination(arg)]
  /\ arg' = arg + 1
  /\ UNCHANGED <<taskVars, cursor, pass, label, closing, code, machineVars>>

\* Fault: the slots the instruction itself uses are not left alone.
AlwaysTheFirst(s) == s = 1

\* The first slot no argument uses.
FirstUnused(s) ==
  LET unused == Slots \ {argSlot[b] : b \in 1..3}
  IN s \in unused /\ \A u \in unused : s <= u

\* Evict what slot s holds, with a store if memory does not have it, and load the
\* argument unless it is only written.
TakeSlot ==
  /\ Materializing /\ pass = 2 /\ arg <= 3
  /\ Spilled(ArgReg(arg)) /\ argSlot[arg] = NoSlot
  /\ SameArgument = {}
  /\ \E s \in Slots :
       /\ FirstUnused(s)
       /\ argSlot' = [argSlot EXCEPT ![arg] = s]
       /\ slots' = [slots EXCEPT ![s] = [assignedTempReg |-> ArgReg(arg), needsWB |-> isDestination(arg)]]
       /\ LET store == Emitted(StoreSlot(s, slots[s].assignedTempReg), cursor, slots)
              load  == Emitted(LoadSlot(s, ArgReg(arg), label), cursor,
                               [slots EXCEPT ![s].assignedTempReg = REG_INVALID])
          IN code' = code \o (IF slots[s].needsWB THEN <<store>> ELSE <<>>)
                          \o (IF isDestination(arg) THEN <<>> ELSE <<load>>)
       /\ label' = IF isDestination(arg) THEN label ELSE NoLabel
  /\ arg' = arg + 1
  /\ UNCHANGED <<taskVars, cursor, pass, closing, machineVars>>

\* The register an argument is rewritten to.
NewReg(a) ==
  IF argSlot[a] # NoSlot THEN spillReg(argSlot[a])
  ELSE IF ArgReg(a) = REG_INVALID THEN REG_INVALID ELSE bindings[ArgReg(a)]

\* The third loop, and the step to the next instruction.
Rewrite ==
  /\ Materializing /\ pass = 2 /\ arg > 3
  /\ code' = Append(code, Emitted([prog[cursor] EXCEPT !.rDest.ID = NewReg(1),
                                                       !.rSrc1.ID = NewReg(2),
                                                       !.rSrc2.ID = NewReg(3),
                                                       !.label = label], cursor, slots))
  /\ closing' = BlockEndsAt(cursor)
  /\ cursor' = cursor + 1
  /\ pass' = 1
  /\ arg' = 1
  /\ argSlot' = <<NoSlot, NoSlot, NoSlot>>
  /\ label' = IF cursor < Len(prog) THEN prog[cursor + 1].label ELSE NoLabel
  /\ UNCHANGED <<taskVars, slots, machineVars>>

\* The end of materializeRegAllocInBB: dirty slots are stored before the jump that
\* ends the block, or each right after its last instruction, so that the last comes first.
WriteBackBlock ==
  /\ closing
  /\ LET last  == cursor - 1
         jumps == isJumpInstruction(prog[last]) \/ isExitInstruction(prog[last])
         dirty == SelectSeq([s \in Slots |-> s], LAMBDA s : slots[s].needsWB)
         stores(k) == [d \in DOMAIN dirty |->
                         Emitted(StoreSlot(dirty[d], slots[dirty[d]].assignedTempReg), k, slots)]
     IN code' = IF jumps THEN Front(code) \o stores(last) \o <<Last(code)>>
                ELSE code \o Reverse(stores(cursor))
  /\ slots' = EmptySlots
  /\ closing' = FALSE
  /\ UNCHANGED <<taskVars, cursor, argVars, machineVars>>

-----------------------------------------------------------------------------
(* Running it *)

Running == cursor > Len(prog) /\ ~closing /\ pc <= Len(code)

\* The registers the operands of i are read from: those of a system call are where
\* the environment looks for them, whatever the instruction says.
Operand(i, a) == IF isCallInstruction(i) THEN a.mcRegWhitelist[1] ELSE a.ID

\* One instruction of the program, as rewritten.
ExecuteInstruction ==
  /\ Running
  /\ code[pc].instr.opcode \notin {"SW", "LW"}
  /\ LET i == code[pc].instr
         k == code[pc].of
         destroyed == IF isCallInstruction(i) THEN CallerSaveRegs ELSE {}
         written   == IF i.rDest.ID = REG_INVALID THEN {} ELSE {Operand(i, i.rDest)}
         branch == {c \in DOMAIN code : code[c].instr.label = i.addressParam}
     IN /\ seen' = [a \in Sources(i) |-> regs[Operand(i, Args(i)[a])]]
        /\ regs' = [r \in DOMAIN regs |-> IF r \in written THEN <<k, runs[k]>>
                                          ELSE IF r \in destroyed THEN Junk ELSE regs[r]]
        /\ runs' = [runs EXCEPT ![k] = 1 - @]
        /\ \/ isJumpInstruction(i) /\ pc' \in branch
           \/ ~isUnconditionalJump(i) /\ pc' = pc + 1
  /\ UNCHANGED <<taskVars, emitVars, mem>>

\* A store goes through T6, which holds the address.
ExecuteStore ==
  /\ Running
  /\ code[pc].instr.opcode = "SW"
  /\ mem' = [mem EXCEPT ![code[pc].instr.addressParam] = regs[code[pc].instr.rSrc1.ID]]
  /\ regs' = [regs EXCEPT ![REG_T6] = Junk]
  /\ pc' = pc + 1
  /\ UNCHANGED <<taskVars, emitVars, runs, seen>>

ExecuteLoad ==
  /\ Running
  /\ code[pc].instr.opcode = "LW"
  /\ regs' = [regs EXCEPT ![code[pc].instr.rDest.ID] = mem[code[pc].instr.addressParam]]
  /\ pc' = pc + 1
  /\ UNCHANGED <<taskVars, emitVars, mem, runs, seen>>

Init ==
  /\ \E task \in Tasks :
       /\ prog = task.prog
       /\ label = task.prog[1].label
       /\ bindings = task.bindings
       /\ needed = LiveTable(task.prog)
       /\ mem = [t \in TempsOf(task.prog) |-> Junk]
       /\ runs = [k \in DOMAIN task.prog |-> 0]
  /\ cursor = 1
  /\ pass = 1
  /\ arg = 1
  /\ argSlot = <<NoSlot, NoSlot, NoSlot>>
  /\ slots = EmptySlots
  /\ closing = FALSE
  /\ code = <<>>
  /\ pc = 1
  /\ regs = [r \in (1..REG_T6) |-> Junk]
  /\ seen = <<>>

Ended == cursor > Len(prog) /\ ~closing /\ pc > Len(code) /\ UNCHANGED vars

Next ==
  \/ ReuseSlot \/ FindOthers \/ NeedsNoSlot \/ ShareSlot \/ TakeSlot \/ Rewrite
  \/ WriteBackBlock
  \/ ExecuteInstruction \/ ExecuteStore \/ ExecuteLoad

Spec == Init /\ [][Next \/ Ended]_vars /\ WF_vars(Next)

-----------------------------------------------------------------------------
(* What makes the code correct *)

\* Where the value of a temporary is when the machine is at pc.
ValueOf(t) ==
  IF ~Spilled(t) THEN regs[bindings[t]]
  ELSE LET held == {s \in Slots : code[pc].slots[s].assignedTempReg = t}
       IN IF held = {} THEN mem[t] ELSE regs[spillReg(CHOOSE s \in held : TRUE)]

Started == cursor > Len(prog) /\ ~closing

vpc == IF ~Started THEN 1 ELSE IF pc > Len(code) THEN End(prog) ELSE code[pc].of

Temporaries ==
  [t \in (IF vpc = End(prog) THEN {} ELSE needed[vpc]) |-> ValueOf(t)]

\* The emitted code runs the program: every instruction is executed when it should
\* be and reads the values it should, whatever is loaded, evicted and written back
\* in between.
Source == INSTANCE TempMachine WITH temps <- Temporaries, vpc <- vpc
Implements == Source!TempSpec

\* A temporary is in one slot at most: otherwise one of the copies is stale.
OneSlotEach ==
  \A s, u \in Slots :
    slots[s].assignedTempReg = slots[u].assignedTempReg /\ slots[s].assignedTempReg # REG_INVALID
      => s = u
===============================================================================
