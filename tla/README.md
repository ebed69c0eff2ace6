# A verification development for ACSE

ACSE is a small compiler toolchain: `acse` compiles LANCE to RV32IM assembly,
`asrv32im` assembles it, `simrv32im` runs the result.  The modules beside this
file model it from the semantic actions of the compiler to the instructions the
simulator executes, check the models with TLC on small instances, and prove with TLAPS,
for instances of any size, the central facts about the analyses of the compiler and its register
allocator, the layout of executables, the encoding of instructions, and the simulator: that it
is a RISC-V processor to every program it runs.

Paths are relative to the repository; `reg_alloc.c` and the like are in `src/acse/`.

## 1. The system

Everything is sequential: no threads, signals or messages.  What is hard here is
not interleaving but long chains of passes, each relying on what the previous
ones leave in shared lists, with off-by-one boundaries at every hand-over.

| Component | State | Operations | What makes it correct | Hard part |
|---|---|---|---|---|
| Program and labels (`program.c`) | list of instructions, pending label, next label and register | `assignLabel`, `addInstruction`, `removeInstructionAt`, `genEpilog`, ... | every label a jump names is on one instruction | labels assigned before their instruction exists, aliases, removal |
| LANCE parser, code generation (`parser.y`, `codegen.c`) | a program under construction, values and labels of open statements | one action per grammar rule | the program does what its source says; errors are found and no others | labels carried across nested statements, index arithmetic |
| Lowering (`target_transform.c`) | the program, in place | `fixPseudoInstructions`, `fixSyscalls`, `fixUnsupportedImmediates` | same results, only machine instructions, operands of calls constrained | bounds of immediates; order of the three passes |
| Control flow graph, liveness (`cfg.c`) | blocks, edges, `in`/`out` sets | `programToCFG`, `cfgComputeLiveness` | graph = flow of control; sets = liveness | sweeps to a fixed point around loops |
| Intervals and constraints (`reg_alloc.c`) | `liveIntervals` with their sets of registers | `getLiveIntervals`, `initializeRegisterConstraints`, `handleCallerSaveRegisters` | intervals cover lifetimes; constraints leave call registers free | an interval's end that touches another's start |
| Linear scan (`reg_alloc.c`) | active list, free list, constraints, bindings | `expireOldIntervals`, `assignRegister`, `spillAtInterval` | no register shared, lost, or outside its constraints | full register file, take-over of another's register |
| Spill code (`reg_alloc.c`) | three slots per block, emitted code | `materializeRegAllocInBB...` | the emitted code computes what the program did | stale slots, stores at block ends, labels on loads |
| Assembly writer (`target_asm_print.c`) | - | `writeAssembly` | the assembler reads what is meant | names of labels, pseudo-instructions the assembler expands again |
| LANCE scanner, drivers, errors | - | text in and out | formatting | - |
| Assembler parser (`asrv32im/parser.c`) | the object, local labels, errors so far | a line at a time | a label is the one the programmer sees | numeric labels declared again and again; recovery after an error |
| Assembler object, layout, encoding (`object.c`, `encode.c`) | two lists of items, addresses | expand, place, resolve, encode | addresses and immediates of every item agree | expansion before layout, addresses in two parts, padding, reach |
| ELF writer and loader | files | read, write | formats | - |
| Simulator (`src/simrv32im`) | registers, latched status, memory areas, break points | `cpuTick`, `svVMTick`, `dbgTick`, `memMapArea` | one instruction per tick, each once | retry after a fault, latched status, stepping |

Data flows one way.  `acse.c`: `parseProgram` builds the list of instructions;
`doTargetSpecificTransformations` lowers it in place; `newRegAllocator` builds the graph,
liveness, intervals and constraints; `regallocRun` binds the registers, emits the spill code
and turns the graph into a list again; `writeAssembly` prints it.  `asrv32im.c`: `parseObject`
builds the object, `objMaterialize` makes four passes over it, `outputToELF` writes it.  In the
simulator `ldrLoadExecutable` maps it, then the supervisor drives processor and debugger by
calls, tick by tick.

The hazards of this code, with their lines and the properties that watch them,
or the reason why none does, are listed in `PROJECT.json`.

## 2. Modules

```
 Ir ── Liveness ── LiveIntervals ── RegAlloc ── RegAllocProofs  (the analyses,
  │                     │              │                │       step by step)
  │                     │              │ INSTANCE       │ INSTANCE
  │                     │          LinearScan ── LinearScanProofs
  └── Target ───────────┘
        └── SpillCode ── INSTANCE ──> TempMachine
                └── SpillCodeProofs

 Bytes ── Areas ── Memory  ── INSTANCE ──> FlatMemory      (the simulator)
   │        │        └── MemoryProofs <── INSTANCE ──┐
   │        └───── Machine ── INSTANCE ──> Hart      │
   │                  └── MachineProofs ─────────────┘
   ├── FlatMemory, Hart
   └── RiscV ── Instructions ── Cpu ── SingleStep          (arithmetic)
         │          │
         │          ├── TargetTransform ── Lowering ── InstructionProofs
         │          │         │                               │
         │          │         │                           Encoding          (instruction words)
         │          │         └── Program ── Compiler ─────────┐
         │          │                └────── AsmWriter ────────┤
         │          │                                          ├── Toolchain ── ToolchainProofs
         │          └── Passes ─── AsmParser ──────────────────┤       │              │
         │                 ├────── ObjectLayout ───────────────┘       │ INSTANCE   FileProofs
         │                 │                                           v
         │                 └── (also under Compiler and AsmWriter)   Lance
         └───────────────────────────────────────────────────────────┘
```

The modules fall into four groups: the register allocator (first block), the simulator,
the arithmetic of single instructions, and the toolchain from source to executable.

**Ir** - instructions of `program.h` with opcodes reduced to classes: `LI`,
`OP`/`MOVE` (arithmetic), `J`, `BRANCH`, the system calls before and `ECALL`
after lowering.  It also defines the references other modules are compared with:
`Flow` (where control goes after an instruction) and `LiveTable` (what some path
reads before it is overwritten).

**Target** - the registers of `target_info.c` and `fixSyscalls`, a fold over the
program that replaces each call by `LI`, a move of its argument, `ECALL` with
constrained operands, and a move of its result, with fresh temporaries.  At its end, what a
binding must satisfy for a program (`Sound`): `RegAlloc` is checked to establish it, `SpillCode`
assumes it (`TasksAssumption`).  Together they cover the path from the lowered program to the
emitted code without a product of their states.

**Liveness** - the graph and what is live in it, as `cfg.c` has them.  `programToCFG` and
`cfgComputeTransitions`, one loop iteration per step: a block is the range of positions of its
instructions, its edges a set of successors, 0 the ending block; `cfgSearchLabel` yields the last
block when the label is nowhere, as the code does.  Then `cfgComputeLiveness`, one step per
instruction of a sweep, with `successorsLiveIn` and `modified` as in the code.  Sets are sets;
the order of the code's lists is left open where it matters later (order of intervals).

**LiveIntervals** - the intervals, built one instruction at a time in `live`, which
stands for `RA->liveIntervals`; then their constraints; then the calls.  Positions
count from 1 (from 0 in the code).

**LinearScan** - `executeLinearScan` on any well-formed list: `ExpireOldInterval`
is one iteration of `expireOldIntervals`, `AssignRegister`, `SpillLast` and
`SpillCurrent` are the three outcomes of the rest of the loop body.  An interval is
named by its temporary.

**RegAlloc** - the passes above as one machine; the variables of `LinearScan` are
instantiated, `live` being the very list `LiveIntervals` built.

**SpillCode** - `materializeRegAllocInBB` and the function it calls per instruction,
one argument per step through the two loops, then the third loop and the write
back; the block-local state is reset between blocks.  Stores and loads are inserted
in front of the current instruction, which is an append to `code` because the
instruction is appended after them; the stores of a block that ends in a jump go in
front of its last instruction.  The second half of the module executes the code on
a machine whose caller-saved registers a system call destroys.

**TempMachine** - the abstract specification: a machine with one register per
temporary, which tells values apart by the instruction that wrote them and the
parity of how often it had run, and shows in `seen` what each instruction reads.
`SpillCode` implements it: the refinement maps each live temporary to where the
emitted code keeps it at that point (its register, its slot, or its memory).

**Bytes** - words as sequences of bytes of parametrised width, and memory as a function
from mapped addresses to bytes, with the regions an access must stay within.  The
abstract specifications are written with it.

**Areas** - the operators of `memory.c` on its sorted list of areas: `memFindArea` with the
order of its tests and the wrap-around of an area's end, `memMapArea`, reads and writes.

**Memory** - `memory.c` under any sequence of calls; implements **FlatMemory**.

**Machine** - processor, supervisor, debugger and main loop of the simulator as one machine.  A
turn of the loop (`svVMTick`) passes through the phases debug, prompt, cpu, expand,
retry, handle, because each can leave the next a different state: the break point test, the
user's commands, the first `cpuTick`, the growth of the stack with the fault
cleared, the second `cpuTick`, the handling of the status that is left.  `watch` is a history
variable of what the user asked last and what ran since.

**Hart** - the abstract specification of `Machine`: a RISC-V processor that executes one
instruction per step, with flat memory, a stack that grows under it and the system calls of
the supervisor; it knows no areas, latched status, retry or debugger.  Arithmetic is reduced to an
addition in both; its detail is the next modules'.

**RiscV** - the reference for arithmetic: what the RISC-V specification says each operation
and each branch condition computes, on words of any width, by the integers words stand for.

**Instructions** - the assembler's view (`encode.c`): the expansion of pseudo instructions,
`HI_20` and `LO_12`, the table of encodings, and the ranges of immediates the parser accepts.
The width of immediates and shift amounts is a parameter; `ImmediateAssumption` says what 12,
5 and 32 have in common with the widths of the runs.

**Cpu**, **SingleStep** - the simulator's arithmetic by the fields of an instruction word, and
one `cpuTick` of it.  Here the status before the tick is called `ready`, so that the run ends
after one instruction.

**TargetTransform** - the formats of instructions and `fixPseudoInstructions` and
`fixUnsupportedImmediates` as operators on one instruction, used by the next module and by
`AsmWriter`.

**Lowering** - `fixPseudoInstructions` and `fixUnsupportedImmediates`, one instruction of the
list per step.  What the program means before (`Meaning`, from the comments of
`target_info.h`) is compared with what `RiscV` makes of the code after, expanded by
`Instructions`.

**Encoding** - instruction words as sets of bits: `encPackRFormat` and the others of
`encode.c`, and the macros of `isa.h` that take words apart; the theorems about the two are in
`InstructionProofs`.

**Passes** - what the programs and passes of the toolchain hand on: which of them runs or how the
work ended (`phase`), lines of an assembly file as the tokens that the lexer of the assembler
makes of them, and the sections, items and labels of `asrv32im/object.c`.

**Program** - `program.c` as operators on a record `program`: symbols, labels with their
numbers, names and aliases, the pending label, instructions.  Lists of pointers are
sequences, pointers to labels positions in `labels`.

**Compiler** - `parser.y` and what it uses of `codegen.c`: one action of the specification per
semantic action.  A source is the sequence of the semantic actions bison runs for it
(expressions after their operands); `values` is the stack of expression registers, `open`
the labels that open statements carry in their semantic values.

**AsmWriter** - `doTargetSpecificTransformations` and `writeAssembly`.

**AsmParser** - `parser.c`, a line per step: every format of operands, data, alignment, both kinds of labels, errors and how
they are recovered from.

**ObjectLayout** - the four passes of `objMaterialize`, `outputToELF` and the mapping of the
segments by the loader, an item per step; `sec` and `pos` are the place of the loop, `curAddr`
its running address.  An item keeps what it was before it became data (`word`, `instr`), for
properties only.

**Toolchain** - everything from the source to the exit of the program: the compiler, the writer,
the parser, the layout, the loader, and then the executable on the processor of `Cpu`, one
instruction per step (`LoadWord`, `Branch`, `ReadInt`, ...).  Registers are not allocated here:
each temporary has a register of its own above the 32 of the machine, but for the operands of
system calls; that the allocation may be abstracted from is what `reg_alloc` and `spill_code`
show.  `at` and `said` are history variables: the statement being executed, and what was read or
printed last.

**Lance** - the abstract specification of `Toolchain`: what a LANCE program means, statement by
statement, on variables instead of addresses; it knows no labels, registers or instructions.
In the refinement mapping its variables are the bytes at the addresses of their labels.

The `MC...` modules hold programs and bounds.  Definitions preceded by a
comment "Fault:" are not used by the specifications: each is a plausible mistake in
the definition after it, and each property is required to notice one.

## 3. Runs

| Run | What it shows | Bounds |
|---|---|---|
| `linear_scan` | seven properties of the scan on every well-formed list | 4 intervals, 4 registers, start points up to 2, end points up to 3, two constraint lists per interval: enough for every order of end points, equal ends, touching intervals, take-over and both kinds of spill |
| `liveness` | graph and liveness are exact for every program | 4 instructions of 7 kinds, 2 labels on any two instructions: nested and crossing loops, self loops, unreachable code, use of the constant register |
| `reg_alloc` | allocation is sound for programs of the shapes LANCE generates | 480 programs of up to some 20 instructions after lowering (if, while, do-while, if in while, with up to 5 calls) and 4 registers: callee-saved, temporary, `a0`, `a7` |
| `spill_code` | the emitted code refines the machine over temporaries | 84 programs, every sound binding of 3 temporaries to 2 registers or memory, the 3 slots of the target: the code always evicts the first slot the instruction does not use, so three spilled temporaries already evict each other |
| `memory` | `memory.c` behaves as flat memory for every sequence of calls | 16 addresses of bytes of 2 bits, words of 2 bytes; 7 ranges that overlap, touch, contain one another or are empty, so up to 4 areas with and without gaps; 5 addresses, among them the last one |
| `machine` | the simulator is a RISC-V processor, whatever the debugger does | words of two 4-bit bytes; stack end 64 and pages of 8 (so it grows several times and meets the program); 11 programs, each with and without something mapped where the stack grows, with and without `-d`; 2 addresses for break points, 2 break points added |
| `single_step` | the simulator's arithmetic is RISC-V's | words of 8 bits, immediates of 5, shift amounts of 3; every function code, every pair of 11 operands next to 0, to the signed bounds and to the width of a word; every immediate |
| `lowering` | lowered arithmetic means the same and is printable | the same widths; 2,965 instructions: every opcode, every coincidence of registers, 17 immediates next to every boundary; 64 register contents each |
| `toolchain` | compiled programs do what their source says, files assemble to what they say, both end | words of 16 bits, immediates of 6 (branches reach 64 bytes, jumps 1024), so that every distance and every rounding of a split address occurs in a short file; 772 sources: LANCE programs with each statement nested in each other, labels pending at every place where two of them can meet, arrays, every operator, every kind of error, a branch too long; all assembly files of 4 lines out of 5 with local labels, and files with every addressing mode, alignment, data directive, reach and kind of error; the user types 0 or 1 |
| `machine_link`, `sltiu`, `spill_in_place` | disagreements of section 5 | one small family of programs; the immediates `single_step` leaves out |

Safety properties worth naming:

* `NoSharedRegister`, `RegistersConserved`, `RespectsConstraints`, `ActiveSorted`,
  `SpillsOnlyUnderPressure` (`LinearScan`): registers are handed out once, taken back
  once, and only where allowed; a spill means that every allowed register is held by
  an interval that goes on.
* `GraphMatchesFlow`, `NothingForgotten`, `NeverInvented` (`Liveness`):
  following edges is following the program, and the sets are exactly liveness - at no
  moment of a sweep do they hold too much.
* `IntervalsCover`, `ScanInputWellFormed` (hand-over to the scan),
  `NoInterference`, `SharedOnlyFromSourceToDest`, `CallOperandsPlaced`, `SurvivesCalls`
  (`RegAlloc`): the bindings are right for the program, not just for the intervals.
* `Implements` (`SpillCode`): whatever is evicted, loaded and written back, each
  instruction runs when it should and reads the values it should.

* `Implements` of `Memory`, `ListInOrder`: the early returns of `memFindArea` never
  refuse or misdirect an access, because the list stays in order.
* `Implements` of `Machine`: an instruction that faults and is retried after the stack grew runs
  once; a system call happens once; break points and steps are invisible to the
  program.  `StopsHaveAReason`, `NothingRunsPastABreakpoint`, `StepsOneInstruction` are the
  user's side: no request stays pending past another stop, no break point is jumped over.
  `StackMapped`: the range the supervisor believes to be stack is mapped.
* `MeansTheSame` (`Lowering`): through negated and incremented immediates that overflow,
  exchanged sources, destinations that are sources, and constants split into a high part and a
  sign-extended low one, an instruction keeps its meaning and touches no other register.
* `ComputesAsRiscV` (`SingleStep`): a step is what the specification says of every instruction
  that encodes to the word, and a word that is none is refused without effect.

* `FollowsTheProgram` (`Toolchain`), a refinement of `Lance`: through pending labels, aliases,
  index arithmetic, expansion, layout and encoding, the executable stores, tests, reads, prints
  and exits as the source says.
* `ProgramsGetThrough`: a program is refused exactly if it has errors; what `acse` writes of any
  other assembles, except for a branch that does not reach, and the executable stays in its
  code.  `LabelsSound`: at no moment of the compilation does a label that is used get lost.
* `LocalLabelsNearest` (`AsmParser`'s result against the lines of a file without errors): `nb`
  and `nf` mean the nearest declaration, whatever was declared again in between.
* `ReferencesResolve`: what the processor computes from the fields of the words is the address of
  the label that the source names, for jumps and for both kinds of split addresses.  (`lui` with
  `%lo`, which the parser admits, is not half of an address.)
* `ImageMatchesLayout`: the loader puts each item where its label says.

The widths are enough because the code treats a width as a number only: what differs from
case to case is where an operand lies with respect to 0, to the bounds of its field and to the
width of a word, and the operands are the numbers on both sides of each.

Fairness.  Every pass of the compiler is a sequential function that runs until it returns,
so weak fairness of the next-state relation is all that is assumed: the code takes
its next step.  Under it `AllDecided`, `AnalysisTerminates` and
`AllocationTerminates` say that the passes return, and `Implements` that the
emitted code goes on as long as the program does.  `Machine` assumes that the simulator
takes its next step (`WF_vars(Tick)`) and that a user at the prompt leaves it in the end
(`WF_vars(LeavePrompt)`): the loop of `debugger.c` reads commands until one ends it.
`KeepsRunning` then says that no status that stops the processor outlives its tick.  `Hart`
has no fairness; its progress is `KeepsRunning`.  `Toolchain` assumes that steps are taken while
a pass is not over: the programs of the toolchain wait for nothing.  It is written without
`ENABLED`, which costs TLC too much on this state: a step is always possible there (the run
checks for deadlocks), and the formula only leaves out behaviours that stutter for ever in the
middle of a pass.  A step that changed nothing would be left out with them; no step of a pass is
of that kind, as each moves the phase, the line, the section, the position or the mark.  Under it
`ToolchainTerminates` says that each pass comes to an end, although the list that expansion
goes through grows meanwhile.  The executable itself may run forever.

Assumptions on inputs.  `Liveness` takes programs whose labels are placed
(`LabelsPlaced`).  `reg_alloc` takes the shapes of structured statements: with an
arbitrary jump into a loop the allocation is unsound (section 5).  `spill_code`
takes programs that read nothing they have not written and in which no spilled
temporary is source and destination of one instruction: `spill_in_place` shows
what happens otherwise.  `Memory` and `Machine` map nothing in the last word of the
address space (the code computes the ends of areas and of accesses modulo 2^32);
`Machine` takes executables whose segments are apart from one another and from the first page
of the stack, and programs in which `jalr` does not write the register it jumps through (`LinksThroughOthers`).  `single_step` leaves
out `sltiu` with a negative immediate (`sltiu` shows it).  `Lowering` takes signed overflow of an
immediate to wrap around, as gcc and clang compile it here.

## 4. Proofs

`LinearScanProofs` proves, for any finite or infinite sets of temporaries and
registers and any set of well-formed lists of intervals,

| Theorem | States |
|---|---|
| `TypeCorrect` | `Spec => []TypeOK` |
| `NoSharing` | `Spec => []NoSharedRegister` |
| `Conservation` | `Spec => []RegistersConserved` |
| `ConstraintsRespected` | `Spec => []RespectsConstraints` |
| `Sorted` | `Spec => []ActiveSorted` |
| `SpillPressure` | `Spec => SpillsOnlyUnderPressure` |

None of these is inductive.  The inductive invariant `IInv` (theorem
`InvariantCorrect`) adds what ties the two lists to the history of the scan: an
active interval is one already visited, it is bound to a register and appears
once; a visited interval that holds a register and is no longer active ended no later
than the current start, so its register may be given away; the constraints of an
interval are a reordering of those it came with.  The order of the active list enters
the argument because expiry stops at the first interval that has not ended: only in a
sorted list does this mean that no ended interval remains.  Lemmas about the list
operations (`Insert`, `WithoutLast`, `MoveToFront`) state which elements each keeps,
adds or drops; each action then has one lemma.

The assumptions are those of `LinearScan`: registers are naturals other than 0, the
lists are well formed.  `RegAlloc` checks with TLC (`ScanInputWellFormed`) that the
analyses deliver such lists, and `RegAllocProofs` proves it (`ScanInputAlwaysWellFormed`).

The first part of `RegAllocProofs` is about every program whose labels are placed, of any length:

| Theorem | States |
|---|---|
| `LivenessInvariant` | `LivenessSpec => []LivenessInv` |
| `AnalysisTyped` | `LivenessSpec => []LivenessTypeOK` |
| `GraphCorrect` | `LivenessSpec => []GraphMatchesFlow` |
| `NothingIsForgotten` | `LivenessSpec => []NothingForgotten` |
| `NothingIsInvented` | `LivenessSpec => []NeverInvented` |

The first conjunct of the invariant, `GraphInv`, says that the blocks cut the instructions read so
far into consecutive ranges (`Partition`), that only the last instruction of a block may leave it
and only its first may be jumped to (`Clean`), and that the edges of the blocks already gone through
are those of the flow.  The second, `SweepInv`, has both directions of exactness.  No set
holds more than what is live: this needs that `LiveTable` is a solution of the equations of
liveness.  And what a finished part of an unmodified sweep has left satisfies the
equations: when the loop of `cfgComputeLiveness` stops they hold everywhere, and `LiveTable` is
their least solution.  `LiveTable` counts the paths of at most as many instructions as the program
has; that no longer path reads anything else (`PathsAreShort`) is the pigeonhole principle.

The second part puts the analyses and the scan together, for every such program, every register
file and every order in which the sets are walked:

| Theorem | States |
|---|---|
| `RegAllocInvariant` | `RegAllocSpec => []RegAllocInv` |
| `IntervalsAlwaysCover` | `RegAllocSpec => []IntervalsCover` |
| `SharesOnlyFromSourceToDest` | `RegAllocSpec => [](EnteredFromAbove(prog) => SharedOnlyFromSourceToDest)` |
| `NeededTogetherKeptApart` | `RegAllocSpec => [](EnteredFromAbove(prog) => NoInterference)` |
| `ConstraintsInvariant` | `RegAllocSpec => []ConstraintsInv` |
| `ScanInputAlwaysWellFormed` | `RegAllocSpec => []ScanInputWellFormed` |
| `PlacedInvariant` | `RegAllocSpec => []PlacedInv` |
| `OperandsAlwaysPlaced` | `RegAllocSpec => [](CallsLowered(prog) /\ EnteredFromAbove(prog) => CallOperandsPlaced)` |
| `ValuesSurviveCalls` | `RegAllocSpec => [](CallsLowered(prog) /\ EnteredFromAbove(prog) => SurvivesCalls)` |

`RegAllocInv` is `LivenessInv`, `IntervalsInv` - after `n` instructions
the list has each temporary met so far once, in order of start points, and its interval spans exactly
from the first to the last instruction where it is live or written (`IntervalsUpTo`) - and the
invariant of `LinearScanProofs`, instantiated with the registers of the target and with the list
that the analyses built.  What the scan adds for this purpose is `VisitedDecided`: an interval gone
by holds a register or is spilled.  The scan lets two intervals share a register that only touch;
`StartsWithWrite` and `EndsWithRead` say that then the instruction where they touch reads the
one and writes the other.  The hypothesis `EnteredFromAbove` is needed for the former: it says
that an instruction before which something is live is also reached from an instruction above it.
Section 5 has what happens otherwise.  It holds of what `acse` compiles, as variables live in memory
(`genLoadVariable`) and the temporaries of an expression are written just above the
instruction that reads them: nothing is live around a loop, and code that cannot be reached
begins with nothing live.  The theorem holds for any program of this kind, whatever statement it
came from; the run `reg_alloc` also has programs with temporaries that live around loops.

The last five are about the constraints, and about the claim of the comment above
`initializeRegisterConstraints` that an interval without constraints never "steals" a register
one with constraints needs.  The assumption is `WhitelistsAssumption`: instructions ask for general
purpose registers only (`target_transform.c`).  `ConstraintsInv` follows the lists through the
passes: the list of an operand is what its instructions ask for, less what calls took
(`ProtectedUpTo`); the list of any other interval has no register asked for by an interval that
comes after it and starts before it ends (`MakesRoom`).  The lists are folds over lists; each
fold is a recursive function, which exists (`IterationExists`), and its facts
(`optimizeRegisterSetFacts`, `PermittedRegsFacts`, `WhitelistIs`) are proved by induction over the
positions of the list.  `MakesRoom` says nothing of two overlapping intervals with
constraints - "in ACSE this doesn't happen" - nor of an operand's own call.  Hence the
hypothesis `CallsLowered`, the shape `fixSyscalls` gives calls: an operand is written just before the
call, or read just after it, and between the two only other operands of the call are written, which
ask for other registers.  From it follow that the interval of an operand spans only these few
instructions (`ShortInterval`), that whatever starts inside it is an operand with another register
(`Apart`) and that no call takes the register away from it (`NotTaken`).  So when the scan visits
an operand its register is free or held by an interval that ends there, and the operand is neither
spilled by `SpillCurrent` nor, later, by `SpillLast`: `PlacedInv`, which also has the invariants
of `LinearScanProofs` on constraints and order.  A value that lives across a call has lost all
caller save registers but those of the operands of the call (`ClobberedBy`); in these the
operands themselves are, so that it would interfere with one (`KeptApart`).  `MCRegAlloc`
has TLC evaluate `CallsLowered` on every program of the run, all of which come from `fixSyscalls`.

`SpillCodeProofs` proves `NeverInTwoSlots`: `Spec => []OneSlotEach`.  The slots alone are not
inductive: an argument that shares the slot of the one before it must find it there.
`ArgumentsKnown` adds what the first loop (`reg_alloc.c:697-718`) leaves to the second: an
argument that was given a slot is in it, and one that was not is in none, unless an argument
before it with the same temporary has brought it there since.

The second part of `InstructionProofs` shows of `Encoding`, for every content of the fields, that what the packing functions of
`encode.c` put into an instruction word the macros of `isa.h` take out again: `Immediate12`,
`StoreOffset`, `BranchOffset`, `JumpOffset`, `UpperImmediate`, `RegisterFields`.  A number is its
set of bits, "fits" means that all bits from the sign on are equal, and branch and jump offsets
must be even.  Each proof shows that the bits collected are the low bits of the number, and
`SignExtension` that these, extended, are the number.

The first part of `ToolchainProofs` is about every object a parser could make, with any number of
items of any sizes, and words, immediates and addresses of any width:

| Theorem | States |
|---|---|
| `LayoutInvariant` | `LayoutSpec => []IInv` |
| `ImageCorrect` | `LayoutSpec => []ImageMatchesLayout` |
| `PartsMakeTheWhole` | the rounded high part of a number, shifted, and its sign-extended low part add up to it |
| `ReferencesCorrect` | `LayoutSpec => []ReferencesResolve` |

`LayoutSpec` is the assembler from the end of parsing on.  Its initial objects satisfy
`ItemsWellFormed` and `ReferencesFit`: what an instruction takes from a label its format has room
for.  That the parser makes no others is proved in `FileProofs`.  That each item is in the file where its label says
is the work of four passes, and `IInv` has a conjunct for what each of them has done up to the
place the loop has come to: `Expanding` (what is behind it are no longer pseudo-instructions),
`Addressing` and `Addressed` (each item begins where the one before ends, padding aligns, the size
of a section is the distance between its ends, nop padding has whole instructions), `Encoded`
(words have the size the layout counted with), `Filed` (the offset in the file moves in step with
the address).  The addresses wrap, so the arguments are about remainders; `Division` to
`PaddingAligns` are the lemmas on them.  Assumed are `WidthAssumption`, `AddressAssumption`
(the first address is a word) and `PowersAssumption` (what powers of two have to do with one
another, which the provers do not know).

`ReferencesCorrect` follows an instruction from the file to the words of the executable.  Its
invariant, `References`, adds three parts to `IInv`.  `Finals`: once it is expanded, an instruction
takes from its label what a machine instruction has a field for, the low part that an expansion
made is behind its high part, with the same label, and a word is what `WordOf` makes of the
instruction.  `NoWords`: there are no words before encoding.  `Links`: from its resolution on, the
constant of an instruction is what `encResolveImmediates` computes from the labels and addresses of
the object *as it is now*.  That last part is what a reader of the code has to believe: the
passes go on changing the object, also while it resolves, and each of the lemmas
`PointerStays`, `HighItemStays`, `StaysLinked` says that they change nothing a label leads to (an
instruction that becomes data is not empty before or after, so `%pcrel_lo` still finds it).  What
remains is arithmetic: the fields keep what is in reach (`CutKeeps`), distances lead back whatever
wraps (`DistanceLeads`), parts add up (`PartsMakeTheWhole`).

The last part of `ToolchainProofs` is about the code that `acse` makes, for any set of LANCE
programs:

| Theorem | States |
|---|---|
| `LabelsStaySound` | `Spec => []LabelsSound`, with the `Spec` of `Toolchain` |

A label is made by one semantic action of a statement and assigned by another, with whole statements
in between that make and assign their own.  So `CompilerInvariant` has two parts.  `GoodLabels` is
about the program: an identifier is on one instruction at most and, while it is pending, on none;
the label at the start and those of variables have a name of their own, which no other label takes,
and every other one is named by its identifier.  Aliasing merges two labels into one identifier,
so a variable's label must never be pending, and a label that is merged must be on nothing yet
(`Unassigned`).  `StatementsOpen` is about the parser: the labels that the open statements will
assign (`AwaitedApart`) are still unassigned, and no two statements await the same one.  Which
of its labels a statement awaits depends on the part of it that is being read; `Surroundings` is the
nesting at every place of the source, and `ProgramsAssumption` says that the sources are
`Grammatical`: bison runs the action for an `else`, say, only after the `then` part of an `if`.
`Keeps` and `KeepsBut` say what a step leaves alone; each function of `program.c` and
`codegen.c` has a lemma that says so of it, each semantic action one that says it keeps the invariant.

`FileProofs` is about the whole toolchain, for any set of LANCE programs and of assembly files:

| Theorem | States |
|---|---|
| `LocalLabelsCorrect` | `Spec => []LocalLabelsNearest`, with the `Spec` of `Toolchain` |
| `FilesResolve` | `Spec => []ReferencesResolve` |
| `FilesLaid` | `Spec => []ImageMatchesLayout` |

The parser reads a file line by line, and what a reference forward means is not known when it is
read.  So `FileInvariant` says of the lines so far (`GoodSoFar`) what will be true of all of them, as
long as no line was in error: the latest label of a number is the one that its last declaration made
(`BackGood`); a label that waits for its declaration has a name of its own and is on no item
(`ForwardGood`, `Fresh`); a reference stands for the last declaration before its line, the first one
after it, or, if there is none yet, the label that waits (`RefersSoFar`).  `FilesLabels` draws
`LocalLabelsNearest` from it at the end of a file.  `ItemsGood` ties the tokens that the parser
accepts to what the layout starts from: an instruction of every format takes from its label what
the format has room for, and data, padding and alignments have the sizes that `ItemsWellFormed`
asks for.  Where parsing ends without errors the object is one that `LayoutSpec` starts with, and
the steps from there are those of `LayoutSpec`; so `FilesResolve` and `FilesLaid` rest on the
invariants of `ToolchainProofs`.

A file is either given or written by `acse`.  Of the given ones `FilesAssumption` asks only that
they consist of tokens that the lexer makes (`IsFile`): any line may be in error.  Of the written
ones this is proved (`WrittenIsFile`).  `CompilerReady` is the invariant of the compiler for that:
instructions have opcodes that the passes or the assembler know, numbers where a format has numbers,
and labels that are in the program, through every semantic action and the three passes.  About
sources `ProgramsAssumption` adds that the numbers and operators of the actions are those of the
grammar (`IsAction`).

`InstructionProofs` is, in its first part, about every width of words and of immediates and every constant:

| Theorem | States |
|---|---|
| `PrintsOnlyMachineInstructions` | `Spec => []Printable` |

The two passes go over a list that they change while they go: what one instruction is replaced by is
put behind the cursor, or ahead of it.  `IInv` says which instructions either pass has still to see
(`Ahead`, still `Generated`) and what those behind are; the second pass relies on the first having
left only what `Lowered` admits.  `SourcesAssumption` is that the instructions are arithmetic of
`codegen.h`, with any constant.

`MemoryProofs` is about any sequence of mappings, reads and writes:

| Theorem | States |
|---|---|
| `TypeCorrect` | `Spec => []TypeOK` |
| `InOrder` | `Spec => []ListInOrder` |
| `MemoryIsFlat` | `Spec => Implements`, that is, the list of areas refines `FlatMemory` |

`ListInOrder` together with the form of the list is inductive: `memMapArea` inserts before the
first area that starts behind the new one, and only compares with the one before; `Mapped` shows
that this keeps all areas apart, `Refused` that what is turned away does overlap.  The refinement
then rests on three facts about a list in order: an address is in one area at most (`OneArea`), so
the flat memory is well defined (`FlatBytes`) and a search that gives up at the first area that
holds the address misses nothing (`Lookup`).  The least position of `AreaPlace` exists because
the naturals are well-founded (`LeastElement`).  The proof uses that nothing is mapped in the last
word of the address space (`MemoryAssumption`).

`MachineProofs` is about every executable that loads, words, bytes and pages of any size, any
user at the prompt, and any decoder of instruction words:

| Theorem | States |
|---|---|
| `MachineInvariant` | `Spec => []IInv` |
| `TypesCorrect` | `Spec => []TypeOK` |
| `StackIsThere` | `Spec => []StackMapped` |
| `OneInstructionAtATime` | `Spec => []StepsOneInstruction` |
| `EveryStopHasAReason` | `Spec => StopsHaveAReason` |
| `BreakpointsHold` | `Spec => NothingRunsPastABreakpoint` |
| `SimulatorIsAProcessor` | `LinksThroughOthers => (Spec => Implements)`, that is, the simulator refines `Hart` |

The hard part is the fault that the stack grows under.  A tick executes an instruction, may meet a
fault, maps a page below the stack, clears the latched status, executes the instruction again, and
handles what is left, and to the program this must be one step or none.  `RefusalInv` ties the
latched status to the instruction at `cpuPC`: after a memory fault that instruction would access
exactly the address that was latched (`RefusedAt`), after a trap it is the one that traps.  And a
fault is not mended by half: once one page was tried, the address is not in the next page either, so
`Hart` may not grow its stack.  A page freshly mapped holds zeros, which decode to no
instruction: without that (`ZeroIsIllegal`, `cpu.c:107`) a jump into the stack would differ.  `StackInv`
says that either everything from `svStackBottom` up is mapped, or the page could not be
mapped and the program is about to be stopped.  It is needed because `svExpandStack` moves the
bottom in both cases.  `DebuggerInv` ties what the debugger still has pending to what the user asked last,
by the phase: what was asked before is forgotten at each stop, as `DbgEnter` resets all three
flags.  The lemmas about memory are those of `MemoryProofs`, cited through an instance; each phase has
a lemma for the invariant and one for the refinement, in which `DbgPass`, the commands, the first of
two attempts and the growth of the stack that is of no use are stutters, and the others steps of `Hart`.
`LinksThroughOthers` (no `jalr` writes the register it jumps through) is the exception that the run
`machine_link` shows; nothing else about programs is assumed.

What is assumed of constants, beyond their types: `PowersOfTwo` and `PowersMultiply` (facts on `^`
that the provers do not know), `MachineAssumption` and `ProgramsAssumption` (words lie within
pages; segments are apart, and none is in the last word or the first page of the stack; the decoder
yields fields of their types), `ZeroIsIllegal`, `JumpsAssumption` and `ProgramsAssumption` of
`Liveness` (typed instructions, labels placed, only jumps and branches have targets), `TempsAssumption`
(identifiers are naturals), and `TasksAssumption`.  TLC evaluates all of them in the runs.

Model-checked only:

* Liveness, everywhere: the provers do not handle fairness.
* `Implements` of `SpillCode`: the emitted code as a whole.
* `MeansTheSame` of `Lowering`, and `SingleStep`: what arithmetic computes is defined by sums over the
  bits of numbers, and what it computes for every width is an induction over data.
* `ProgramsGetThrough` of `Toolchain`.

## 5. Disagreements between code and comments

* **`spill_in_place`** (`reg_alloc.c:730`).  A spilled temporary that is destination and
  source of one instruction and is in no slot: the destination takes a slot without a
  load, and the source, found to be the same temporary, shares it.  The instruction
  reads whatever the slot held.  The comment says that there is nothing to do but mark
  the write back.  `genLoadArrayAddress` emits such instructions; it takes two
  temporaries of an array access to be spilled at once to meet it.
* **`machine_link`** (`src/simrv32im/cpu.c:406`).  `jalr` writes the return address before it
  reads the register it jumps through.  When the two are the same register the jump goes to
  the return address, not where the RISC-V instruction set sends it.  `acse` never emits one;
  the `call` of an assembly program that is expanded by hand to `auipc` and `jalr` is one.
* **`sltiu`** (`src/simrv32im/cpu.c:183`).  The simulator compares with the 12 bits of the
  immediate instead of the sign-extended number, so `sltiu rd, rs1, -1` compares with 4095.
  `lowering` shows the compiler's unsigned comparisons with constants (`genSLTIU` and its
  kin) right on a RISC-V processor; no statement of LANCE makes one.

Others were met while modelling and have no run, because nothing in the repository says what
should happen.  The modules keep the behaviour where they reach it.

Compiler:

* When one interval ends where another starts they may share a register (`reg_alloc.c:482-486`).
  In a loop that is entered in its middle, the first may end with a write nobody reads and
  the second begin because its value comes round from the end of the loop: the write destroys
  the value.  No statement of LANCE makes such a loop.
* For a block that ends in an exit call the loop of `cfgComputeTransitions` continues without
  advancing (`cfg.c:328-332`), which only a caller that builds the graph of an unlowered program
  meets.
* An instruction that writes `REG_0` gives it an interval, so the scan binds it anew although
  `newRegAllocator` binds it to itself "immediately" (`reg_alloc.c:418`).  No statement of LANCE
  does that.
* The name drop at `program.c:270-273` is never reached.
* Branches over a body are never turned around, so a body of more than 4 KiB makes a program
  without errors fail to assemble (`parser.y:209`; `ProgramsGetThrough` exempts these programs as
  `TooFar`: no property is about the limit).
* Indexes are not checked: one out of bounds reaches a neighbour or faults (`Strays`).
* `4 * arraySize` is computed as an `int` (`target_asm_print.c:508`), and an identifier of more
  than 252 characters loses the end of its label (`target_asm_print.c:442`).

Assembler:

* A reference back to a local label that was never declared has no label, which is used later
  (`parser.c:171`; the phase `crashed`).
* `0:` declares a local label, but `0f` and `0b` are not read as references to one.
* The escape `'\\'` falls through to the next case (`parser.c:561-566`), a last line without a
  newline is rejected, and the message for `.half` gives 65536 as its largest number.
* A section that ends with the last byte of the address space makes the next one start at 0
  without an error (`object.c:333`; `ImageMatchesLayout` accepts it, as its addresses wrap too); a
  jump to an odd address drops the lowest bit of its distance.
* `_start` would count as declared as soon as it is referred to, but a label that is never declared
  ends the assembly before it matters.
* `output.c:150` would reallocate a table to its old size; no file has that many entries.

## 6. Not modelled

* Characters: scanner and lexer (flex and a hand-written one; the modules start from tokens),
  escapes, the layout and comments of the assembly file, dumps, the disassembler.  bison's parser is
  external: a source is the sequence of semantic actions that it runs.
* Files: header fields of ELF that do not depend on the program, checks of files that no
  assembler wrote.
* Failures of memory allocation and of writing (all are fatal), deallocation.
* Functions of `codegen.c` that no statement of LANCE uses add one instruction each, as the others
  do; `Lowering` has the instructions.
* `Toolchain` and the register allocator are checked apart, as their product is out of reach:
  `Toolchain` gives every temporary a register, and the input of `RegAlloc` are programs of the
  shapes that the compiler makes (`MCRegAlloc`), not the very ones.

## 7. Plan

Done: 1. `LinearScan` and its proofs; 2. `Ir`, `Liveness`; 3. `LiveIntervals`,
`RegAlloc`; 4. `TempMachine`, `SpillCode`; 5. the simulator (`Memory`, `Machine`, `SingleStep`);
6. `Lowering`; the encoding of instructions, with proofs; 7. `ObjectLayout` and its
proofs; 8. `AsmParser` with local labels; 9. `Program`, `Compiler`, `AsmWriter`, `Lance` and
`Toolchain`; 10. `MemoryProofs`; 11. `RegAllocProofs`; 12. `SpillCodeProofs`, `MachineProofs`;
13. `InstructionProofs`, and the labels of the compiler and the references of the assembler in
`ToolchainProofs`; 14. `FileProofs`.

Next: the refinement of `TempMachine` by `SpillCode`, for instructions that no spilled temporary is
both source and destination of and for as many slots as an instruction has arguments.
