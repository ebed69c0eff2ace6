-------------------------------- MODULE Machine --------------------------------
(***************************************************************************)
(* The simulator: processor (simrv32im/cpu.c), supervisor (supervisor.c),  *)
(* debugger (debugger.c) and the loop that drives them (simrv32im.c), on   *)
(* the memory of Areas.  One turn of the loop, svVMTick, is a pass through *)
(* the phases debug - prompt - cpu - expand - retry - handle; the user     *)
(* acts only at the prompt.                                                *)
(***************************************************************************)
EXTENDS Areas

CONSTANTS
  Decode(_), Registers, Programs, Inputs, StackTop, PageSize,  \* as in Hart
  DebugModes,     \* whether the simulator may be started with -d
  BreakAddresses, \* where the user sets break points
  MaxBreakpoints  \* how many break points the user adds

ZERO == 0
RA   == 1
SP   == 2
A0   == 10
A7   == 17

\* Instructions as isa.h takes them apart: immediates are extended to words.
Decoded ==
  [ op : {"LOAD", "STORE", "ADDI", "BEQ", "JAL", "JALR", "ECALL", "EBREAK", "ILLEGAL"},
    rd : Registers, rs1 : Registers, rs2 : Registers, imm : Word, size : AccessSizes, signed : BOOLEAN ]

\* What the loader maps: empty segments are skipped.
Segments == [base : Word, bytes : Seq(Byte) \ {<<>>}]

ASSUME MachineAssumption ==
  /\ WordBytes \in AccessSizes
  /\ {ZERO, RA, SP, A0, A7} \subseteq Registers
  /\ \A w \in Word : Decode(w) \in Decoded
  /\ Inputs \subseteq Word /\ Inputs # {}
  /\ StackTop \in Nat /\ StackTop + WordBytes <= WordSize
  /\ PageSize \in 1..StackTop /\ WordBytes <= PageSize /\ StackTop % PageSize = 0
  /\ DebugModes \subseteq BOOLEAN /\ MaxBreakpoints \in Nat

\* A word of zeros is no instruction (cpu.c:107).
ASSUME ZeroIsIllegal == Decode(0).op = "ILLEGAL"

\* Executables load: their segments are apart, and apart from the first page of the stack.
ASSUME ProgramsAssumption ==
  \A p \in Programs :
    /\ p.segments \in Seq(Segments) /\ p.entry \in Word
    /\ \A i \in DOMAIN p.segments :
         LET s == p.segments[i]
             SpanOf(t) == Span(t.base, Len(t.bytes))
         IN /\ s.base + Len(s.bytes) + WordBytes <= WordSize
            /\ SpanOf(s) \intersect Span(StackTop - PageSize, PageSize) = {}
            /\ \A j \in DOMAIN p.segments \ {i} : SpanOf(s) \intersect SpanOf(p.segments[j]) = {}

VARIABLES
  memAreas, memLastFaultAddress,   \* memory.c
  cpuRegs, cpuPC, lastStatus,      \* cpu.c
  svStackBottom, svExitCode,       \* supervisor.c
  status,                          \* what svVMTick returned last
  phase,                           \* where it is
  dbg,                             \* the globals of debugger.c
  stdout,                          \* the last number printed, and parity of their count
  watch                            \* history: what the user asked for and what has run since

memV == <<memAreas, memLastFaultAddress>>
cpuV == <<cpuRegs, cpuPC, lastStatus>>
svV  == <<svStackBottom, svExitCode, stdout>>
vars == <<memV, cpuV, svV, status, phase, dbg, watch>>

-----------------------------------------------------------------------------
(* Start *)

Contents(bytes) == [k \in 0..(Len(bytes) - 1) |-> bytes[k + 1]]

\* A segment of the executable is mapped and then filled from the file.
WithSegment(areas, s) ==
  LET i == AreaPlace(areas, s.base, Len(s.bytes))
  IN [memMapArea(areas, s.base, Len(s.bytes)) EXCEPT ![i].buffer = Contents(s.bytes)]

Loaded(segments) ==
  LET upTo[k \in 0..Len(segments)] == IF k = 0 THEN <<>> ELSE WithSegment(upTo[k - 1], segments[k])
  IN upTo[Len(segments)]

Init ==
  /\ \E p \in Programs :
       /\ memAreas = memMapArea(Loaded(p.segments), StackTop - PageSize, PageSize)
       /\ cpuPC = p.entry
  /\ memLastFaultAddress = 0
  /\ cpuRegs = [r \in Registers |-> IF r = SP THEN StackTop - WordBytes ELSE 0]
  /\ lastStatus = "OK"
  /\ svStackBottom = StackTop - PageSize
  /\ svExitCode = 0
  /\ status = "RUNNING"
  /\ phase = "debug"
  /\ \E debug \in DebugModes :
       dbg = [enabled |-> debug, userRequestsEnter |-> debug, stepIn |-> FALSE,
              stepOver |-> FALSE, stepOverAddr |-> 0, breakpoints |-> <<>>, lastID |-> 0]
  /\ stdout = <<0, 0, 0>>
  /\ watch = [asked |-> "start", returnTo |-> -1, ran |-> 0, broke |-> FALSE, prompted |-> FALSE]

-----------------------------------------------------------------------------
(* Debugger *)

AtBreakpoint == \E i \in DOMAIN dbg.breakpoints : dbg.breakpoints[i].address = cpuPC

\* Fault: a step over hides the break points it meets.
TriggerBlindWhileSteppingOver ==
  /\ dbg.enabled
  /\ \/ dbg.userRequestsEnter
     \/ dbg.stepIn
     \/ IF dbg.stepOver THEN dbg.stepOverAddr = cpuPC ELSE AtBreakpoint

dbgCheckTrigger ==
  /\ dbg.enabled
  /\ \/ dbg.userRequestsEnter
     \/ dbg.stepIn
     \/ dbg.stepOver /\ dbg.stepOverAddr = cpuPC
     \/ AtBreakpoint

Ticking == phase = "debug" /\ status = "RUNNING"

DbgPass ==
  /\ Ticking /\ ~dbgCheckTrigger
  /\ phase' = "cpu"
  /\ watch' = [watch EXCEPT !.prompted = FALSE]
  /\ UNCHANGED <<memV, cpuV, svV, status, dbg>>

\* Fault: a step over that was interrupted stays pending.
DbgEnterKeepingStepOver ==
  /\ Ticking /\ dbgCheckTrigger
  /\ phase' = "prompt"
  /\ dbg' = [dbg EXCEPT !.userRequestsEnter = FALSE, !.stepIn = FALSE]
  /\ watch' = [watch EXCEPT !.prompted = TRUE]
  /\ UNCHANGED <<memV, cpuV, svV, status>>

DbgEnter ==
  /\ Ticking /\ dbgCheckTrigger
  /\ phase' = "prompt"
  /\ dbg' = [dbg EXCEPT !.userRequestsEnter = FALSE, !.stepIn = FALSE, !.stepOver = FALSE]
  /\ watch' = [watch EXCEPT !.prompted = TRUE]
  /\ UNCHANGED <<memV, cpuV, svV, status>>

\* dbgInterface returns DBG_IF_STOP_DEBUG: the instruction runs in the same tick.
Resume(asked, returnTo) ==
  /\ phase = "prompt"
  /\ phase' = "cpu"
  /\ watch' = [watch EXCEPT !.asked = asked, !.returnTo = returnTo, !.ran = 0, !.broke = FALSE]
  /\ UNCHANGED <<memV, cpuV, svV, status>>

CmdContinue == Resume("c", -1) /\ UNCHANGED dbg

\* Fault: the flag is reset when the prompt is left.
StepInForgotten == Resume("s", -1) /\ UNCHANGED dbg
CmdStepIn == Resume("s", -1) /\ dbg' = [dbg EXCEPT !.stepIn = TRUE]

\* memDebugRead32 yields all ones where nothing is mapped.
DebugWord(addr) ==
  LET i == memFindArea(memAreas, addr, WordBytes)
  IN IF i = 0 THEN WordSize - 1 ELSE BytesRead(memAreas[i], addr, WordBytes)

AtCall == LET i == Decode(DebugWord(cpuPC)) IN i.op \in {"JAL", "JALR"} /\ i.rd = RA

dbgCmdStepOver ==
  IF AtCall
    THEN LET next == Wrap(cpuPC + WordBytes)
         IN Resume("n", next) /\ dbg' = [dbg EXCEPT !.stepOver = TRUE, !.stepOverAddr = next]
    ELSE Resume("s", -1) /\ dbg' = [dbg EXCEPT !.stepIn = TRUE]

dbgAddBreakpoint(addr) ==
  /\ phase = "prompt" /\ dbg.lastID < MaxBreakpoints
  /\ dbg' = [dbg EXCEPT !.breakpoints = <<[id |-> dbg.lastID, address |-> addr]>> \o @,
                        !.lastID = @ + 1]
  /\ UNCHANGED <<memV, cpuV, svV, status, phase, watch>>

dbgRemoveBreakpoint(id) ==
  /\ phase = "prompt"
  /\ \E i \in DOMAIN dbg.breakpoints :
       /\ dbg.breakpoints[i].id = id
       /\ dbg' = [dbg EXCEPT !.breakpoints = RemoveAt(@, i)]
  /\ UNCHANGED <<memV, cpuV, svV, status, phase, watch>>

CmdQuit ==
  /\ phase = "prompt"
  /\ phase' = "debug" /\ status' = "KILLED"
  /\ UNCHANGED <<memV, cpuV, svV, dbg, watch>>

LeavePrompt == CmdContinue \/ CmdStepIn \/ dbgCmdStepOver \/ CmdQuit

-----------------------------------------------------------------------------
(* Processor.  The value of x0 is reset after every instruction. *)

\* Fault: nobody resets x0.
CompletesKeepingZero(regs, next) ==
  /\ cpuRegs' = regs
  /\ cpuPC' = Wrap(next)
  /\ lastStatus' = "OK"

Completes(regs, next) ==
  /\ cpuRegs' = [regs EXCEPT ![ZERO] = 0]
  /\ cpuPC' = Wrap(next)
  /\ lastStatus' = "OK"

Stops(s) == lastStatus' = s /\ UNCHANGED <<cpuRegs, cpuPC>>

Faults(addr) ==
  /\ memLastFaultAddress' = addr
  /\ Stops("MEMORY_FAULT")
  /\ UNCHANGED memAreas

SignExtended(v, n) == IF v \div (ByteSize ^ n \div 2) = 1 THEN Wrap(v - ByteSize ^ n) ELSE v

\* The address a load or a store computes, and the area memFindArea yields for it.
DataAddr(i) == Wrap(cpuRegs[i.rs1] + i.imm)
AreaAt(addr, n) == {memFindArea(memAreas, addr, n)}

cpuExecuteLOAD(i) ==
  \E addr \in {DataAddr(i)} : \E area \in AreaAt(addr, i.size) :
    IF area = 0 THEN Faults(addr)
    ELSE \E in \in {BytesRead(memAreas[area], addr, i.size)} :
           /\ Completes([cpuRegs EXCEPT ![i.rd] = IF i.signed THEN SignExtended(in, i.size) ELSE in],
                        cpuPC + WordBytes)
           /\ UNCHANGED memV

cpuExecuteSTORE(i) ==
  \E addr \in {DataAddr(i)} : \E area \in AreaAt(addr, i.size) :
    IF area = 0 THEN Faults(addr)
    ELSE /\ memAreas' = [memAreas EXCEPT ![area] = BytesWritten(@, addr, i.size, cpuRegs[i.rs2])]
         /\ Completes(cpuRegs, cpuPC + WordBytes)
         /\ UNCHANGED memLastFaultAddress

cpuExecuteOPIMM(i) ==
  Completes([cpuRegs EXCEPT ![i.rd] = Wrap(cpuRegs[i.rs1] + i.imm)], cpuPC + WordBytes)

cpuExecuteBRANCH(i) ==
  Completes(cpuRegs, cpuPC + (IF cpuRegs[i.rs1] = cpuRegs[i.rs2] THEN i.imm ELSE WordBytes))

cpuExecuteJAL(i) ==
  Completes([cpuRegs EXCEPT ![i.rd] = Wrap(cpuPC + WordBytes)], cpuPC + i.imm)

\* The return address is written before the target is computed.
cpuExecuteJALR(i) ==
  LET linked == [cpuRegs EXCEPT ![i.rd] = Wrap(cpuPC + WordBytes)]
      target == Wrap(linked[i.rs1] + i.imm)
  IN Completes(linked, target - (target % 2))

cpuExecute(i) ==
  \/ i.op = "LOAD" /\ cpuExecuteLOAD(i)
  \/ i.op = "STORE" /\ cpuExecuteSTORE(i)
  \/ /\ \/ i.op = "ADDI" /\ cpuExecuteOPIMM(i)
        \/ i.op = "BEQ" /\ cpuExecuteBRANCH(i)
        \/ i.op = "JAL" /\ cpuExecuteJAL(i)
        \/ i.op = "JALR" /\ cpuExecuteJALR(i)
        \/ i.op = "ECALL" /\ Stops("ECALL_TRAP")
        \/ i.op = "EBREAK" /\ Stops("EBREAK_TRAP")
        \/ i.op = "ILLEGAL" /\ Stops("ILL_INST_FAULT")
     /\ UNCHANGED memV

\* A status that was not cleared keeps the processor from doing anything.
cpuTick ==
  IF lastStatus # "OK" THEN UNCHANGED <<memV, cpuV>>
  ELSE \E area \in AreaAt(cpuPC, WordBytes) :
         IF area = 0 THEN Faults(cpuPC)
         ELSE \E i \in {Decode(BytesRead(memAreas[area], cpuPC, WordBytes))} : cpuExecute(i)

\* Fault: clearing a memory fault skips the instruction too.
ClearedPCAlways == IF lastStatus # "OK" THEN Wrap(cpuPC + WordBytes) ELSE cpuPC

\* Where cpuClearLastFault leaves the program counter.
ClearedPC ==
  IF lastStatus \in {"ILL_INST_FAULT", "EBREAK_TRAP", "ECALL_TRAP"} THEN Wrap(cpuPC + WordBytes) ELSE cpuPC

-----------------------------------------------------------------------------
(* Supervisor *)

\* The first cpuTick of svVMTick and the one that retries after a fault.
Executes == lastStatus = "OK" /\ lastStatus' # "MEMORY_FAULT"

Cpu ==
  /\ phase \in {"cpu", "retry"}
  /\ cpuTick
  /\ phase' = IF lastStatus' = "MEMORY_FAULT" /\ phase = "cpu" THEN "expand" ELSE "handle"
  /\ watch' = IF Executes
                THEN [watch EXCEPT !.ran = IF @ = 2 THEN 2 ELSE @ + 1,
                                   !.broke = @ \/ lastStatus' = "EBREAK_TRAP"]
                ELSE watch
  /\ UNCHANGED <<svV, status, dbg>>

\* Fault: only what lies above the faulting address is mapped.
ExpandFromFault ==
  /\ phase = "expand"
  /\ phase' = "retry"
  /\ LET page == Wrap(svStackBottom - PageSize)
     IN IF memLastFaultAddress < svStackBottom /\ memLastFaultAddress >= page
          THEN /\ svStackBottom' = page
               /\ memAreas' = memMapArea(memAreas, memLastFaultAddress, svStackBottom - memLastFaultAddress)
          ELSE UNCHANGED <<svStackBottom, memAreas>>
  /\ cpuPC' = ClearedPC /\ lastStatus' = "OK"
  /\ UNCHANGED <<memLastFaultAddress, cpuRegs, svExitCode, stdout, status, dbg, watch>>

svExpandStack ==
  /\ phase = "expand"
  /\ phase' = "retry"
  /\ LET page == Wrap(svStackBottom - PageSize)
     IN IF memLastFaultAddress < svStackBottom /\ memLastFaultAddress >= page
          THEN /\ svStackBottom' = page
               /\ memAreas' = memMapArea(memAreas, page, PageSize)
          ELSE UNCHANGED <<svStackBottom, memAreas>>
  /\ cpuPC' = ClearedPC /\ lastStatus' = "OK"
  /\ UNCHANGED <<memLastFaultAddress, cpuRegs, svExitCode, stdout, status, dbg, watch>>

\* svHandleEnvCall of a call that returns, and cpuClearLastFault after it
Return ==
  /\ cpuPC' = ClearedPC /\ lastStatus' = "OK"
  /\ UNCHANGED <<svExitCode, status>>

Terminate(code) == svExitCode' = code /\ status' = "TERMINATED" /\ UNCHANGED <<cpuPC, lastStatus>>

svHandleEnvCall ==
  LET id  == cpuRegs[A7]
      arg == cpuRegs[A0]
  IN /\ \/ id \in {1, 11} /\ stdout' = <<1 - stdout[1], id, arg>> /\ Return /\ UNCHANGED cpuRegs
        \/ /\ id \in {5, 12}
           /\ \E ret \in Inputs : cpuRegs' = [cpuRegs EXCEPT ![A0] = ret]
           /\ Return /\ UNCHANGED stdout
        \/ id = 10 /\ Terminate(0) /\ UNCHANGED <<cpuRegs, stdout>>
        \/ id = 93 /\ Terminate(arg) /\ UNCHANGED <<cpuRegs, stdout>>
        \/ /\ id \notin {1, 5, 10, 11, 12, 93}
           /\ status' = "INVALID_SYSCALL"
           /\ UNCHANGED <<cpuPC, lastStatus, cpuRegs, svExitCode, stdout>>
     /\ UNCHANGED dbg

\* Fault: without a debugger the trap is not cleared.
BreakLeftLatched ==
  /\ dbg' = [dbg EXCEPT !.userRequestsEnter = @ \/ dbg.enabled]
  /\ cpuPC' = IF dbg.enabled THEN ClearedPC ELSE cpuPC
  /\ lastStatus' = IF dbg.enabled THEN "OK" ELSE lastStatus
  /\ UNCHANGED <<cpuRegs, svExitCode, stdout, status>>

svHandleBreak ==
  /\ dbg' = [dbg EXCEPT !.userRequestsEnter = @ \/ dbg.enabled]
  /\ cpuPC' = ClearedPC /\ lastStatus' = "OK"
  /\ UNCHANGED <<cpuRegs, svExitCode, stdout, status>>

Handle ==
  /\ phase = "handle"
  /\ phase' = "debug"
  /\ \/ lastStatus = "ECALL_TRAP" /\ svHandleEnvCall
     \/ lastStatus = "EBREAK_TRAP" /\ svHandleBreak
     \/ /\ lastStatus \in {"MEMORY_FAULT", "ILL_INST_FAULT"}
        /\ status' = lastStatus
        /\ UNCHANGED <<cpuV, svExitCode, stdout, dbg>>
     \/ lastStatus = "OK" /\ UNCHANGED <<cpuV, svExitCode, stdout, status, dbg>>
  /\ UNCHANGED <<memV, svStackBottom, watch>>

\* main returns.
Stopped == status # "RUNNING" /\ UNCHANGED vars

Tick == DbgPass \/ DbgEnter \/ Cpu \/ svExpandStack \/ Handle

Next ==
  \/ Tick \/ LeavePrompt \/ Stopped
  \/ \E addr \in BreakAddresses : dbgAddBreakpoint(addr)
  \/ \E id \in 0..MaxBreakpoints - 1 : dbgRemoveBreakpoint(id)

\* The simulator takes its next step, and a user at the prompt leaves it some time.
Spec == Init /\ [][Next]_vars /\ WF_vars(Tick) /\ WF_vars(LeavePrompt)

-----------------------------------------------------------------------------
(* What is checked *)

TypeOK ==
  /\ \A i \in DOMAIN memAreas : memAreas[i].buffer \in [0..(memAreas[i].extent - 1) -> Byte]
  /\ cpuRegs \in [Registers -> Word] /\ cpuRegs[ZERO] = 0 /\ cpuPC \in Word
  /\ lastStatus \in {"OK", "MEMORY_FAULT", "ILL_INST_FAULT", "ECALL_TRAP", "EBREAK_TRAP"}
  /\ svStackBottom \in Word /\ svExitCode \in Word
  /\ status \in {"RUNNING", "TERMINATED", "KILLED", "MEMORY_FAULT", "ILL_INST_FAULT", "INVALID_SYSCALL"}
  /\ phase \in {"debug", "prompt", "cpu", "expand", "retry", "handle"}

\* While a program runs everything between svStackBottom and the top of the stack is
\* mapped, although svExpandStack ignores what memMapArea returns (supervisor.c:29).
StackMapped ==
  status = "RUNNING" /\ phase \notin {"retry", "handle"} =>
    svStackBottom..(StackTop - 1) \subseteq UNION RegionsOf(memAreas)

\* After "s" the debugger is entered before a second instruction runs (debugger.c:223).
StepsOneInstruction == watch.asked = "s" => watch.ran <= 1

\* The debugger is entered only for what the user asked last, at a break point, or after
\* a break instruction: nothing asked before comes back later (debugger.c:418-420).
StopsHaveAReason ==
  [][DbgEnter =>
       \/ watch.asked = "start" /\ watch.ran = 0
       \/ watch.asked = "s" /\ watch.ran = 1
       \/ watch.asked = "n" /\ cpuPC = watch.returnTo
       \/ watch.broke
       \/ AtBreakpoint]_vars

\* No instruction at a break point runs before the debugger was entered in the same tick
\* (debugger.c:153-166), not even one that is retried after a fault.
NothingRunsPastABreakpoint ==
  [][Cpu /\ Executes /\ AtBreakpoint => watch.prompted]_vars

\* A program that runs goes on running: no status that stops the processor outlives the
\* tick that reported it (cpu.c:66), and no tick waits for anything but the user.
KeepsRunning == <>(status # "RUNNING") \/ []<><<Cpu /\ Executes>>_vars

\* To the program the simulator is a RISC-V processor: each instruction runs once with
\* the effects the specification gives it, the stack grows under it, system calls happen
\* once, and neither the debugger nor the retry after a fault is visible.
Outcome ==
  [RUNNING |-> "running", TERMINATED |-> "terminated", KILLED |-> "killed",
   MEMORY_FAULT |-> "memory fault", ILL_INST_FAULT |-> "illegal instruction",
   INVALID_SYSCALL |-> "invalid syscall"][status]

Abstract == INSTANCE Hart
  WITH mem <- MemOf(memAreas), regions <- RegionsOf(memAreas), bottom <- svStackBottom,
       pc <- cpuPC, x <- cpuRegs, outcome <- Outcome, exitCode <- svExitCode
Implements == Abstract!HartSpec

\* Jumps through the register they write are the one exception: the return address is
\* there before the register is read (cpuExecuteJALR).
LinksThroughOthers == \A w \in Word : Decode(w).op = "JALR" => Decode(w).rd # Decode(w).rs1
===============================================================================
