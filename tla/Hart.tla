--------------------------------- MODULE Hart ---------------------------------
(***************************************************************************)
(* What a program may take the simulated machine for: a processor that     *)
(* runs one instruction after the other as the RISC-V specification says,  *)
(* with a stack that grows page by page as it is used and the system calls *)
(* of RARS.  Nothing of it shows whether a debugger is attached.  It is    *)
(* the specification that the simulator (Machine) implements.              *)
(*                                                                         *)
(* An instruction is a record of op, rd, rs1, rs2, imm, size and signed;   *)
(* arithmetic is reduced to an addition.                                   *)
(***************************************************************************)
EXTENDS Bytes, Sequences

CONSTANTS
  Decode(_),  \* the instruction a word encodes
  Registers,  \* the registers programs use
  Programs,   \* programs: the segments of an executable and its entry point
  Inputs,     \* what the user may type for a program
  StackTop,   \* 0x80000000
  PageSize    \* SV_STACK_PAGE_SIZE

ZERO == 0
RA   == 1
SP   == 2
A0   == 10
A7   == 17

SegmentSpan(s) == Span(s.base, Len(s.bytes))
StackPage(bottom) == Span(bottom - PageSize, PageSize)

VARIABLES
  mem, regions,  \* memory, as in Bytes
  bottom,        \* lowest address of the stack
  pc, x,         \* program counter and registers
  outcome,       \* how the program ended, or that it runs
  exitCode,
  stdout         \* what it printed last, and the parity of how often it printed

hartVars == <<mem, regions, bottom, pc, x, outcome, exitCode, stdout>>

InitialRegisters == [r \in Registers |-> IF r = SP THEN StackTop - WordBytes ELSE 0]

HartInit ==
  /\ \E p \in Programs :
       LET spans  == {SegmentSpan(p.segments[i]) : i \in DOMAIN p.segments}
           byteAt == UNION {{<<s.base + k - 1, s.bytes[k]>> : k \in DOMAIN s.bytes} :
                              s \in {p.segments[i] : i \in DOMAIN p.segments}}
       IN /\ regions = spans \union {StackPage(StackTop)}
          /\ mem = [a \in (UNION spans) \union StackPage(StackTop) |->
                      IF a \in UNION spans THEN (CHOOSE b \in byteAt : b[1] = a)[2] ELSE 0]
          /\ pc = p.entry
  /\ bottom = StackTop - PageSize
  /\ x = InitialRegisters
  /\ outcome = "running"
  /\ exitCode = 0
  /\ stdout = <<0, 0, 0>>

-----------------------------------------------------------------------------
(* Memory accesses of the next instruction *)

Fetched == Accessible(regions, pc, WordBytes)
instr   == Decode(Value(mem, pc, WordBytes))
DataAddr(i) == Wrap(x[i.rs1] + i.imm)

\* The address of the first access that memory refuses, if any.
Refused ==
  IF Fetched
    THEN {DataAddr(i) : i \in {j \in {instr} : /\ j.op \in {"LOAD", "STORE"}
                                            /\ ~Accessible(regions, DataAddr(j), j.size)}}
    ELSE {pc}

\* An access in the page below the stack makes it grow, unless something else is there.
GrowStack ==
  /\ Refused \intersect StackPage(bottom) # {}
  /\ bottom' = bottom - PageSize
  /\ IF StackPage(bottom) \intersect DOMAIN mem = {}
       THEN regions' = regions \union {StackPage(bottom)} /\ mem' = Cleared(mem, StackPage(bottom))
       ELSE UNCHANGED <<mem, regions>>
  /\ UNCHANGED <<pc, x, outcome, exitCode, stdout>>

MemoryFault ==
  /\ Refused # {}
  /\ Refused \intersect StackPage(bottom) = {}
  /\ outcome' = "memory fault"
  /\ UNCHANGED <<mem, regions, bottom, pc, x, exitCode, stdout>>

-----------------------------------------------------------------------------
(* Instructions *)

SetReg(r, v) == x' = [x EXCEPT ![r] = IF r = ZERO THEN 0 ELSE v]
FallThrough  == pc' = Wrap(pc + WordBytes)
Extended(v, n, signed) ==
  IF signed /\ v >= ByteSize ^ n \div 2 THEN Wrap(v - ByteSize ^ n) ELSE v

Computes(i) ==
  /\ \/ /\ i.op = "ADDI"
        /\ SetReg(i.rd, Wrap(x[i.rs1] + i.imm))
        /\ UNCHANGED mem
     \/ /\ i.op = "LOAD"
        /\ SetReg(i.rd, Extended(Value(mem, DataAddr(i), i.size), i.size, i.signed))
        /\ UNCHANGED mem
     \/ /\ i.op = "STORE"
        /\ mem' = Stored(mem, DataAddr(i), i.size, x[i.rs2])
        /\ UNCHANGED x
  /\ FallThrough
  /\ UNCHANGED <<outcome, exitCode, stdout>>

Jumps(i) ==
  /\ \/ /\ i.op = "BEQ"
        /\ pc' = Wrap(pc + (IF x[i.rs1] = x[i.rs2] THEN i.imm ELSE WordBytes))
        /\ UNCHANGED x
     \/ /\ i.op = "JAL"
        /\ pc' = Wrap(pc + i.imm)
        /\ SetReg(i.rd, Wrap(pc + WordBytes))
     \/ /\ i.op = "JALR"
        /\ pc' = LET target == Wrap(x[i.rs1] + i.imm) IN target - (target % 2)
        /\ SetReg(i.rd, Wrap(pc + WordBytes))
  /\ UNCHANGED <<mem, outcome, exitCode, stdout>>

\* The system calls, by their number in a7.
EnvCall(i) ==
  /\ i.op = "ECALL"
  /\ \/ /\ x[A7] \in {1, 11}
        /\ stdout' = <<1 - stdout[1], x[A7], x[A0]>>
        /\ FallThrough /\ UNCHANGED <<x, outcome, exitCode>>
     \/ /\ x[A7] \in {5, 12}
        /\ \E v \in Inputs : SetReg(A0, v)
        /\ FallThrough /\ UNCHANGED <<outcome, exitCode, stdout>>
     \/ /\ x[A7] \in {10, 93}
        /\ outcome' = "terminated"
        /\ exitCode' = IF x[A7] = 10 THEN 0 ELSE x[A0]
        /\ UNCHANGED <<pc, x, stdout>>
     \/ /\ x[A7] \notin {1, 5, 10, 11, 12, 93}
        /\ outcome' = "invalid syscall"
        /\ UNCHANGED <<pc, x, exitCode, stdout>>
  /\ UNCHANGED mem

\* A break instruction means nothing to the program.
Break(i) ==
  /\ i.op = "EBREAK"
  /\ FallThrough
  /\ UNCHANGED <<mem, x, outcome, exitCode, stdout>>

Illegal(i) ==
  /\ i.op = "ILLEGAL"
  /\ outcome' = "illegal instruction"
  /\ UNCHANGED <<mem, pc, x, exitCode, stdout>>

Execute ==
  /\ Refused = {}
  /\ \E i \in {instr} : Computes(i) \/ Jumps(i) \/ EnvCall(i) \/ Break(i) \/ Illegal(i)
  /\ UNCHANGED <<regions, bottom>>

\* The user ends the simulation.
Kill ==
  /\ outcome' = "killed"
  /\ UNCHANGED <<mem, regions, bottom, pc, x, exitCode, stdout>>

HartNext == outcome = "running" /\ (GrowStack \/ MemoryFault \/ Execute \/ Kill)

HartSpec == HartInit /\ [][HartNext]_hartVars
===============================================================================
