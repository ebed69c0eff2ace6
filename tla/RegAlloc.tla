------------------------------- MODULE RegAlloc -------------------------------
(***************************************************************************)
(* Register allocation from the lowered program to the bindings            *)
(* (newRegAllocator and the first step of regallocRun, acse/reg_alloc.c):  *)
(* the graph, liveness, intervals and constraints of LiveIntervals, handed *)
(* to the linear scan of LinearScan.                                       *)
(***************************************************************************)
EXTENDS LiveIntervals

\* genJ and the branches of codegen.c have no destination.
ASSUME JumpsAssumption ==
  \A p \in Programs : \A k \in DOMAIN p : isJumpInstruction(p[k]) => Defs(p[k]) = {}

VARIABLES next, active, freeRegs, constraints, bindings

scanVars == <<next, active, freeRegs, constraints, bindings>>
allVars  == <<cfgVars, liveVars, live, scanVars>>

Scan == INSTANCE LinearScan WITH Regs <- Range(GpRegs), Inputs <- {}

RegAllocInit ==
  /\ IntervalsInit
  /\ next = 1
  /\ active = <<>>
  /\ freeRegs = {}
  /\ constraints = [t \in Temps |-> <<>>]
  /\ bindings = [t \in Temps |-> IF t = REG_0 THEN REG_0 ELSE Scan!RA_REGISTER_INVALID]

\* newRegAllocator has returned, regallocRun starts the scan.  Machine registers that no interval
\* is allowed, such as those of the spill slots, stay free and are left out.
StartScan ==
  /\ IntervalsReady
  /\ stage' = "scan"
  /\ next' = 1
  /\ active' = <<>>
  /\ freeRegs' = Range(GpRegs)
  /\ constraints' = live.mcRegs
  /\ UNCHANGED <<prog, cursor, blocks, open, succ, liveVars, live, bindings>>

ScanStep == stage = "scan" /\ Scan!Next /\ UNCHANGED <<cfgVars, liveVars>>

RegAllocNext ==
  \/ IntervalsNext /\ UNCHANGED scanVars
  \/ StartScan
  \/ ScanStep

RegAllocSpec == RegAllocInit /\ [][RegAllocNext]_allVars /\ WF_allVars(RegAllocNext)

Allocated == stage = "scan" /\ ~Scan!Scanning

-----------------------------------------------------------------------------
(* What makes the allocation correct for the program *)

\* The analyses hand the scan a list it can work on.
ScanInputWellFormed == stage = "scan" => Scan!WellFormed(live)

\* Where temporaries are live, control comes from an instruction above: each is
\* written before it is read.  The parser keeps variables in memory (genLoadVariable),
\* so the temporaries of an expression are all written just above the instruction
\* that reads them.
EnteredFromAbove(p) ==
  LET table == LiveTable(p)
  IN \A k \in DOMAIN p : table[k] # {} => \E j \in 1..(k - 1) : k \in Flow(p, j)

\* t is written at j only and read at k only, and control goes straight from j to k.
ShortLived(p, t, j, k) ==
  /\ t \in Defs(p[j])
  /\ \A i \in DOMAIN p : (t \in Defs(p[i]) => i = j) /\ (t \in Uses(p[i]) => i = k)
  /\ \A h \in DOMAIN p : \A i \in (j + 1)..k : i \in Flow(p, h) => h = i - 1

\* Only the operands of system calls are constrained, each to one register, the sources to
\* different ones.  Sources are written just above the call and by nothing but moves in
\* between, the result is read just below it, and they occur nowhere else: as fixSyscalls
\* leaves them, with fresh temporaries for each call.
CallsLowered(p) ==
  \A k \in DOMAIN p :
    /\ \A a \in 1..3 :
         LET arg == Args(p[k])[a]
         IN /\ arg.mcRegWhitelist # <<>> <=> isCallInstruction(p[k]) /\ arg.ID # REG_INVALID
            /\ \A r, s \in Range(arg.mcRegWhitelist) : r = s
    /\ isCallInstruction(p[k]) =>
         /\ REG_0 \notin Defs(p[k]) \union Uses(p[k])
         /\ \A a, b \in Sources(p[k]) : a # b =>
              LET x == Args(p[k])[a]
                  y == Args(p[k])[b]
              IN x.ID # y.ID /\ Range(x.mcRegWhitelist) \intersect Range(y.mcRegWhitelist) = {}
         /\ \A t \in Uses(p[k]) : \E j \in 1..(k - 1) :
              /\ ShortLived(p, t, j, k)
              /\ \A i \in j..(k - 1) : ~isCallInstruction(p[i])
              /\ \A i \in (j + 1)..(k - 1) : Defs(p[i]) \subseteq Uses(p[k])
         /\ \A t \in Defs(p[k]) :
              /\ ShortLived(p, t, k, k + 1)
              /\ k + 1 \in DOMAIN p => ~isCallInstruction(p[k + 1])

\* Two temporaries whose values are needed at the same moment, or of which one is
\* written while the other is needed, are never in one register.
NoInterference == Allocated => InterferenceFree(prog, LiveTable(prog), bindings)

\* Two intervals with one register are apart, or the instruction where one ends and
\* the other starts reads the one and writes the other.
SharedOnlyFromSourceToDest ==
  Allocated =>
    \A i, j \in DOMAIN live.order :
      LET t == live.order[i]
          u == live.order[j]
          k == live.endPoint[t]
      IN i < j /\ bindings[t] \in Range(GpRegs) /\ bindings[t] = bindings[u] /\ live.startPoint[u] <= k
           => live.startPoint[u] = k /\ t \in Uses(prog[k]) /\ u \in Defs(prog[k])

\* The operands of a system call are in the registers the environment expects them
\* in, whatever the pressure on the others.
CallOperandsPlaced == Allocated => OperandsPlaced(prog, bindings)

\* No value needed after a system call is in a register the call may destroy.
SurvivesCalls == Allocated => CallsSurvived(prog, LiveTable(prog), bindings)

\* Every program is allocated: each temporary gets a register or is spilled.
AllocationTerminates ==
  <>(Allocated /\ \A t \in TempsOf(prog) \ {REG_0} : bindings[t] # Scan!RA_REGISTER_INVALID)
===============================================================================
