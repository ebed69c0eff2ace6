---------------------------- MODULE LiveIntervals ----------------------------
(***************************************************************************)
(* From the live sets to the input of the linear scan: one interval per    *)
(* temporary (getLiveIntervals of acse/reg_alloc.c) and the registers each *)
(* may be given (createCFGRegister, initializeRegisterConstraints,         *)
(* handleCallerSaveRegisters).                                             *)
(*                                                                         *)
(* Instructions are counted from 1, from 0 in the code.                    *)
(***************************************************************************)
EXTENDS Liveness, Target

CONSTANTS
  Temps,    \* the temporary register identifiers in use
  GpRegs    \* getListOfGenPurposeMachineRegisters

ASSUME TempsAssumption  == Temps \subseteq Nat /\ \A p \in Programs : TempsOf(p) \subseteq Temps
ASSUME GpRegsAssumption == GpRegs \in Seq(Nat \ {REG_0})

\* Instructions ask for none but general purpose registers (target_transform.c).
ASSUME WhitelistsAssumption ==
  \A p \in Programs : \A k \in DOMAIN p : \A a \in 1..3 :
    Args(p[k])[a].mcRegWhitelist \in Seq(Range(GpRegs))

VARIABLE live    \* RA->liveIntervals

NoIntervals ==
  [ order      |-> <<>>,
    startPoint |-> [t \in Temps |-> 0],
    endPoint   |-> [t \in Temps |-> 0],
    mcRegs     |-> [t \in Temps |-> <<>>] ]

\* subtractRegisterSets.  A function, for TLC to evaluate regs once.
Without(regs, S) ==
  LET filter == [s \in Seq(Nat) |->
        LET kept[n \in 0..Len(s)] ==
              IF n = 0 THEN <<>>
              ELSE IF s[n] \in S THEN kept[n - 1] ELSE Append(kept[n - 1], s[n])
        IN kept[Len(s)]]
  IN filter[regs]

\* optimizeRegisterSet: each register of pref that regs holds moves to the front.
ToFront(regs, r) == IF r \in Range(regs) THEN <<r>> \o Without(regs, {r}) ELSE regs
optimizeRegisterSet(regs, pref) ==
  LET after[n \in 0..Len(pref)] == IF n = 0 THEN regs ELSE ToFront(after[n - 1], pref[n])
  IN after[Len(pref)]

\* createCFGRegister: one more occurrence of t narrows the registers it may have.  Constraints that
\* exclude one another are a fatal error there; each operand of a call has a temporary of its own
\* (fixSyscall), so that there are none.
NarrowedBy(regs, arg, t) ==
  IF arg.ID # t \/ arg.mcRegWhitelist = <<>> THEN regs
  ELSE IF regs = <<>> THEN arg.mcRegWhitelist
  ELSE Without(regs, Range(regs) \ Range(arg.mcRegWhitelist))

\* The constraint on t left by all its occurrences in program p.
mcRegWhitelist(p, t) ==
  LET after[k \in 0..Len(p)] ==
        IF k = 0 THEN <<>>
        ELSE NarrowedBy(NarrowedBy(NarrowedBy(after[k - 1], p[k].rDest, t), p[k].rSrc1, t), p[k].rSrc2, t)
  IN after[Len(p)]

-----------------------------------------------------------------------------

IntervalsInit == LivenessInit /\ live = NoIntervals

StartIntervals ==
  /\ LivenessReady
  /\ stage' = "intervals"
  /\ cursor' = 1
  /\ UNCHANGED <<prog, blocks, open, succ, liveVars, live>>

\* Fault: the live in set of an instruction is not walked.
LiveAtWithoutIn(k) == out[k] \union Defs(prog[k])

\* The temporaries whose interval includes instruction k.
LiveAt(k) == in[k] \union out[k] \union Defs(prog[k])

\* Fault: new intervals are put at the head of the list.
Prepended(new) == new \o live.order

\* listInsert at the end
Appended(new) == live.order \o new

\* getLiveIntervalsNodeCallback: the live in set, then the live out set, then what
\* the instruction overwrites; within a set the order is that of the sweeps, which
\* is left open here.
CollectIntervals ==
  /\ stage = "intervals"
  /\ cursor <= Len(prog)
  /\ LET fresh == LiveAt(cursor) \ Range(live.order)
     IN \E first  \in SetToSeqs(fresh \intersect in[cursor]),
           second \in SetToSeqs((fresh \intersect out[cursor]) \ in[cursor]),
           third  \in SetToSeqs(fresh \ (in[cursor] \union out[cursor])) :
          live' = [ order      |-> Appended(first \o second \o third),
                    startPoint |-> [t \in Temps |-> IF t \in fresh THEN cursor ELSE live.startPoint[t]],
                    endPoint   |-> [t \in Temps |-> IF t \in LiveAt(cursor) THEN cursor ELSE live.endPoint[t]],
                    mcRegs     |-> [t \in Temps |-> IF t \in fresh THEN mcRegWhitelist(prog, t) ELSE live.mcRegs[t]] ]
  /\ cursor' = cursor + 1
  /\ UNCHANGED <<prog, stage, blocks, open, succ, liveVars>>

StartConstraints ==
  /\ stage = "intervals"
  /\ cursor > Len(prog)
  /\ stage' = "constraints"
  /\ cursor' = 1
  /\ UNCHANGED <<prog, blocks, open, succ, liveVars, live>>

\* Fault: later constrained intervals only lose their place, they keep no register.
PermittedWithoutHoles(i) ==
  LET t == live.order[i]
      after[n \in i..Len(live.order)] ==
        IF n = i THEN GpRegs
        ELSE IF live.startPoint[live.order[n]] > live.endPoint[t] THEN after[n - 1]
        ELSE optimizeRegisterSet(after[n - 1], live.mcRegs[live.order[n]])
  IN after[Len(live.order)]

\* What a later interval u leaves of the registers of t: t may share the register of
\* an interval that starts where it ends, and not that of one that starts before.
LeftBeside(regs, t, u) ==
  IF live.startPoint[u] > live.endPoint[t] THEN regs
  ELSE IF live.startPoint[u] = live.endPoint[t]
    THEN optimizeRegisterSet(regs, live.mcRegs[u])
    ELSE Without(regs, Range(live.mcRegs[u]))

\* The registers left to an unconstrained interval by the constrained ones after it.
PermittedRegs(i) ==
  LET after[n \in i..Len(live.order)] ==
        IF n = i THEN GpRegs ELSE LeftBeside(after[n - 1], live.order[i], live.order[n])
  IN after[Len(live.order)]

\* The same intervals, with other constraints.
WithRegs(regs) ==
  [ order      |-> live.order,
    startPoint |-> live.startPoint,
    endPoint   |-> live.endPoint,
    mcRegs     |-> regs ]

\* One iteration of the outer loop of initializeRegisterConstraints.
ConstrainInterval ==
  /\ stage = "constraints"
  /\ cursor <= Len(live.order)
  /\ live' = IF live.mcRegs[live.order[cursor]] # <<>> THEN live
             ELSE WithRegs([live.mcRegs EXCEPT ![live.order[cursor]] = PermittedRegs(cursor)])
  /\ cursor' = cursor + 1
  /\ UNCHANGED <<prog, stage, blocks, open, succ, liveVars>>

StartCalls ==
  /\ stage = "constraints"
  /\ cursor > Len(live.order)
  /\ stage' = "calls"
  /\ cursor' = 1
  /\ UNCHANGED <<prog, blocks, open, succ, liveVars, live>>

\* The registers call k destroys, those of its own operands excepted.
ClobberedBy(k) ==
  CallerSaveRegs \ UNION {Range(mcRegWhitelist(prog, t)) : t \in Defs(prog[k]) \union Uses(prog[k])}

\* Fault: the last instructions of an interval are not protected from the call.
CrossesEarly(t, k) == live.startPoint[t] < k /\ k + 1 < live.endPoint[t]

Crosses(t, k) == live.startPoint[t] <= k /\ k <= live.endPoint[t]

\* handleCallerSaveRegistersNodeCallback
HandleCall ==
  /\ stage = "calls"
  /\ cursor <= Len(prog)
  /\ live' = IF ~isCallInstruction(prog[cursor]) THEN live
             ELSE WithRegs([t \in Temps |->
                    IF Crosses(t, cursor) THEN Without(live.mcRegs[t], ClobberedBy(cursor))
                    ELSE live.mcRegs[t]])
  /\ cursor' = cursor + 1
  /\ UNCHANGED <<prog, stage, blocks, open, succ, liveVars>>

IntervalsNext ==
  \/ LivenessNext /\ UNCHANGED live
  \/ StartIntervals
  \/ CollectIntervals
  \/ StartConstraints
  \/ ConstrainInterval
  \/ StartCalls
  \/ HandleCall

IntervalsReady == stage = "calls" /\ cursor > Len(prog)

-----------------------------------------------------------------------------
(* What the linear scan relies on *)

\* Wherever a temporary is live or overwritten, its interval is.
IntervalsCover ==
  IntervalsReady =>
    \A k \in DOMAIN prog : \A t \in in[k] \union out[k] \union Defs(prog[k]) :
      /\ t \in Range(live.order)
      /\ live.startPoint[t] <= k /\ k <= live.endPoint[t]
===============================================================================
