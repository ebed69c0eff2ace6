---------------------------- MODULE SpillCodeProofs ----------------------------
(***************************************************************************)
(* The code around spilled temporaries keeps each of them in one place,    *)
(* for every program, every binding and every number of slots.             *)
(***************************************************************************)
EXTENDS SpillCode, TLAPS

Holds(s, t) == slots[s].assignedTempReg = t

EmitTyped ==
  /\ pass \in {1, 2}
  /\ arg \in 1..4
  /\ argSlot \in [1..3 -> Slots \union {NoSlot}]
  /\ prog \in Seq(Instructions)
  /\ cursor \in Nat \ {0}
  /\ slots \in [Slots -> [assignedTempReg : TempsOf(prog) \union {REG_INVALID}, needsWB : BOOLEAN]]

\* Nothing is known of the arguments of an instruction before its first loop.
Fresh == pass = 1 /\ arg = 1 /\ argSlot = <<NoSlot, NoSlot, NoSlot>>

\* What the second loop relies on: an argument that has a slot is in it.  In the first
\* loop, an argument passed by without a slot is in none; in the second, only an argument
\* before it with the same temporary can have brought it into one.
ArgumentsKnown ==
  /\ \A a \in 1..3 : argSlot[a] # NoSlot =>
       argSlot[a] \in Slots /\ Spilled(ArgReg(a)) /\ Holds(argSlot[a], ArgReg(a))
  /\ \A a \in 1..3 : pass = 1 /\ a >= arg => argSlot[a] = NoSlot
  /\ \A a \in 1..3 : pass = 2 /\ a < arg /\ Spilled(ArgReg(a)) => argSlot[a] # NoSlot
  /\ \A a \in 1..3 : \A s \in Slots :
       /\ Spilled(ArgReg(a)) /\ argSlot[a] = NoSlot /\ Holds(s, ArgReg(a))
       /\ pass = 2 \/ a < arg
       => pass = 2 /\ \E b \in 1..3 : b < arg /\ ArgReg(b) = ArgReg(a)

IInv ==
  /\ EmitTyped
  /\ ~Materializing => Fresh
  /\ ArgumentsKnown
  /\ OneSlotEach

-----------------------------------------------------------------------------
\* What is known of the arguments is independent of everything else.
LEMMA ArgumentsUntouched ==
  ASSUME IInv, UNCHANGED <<prog, bindings, emitVars>>
  PROVE  IInv'
<1>1. UNCHANGED <<prog, bindings, cursor, pass, arg, argSlot, slots, closing>>
  BY DEF emitVars, argVars
<1>2. \A a : ArgReg(a)' = ArgReg(a)
  BY <1>1 DEF ArgReg
<1>3. \A t : Spilled(t)' <=> Spilled(t)
  BY <1>1 DEF Spilled
<1>4. EmitTyped' /\ OneSlotEach' /\ (Materializing' <=> Materializing) /\ (Fresh' <=> Fresh)
  BY <1>1 DEF IInv, EmitTyped, OneSlotEach, Materializing, Fresh
<1>5. ArgumentsKnown'
  BY <1>1, <1>2, <1>3 DEF IInv, ArgumentsKnown, Holds
<1> QED  BY <1>4, <1>5 DEF IInv

\* A spilled argument is a temporary of the program.
LEMMA SpilledAreTemps ==
  ASSUME NEW a \in 1..3, EmitTyped, Materializing, Spilled(ArgReg(a))
  PROVE  ArgReg(a) \in TempsOf(prog) /\ ArgReg(a) # REG_INVALID
<1>1. cursor \in DOMAIN prog
  BY DEF Materializing, EmitTyped
<1>2. ArgReg(a) # REG_INVALID
  BY DEF Spilled
<1>3. ArgReg(a) \in {prog[cursor].rDest.ID, prog[cursor].rSrc1.ID, prog[cursor].rSrc2.ID}
  BY DEF ArgReg, Args
<1>4. ArgReg(a) \in Defs(prog[cursor]) \union Uses(prog[cursor])
  BY <1>2, <1>3 DEF Defs, Uses
<1> QED  BY <1>1, <1>2, <1>4 DEF TempsOf

LEMMA EmptyAtFirst ==
  ASSUME prog \in Seq(Instructions), cursor \in Nat \ {0}, Fresh, slots = EmptySlots
  PROVE  IInv
<1>1. EmitTyped
  BY DEF EmitTyped, Fresh, EmptySlots
<1>2. ArgumentsKnown
  BY DEF ArgumentsKnown, Fresh
<1>3. OneSlotEach
  BY DEF OneSlotEach, EmptySlots
<1> QED  BY <1>1, <1>2, <1>3 DEF IInv

LEMMA InitInv == Init => IInv
<1> SUFFICES ASSUME Init PROVE IInv
  OBVIOUS
<1>1. prog \in Seq(Instructions)
  BY TasksAssumption DEF Init
<1>2. Fresh /\ slots = EmptySlots /\ cursor = 1
  BY DEF Init, Fresh
<1> QED  BY <1>1, <1>2, EmptyAtFirst

\* Marking a slot for write back keeps its form.
LEMMA MarkedSlot ==
  ASSUME NEW T, NEW f \in [Slots -> [assignedTempReg : T, needsWB : BOOLEAN]], NEW s \in Slots, NEW a
  PROVE  [f EXCEPT ![s].needsWB = @ \/ isDestination(a)]
           \in [Slots -> [assignedTempReg : T, needsWB : BOOLEAN]]
<1> DEFINE w == f[s].needsWB \/ isDestination(a)
<1>1. w \in BOOLEAN
  BY DEF isDestination
<1> HIDE DEF w
<1>2. [f EXCEPT ![s].needsWB = w] \in [Slots -> [assignedTempReg : T, needsWB : BOOLEAN]]
  BY <1>1
<1> QED  BY <1>2, Zenon DEF w

LEMMA ReuseSlotKeeps ==
  ASSUME IInv, ReuseSlot  PROVE IInv'
<1> USE DEF ReuseSlot, IInv, EmitTyped, taskVars
<1>1. \A a : ArgReg(a)' = ArgReg(a)
  BY DEF ArgReg
<1>2. \A t : Spilled(t)' <=> Spilled(t)
  BY DEF Spilled
<1>3. Materializing'
  BY DEF Materializing
<1> DEFINE holding == {s \in Slots : slots[s].assignedTempReg = ArgReg(arg)}
<1>4. arg \in 1..3
  OBVIOUS
<1>5. CASE Spilled(ArgReg(arg)) /\ holding # {}
  <2>1. PICK s \in holding : /\ argSlot' = [argSlot EXCEPT ![arg] = s]
                             /\ slots' = [slots EXCEPT ![s].needsWB = @ \/ isDestination(arg)]
    BY <1>5
  <2>2. s \in Slots /\ Holds(s, ArgReg(arg))
    BY DEF Holds
  <2>3. \A u \in Slots : slots'[u].assignedTempReg = slots[u].assignedTempReg
    BY <2>1
  <2>4. EmitTyped'
    <3>1. (slots[s].needsWB \/ isDestination(arg)) \in BOOLEAN
      BY DEF isDestination
    <3>2. slots' \in [Slots -> [assignedTempReg : TempsOf(prog) \union {REG_INVALID}, needsWB : BOOLEAN]]
      BY <2>1, <2>2, MarkedSlot
    <3> QED  BY <2>1, <2>2, <3>2
  <2>5. OneSlotEach'
    BY <2>3 DEF OneSlotEach
  <2>6. \A a \in 1..3 : argSlot'[a] = IF a = arg THEN s ELSE argSlot[a]
    BY <2>1
  <2>7. ArgumentsKnown'
    BY <1>1, <1>2, <1>4, <1>5, <2>2, <2>3, <2>6 DEF ArgumentsKnown, Holds, Slots, NoSlot
  <2> QED  BY <1>3, <2>4, <2>5, <2>7
<1>6. CASE ~(Spilled(ArgReg(arg)) /\ holding # {})
  <2>1. UNCHANGED <<argSlot, slots>>
    BY <1>6
  <2>2. EmitTyped' /\ OneSlotEach'
    BY <2>1 DEF OneSlotEach
  <2>3. Spilled(ArgReg(arg)) => \A s \in Slots : ~Holds(s, ArgReg(arg))
    BY <1>6 DEF Holds
  <2>4. ArgumentsKnown'
    BY <1>1, <1>2, <1>4, <2>1, <2>3 DEF ArgumentsKnown, Holds
  <2> QED  BY <1>3, <2>2, <2>4
<1> QED  BY <1>5, <1>6

LEMMA FindOthersKeeps ==
  ASSUME IInv, FindOthers  PROVE IInv'
<1> USE DEF FindOthers, IInv, EmitTyped, taskVars
<1>1. \A a : ArgReg(a)' = ArgReg(a)
  BY DEF ArgReg
<1>2. \A t : Spilled(t)' <=> Spilled(t)
  BY DEF Spilled
<1>3. Materializing' /\ EmitTyped' /\ OneSlotEach'
  BY DEF Materializing, OneSlotEach
<1>4. ArgumentsKnown'
  BY <1>1, <1>2 DEF ArgumentsKnown, Holds
<1> QED  BY <1>3, <1>4

LEMMA NeedsNoSlotKeeps ==
  ASSUME IInv, NeedsNoSlot  PROVE IInv'
<1> USE DEF NeedsNoSlot, IInv, EmitTyped, taskVars
<1>1. \A a : ArgReg(a)' = ArgReg(a)
  BY DEF ArgReg
<1>2. \A t : Spilled(t)' <=> Spilled(t)
  BY DEF Spilled
<1>3. Materializing' /\ EmitTyped' /\ OneSlotEach'
  BY DEF Materializing, OneSlotEach
<1>4. ArgumentsKnown'
  BY <1>1, <1>2 DEF ArgumentsKnown, Holds
<1> QED  BY <1>3, <1>4

LEMMA ShareSlotKeeps ==
  ASSUME IInv, ShareSlot  PROVE IInv'
<1> USE DEF ShareSlot, IInv, EmitTyped, taskVars
<1>1. \A a : ArgReg(a)' = ArgReg(a)
  BY DEF ArgReg
<1>2. \A t : Spilled(t)' <=> Spilled(t)
  BY DEF Spilled
<1>3. Materializing' /\ arg \in 1..3
  BY DEF Materializing
<1>4. PICK b \in SameArgument :
        /\ argSlot' = [argSlot EXCEPT ![arg] = argSlot[b]]
        /\ slots' = [slots EXCEPT ![argSlot[b]].needsWB = @ \/ isDestination(arg)]
  OBVIOUS
<1>5. b \in 1..3 /\ b < arg /\ ArgReg(b) = ArgReg(arg)
  BY <1>3 DEF SameArgument
<1>6. argSlot[b] \in Slots /\ Holds(argSlot[b], ArgReg(arg)) /\ argSlot[b] # NoSlot
  BY <1>5 DEF ArgumentsKnown
<1>7. \A u \in Slots : slots'[u].assignedTempReg = slots[u].assignedTempReg
  BY <1>4
<1>8. EmitTyped'
  <2>1. (slots[argSlot[b]].needsWB \/ isDestination(arg)) \in BOOLEAN
    BY DEF isDestination
  <2>2. slots' \in [Slots -> [assignedTempReg : TempsOf(prog) \union {REG_INVALID}, needsWB : BOOLEAN]]
    BY <1>4, <1>6, MarkedSlot
  <2> QED  BY <1>4, <1>6, <2>2
<1>9. OneSlotEach'
  BY <1>7 DEF OneSlotEach
<1>10. \A a \in 1..3 : argSlot'[a] = IF a = arg THEN argSlot[b] ELSE argSlot[a]
  BY <1>4
<1>11. ArgumentsKnown'
  BY <1>1, <1>2, <1>3, <1>6, <1>7, <1>10 DEF ArgumentsKnown, Holds
<1> QED  BY <1>3, <1>8, <1>9, <1>11

\* The slot taken is one that no argument is in, and no slot holds its temporary yet.
LEMMA TakeSlotKeeps ==
  ASSUME IInv, TakeSlot  PROVE IInv'
<1> USE DEF TakeSlot, IInv, EmitTyped, taskVars
<1>1. \A a : ArgReg(a)' = ArgReg(a)
  BY DEF ArgReg
<1>2. \A t : Spilled(t)' <=> Spilled(t)
  BY DEF Spilled
<1>3. Materializing' /\ arg \in 1..3 /\ pass = 2
  BY DEF Materializing
<1>4. PICK s \in Slots :
        /\ FirstUnused(s)
        /\ argSlot' = [argSlot EXCEPT ![arg] = s]
        /\ slots' = [slots EXCEPT ![s] = [assignedTempReg |-> ArgReg(arg), needsWB |-> isDestination(arg)]]
  OBVIOUS
<1>5. s # NoSlot /\ \A a \in 1..3 : argSlot[a] # s
  BY <1>4 DEF FirstUnused, Slots, NoSlot, SlotsAssumption
<1>6. ArgReg(arg) \in TempsOf(prog) /\ ArgReg(arg) # REG_INVALID
  BY <1>3, SpilledAreTemps
<1>7. \A u \in Slots : ~Holds(u, ArgReg(arg))
  <2>1. \A b \in 1..3 : b < arg => ArgReg(b) # ArgReg(arg)
    BY <1>3 DEF SameArgument
  <2> QED  BY <1>3, <2>1 DEF ArgumentsKnown
<1>8. \A u \in Slots : slots'[u] = IF u = s THEN [assignedTempReg |-> ArgReg(arg), needsWB |-> isDestination(arg)]
                                   ELSE slots[u]
  BY <1>4
<1>9. \A u \in Slots : slots'[u].assignedTempReg = IF u = s THEN ArgReg(arg) ELSE slots[u].assignedTempReg
  BY <1>8
<1>10. EmitTyped'
  <2>1. slots' \in [Slots -> [assignedTempReg : TempsOf(prog) \union {REG_INVALID}, needsWB : BOOLEAN]]
    BY <1>4, <1>6 DEF isDestination
  <2> QED  BY <1>4, <2>1
<1>11. OneSlotEach'
  BY <1>7, <1>9 DEF OneSlotEach, Holds
<1>12. \A a \in 1..3 : argSlot'[a] = IF a = arg THEN s ELSE argSlot[a]
  BY <1>4
<1>13. ArgumentsKnown'
  <2>1. ASSUME NEW a \in 1..3, argSlot'[a] # NoSlot
        PROVE  argSlot'[a] \in Slots /\ Spilled(ArgReg(a)) /\ slots'[argSlot'[a]].assignedTempReg = ArgReg(a)
    <3>1. CASE a = arg
      BY <1>1, <1>9, <1>12, <3>1 DEF Holds
    <3>2. CASE a # arg
      BY <1>1, <1>5, <1>9, <1>12, <2>1, <3>2 DEF Holds, ArgumentsKnown
    <3> QED  BY <3>1, <3>2
  <2>2. ASSUME NEW a \in 1..3, a < arg', Spilled(ArgReg(a))
        PROVE  argSlot'[a] # NoSlot
    BY <1>3, <1>5, <1>12, <2>2 DEF ArgumentsKnown
  <2>3. ASSUME NEW a \in 1..3, NEW u \in Slots, Spilled(ArgReg(a)), argSlot'[a] = NoSlot,
               slots'[u].assignedTempReg = ArgReg(a)
        PROVE  \E b \in 1..3 : b < arg' /\ ArgReg(b) = ArgReg(a)
    <3>1. CASE u = s
      BY <1>3, <1>9, <2>3, <3>1
    <3>2. CASE u # s
      <4>1. argSlot[a] = NoSlot /\ Holds(u, ArgReg(a))
        BY <1>5, <1>9, <1>12, <2>3, <3>2 DEF Holds
      <4> QED  BY <1>3, <2>3, <4>1 DEF ArgumentsKnown
    <3> QED  BY <3>1, <3>2
  <2> QED  BY <1>1, <1>2, <1>3, <2>1, <2>2, <2>3 DEF ArgumentsKnown, Holds
<1> QED  BY <1>3, <1>10, <1>11, <1>13

LEMMA RewriteKeeps ==
  ASSUME IInv, Rewrite  PROVE IInv'
<1> USE DEF Rewrite, IInv, EmitTyped, taskVars
<1>1. Fresh' /\ OneSlotEach'
  BY DEF Fresh, OneSlotEach
<1>2. EmitTyped'
  BY DEF Slots, NoSlot
<1>3. ArgumentsKnown'
  BY <1>1 DEF ArgumentsKnown, Fresh
<1> QED  BY <1>1, <1>2, <1>3

LEMMA WriteBackBlockKeeps ==
  ASSUME IInv, WriteBackBlock  PROVE IInv'
<1>1. Fresh' /\ slots' = EmptySlots
  BY DEF IInv, WriteBackBlock, Materializing, Fresh, argVars
<1>2. EmitTyped'
  BY <1>1 DEF IInv, WriteBackBlock, EmitTyped, argVars, taskVars, EmptySlots
<1>3. ArgumentsKnown'
  BY <1>1 DEF ArgumentsKnown, Fresh
<1>4. OneSlotEach'
  BY <1>1 DEF OneSlotEach, EmptySlots
<1> QED  BY <1>1, <1>2, <1>3, <1>4 DEF IInv

LEMMA NextKeeps == IInv /\ [Next \/ Ended]_vars => IInv'
<1> SUFFICES ASSUME IInv, [Next \/ Ended]_vars PROVE IInv'
  OBVIOUS
<1>1. CASE ReuseSlot  BY <1>1, ReuseSlotKeeps
<1>2. CASE FindOthers  BY <1>2, FindOthersKeeps
<1>3. CASE NeedsNoSlot  BY <1>3, NeedsNoSlotKeeps
<1>4. CASE ShareSlot  BY <1>4, ShareSlotKeeps
<1>5. CASE TakeSlot  BY <1>5, TakeSlotKeeps
<1>6. CASE Rewrite  BY <1>6, RewriteKeeps
<1>7. CASE WriteBackBlock  BY <1>7, WriteBackBlockKeeps
<1>8. CASE ExecuteInstruction \/ ExecuteStore \/ ExecuteLoad
  BY <1>8, ArgumentsUntouched DEF ExecuteInstruction, ExecuteStore, ExecuteLoad, taskVars
<1>9. CASE Ended \/ UNCHANGED vars
  BY <1>9, ArgumentsUntouched DEF Ended, vars, taskVars
<1> QED  BY <1>1, <1>2, <1>3, <1>4, <1>5, <1>6, <1>7, <1>8, <1>9 DEF Next

\* A spilled temporary is never in two slots at once (reg_alloc.c:697-718 finds the slot
\* it is in, 736-747 the one that an argument before it was given).
THEOREM NeverInTwoSlots == Spec => []OneSlotEach
<1>1. IInv => OneSlotEach
  BY DEF IInv
<1> QED  BY <1>1, InitInv, NextKeeps, PTL DEF Spec
===============================================================================
