------------------------------ MODULE LinearScan ------------------------------
(***************************************************************************)
(* The linear scan register allocator of acse/reg_alloc.c                  *)
(* (executeLinearScan and the functions it calls).                         *)
(*                                                                         *)
(* The scan visits the live intervals in the order of the list built by    *)
(* getLiveIntervals.  For each it first expires the intervals that ended,  *)
(* one iteration of the loop of expireOldIntervals per step, then gives    *)
(* the interval a register, or takes the one of the active interval that   *)
(* ends last, or spills it.                                                *)
(*                                                                         *)
(* A temporary has at most one interval, so an interval is named by its    *)
(* temporary.  Register and temporary identifiers share a type (t_regID)   *)
(* in the code and are naturals here.                                      *)
(***************************************************************************)
EXTENDS Integers, Sequences

CONSTANTS
  Temps,   \* the temporary register identifiers of the program
  Regs,    \* the machine registers (getListOfMachineRegisters)
  Inputs   \* the lists of intervals the scan may be started on

RA_SPILL_REQUIRED   == -2
RA_REGISTER_INVALID == -1
REG_0               == 0

(***************************************************************************)
(* A list of intervals: the temporaries in list order, the first and last  *)
(* instruction of each interval, and the registers it may be allocated to, *)
(* in order of preference.                                                 *)
(***************************************************************************)
IntervalLists ==
  [ order      : Seq(Temps),
    startPoint : [Temps -> Nat],
    endPoint   : [Temps -> Nat],
    mcRegs     : [Temps -> Seq(Regs)] ]

\* One interval per temporary, by increasing start point.
Ordered(list) ==
  /\ \A i, j \in DOMAIN list.order :
       i < j => /\ list.order[i] # list.order[j]
                /\ list.startPoint[list.order[i]] <= list.startPoint[list.order[j]]
  /\ \A t \in Temps : list.startPoint[t] <= list.endPoint[t]

\* What getLiveIntervals guarantees of its list.
WellFormed(list) == list \in IntervalLists /\ Ordered(list)

ASSUME RegsAssumption   == Temps \subseteq Nat /\ Regs \subseteq Nat \ {REG_0}
ASSUME InputsAssumption == \A list \in Inputs : WellFormed(list)

VARIABLES
  live,         \* RA->liveIntervals
  next,         \* position in live.order of the interval being allocated
  active,       \* the active intervals, by increasing end point
  freeRegs,     \* the machine registers not held by an active interval
  constraints,  \* the mcRegConstraints of each interval
  bindings      \* RA->bindings: temporary -> register, or a mark

vars == <<live, next, active, freeRegs, constraints, bindings>>

StartOf(t) == live.startPoint[t]
EndOf(t)   == live.endPoint[t]
Scanning   == next <= Len(live.order)
Current    == live.order[next]

-----------------------------------------------------------------------------
(* Lists *)

\* The element at position k moved to the front (optimizeRegisterSet with a
\* one-element second list).
MoveToFront(s, k) ==
  [i \in 1..Len(s) |-> IF i = 1 THEN s[k] ELSE IF i <= k THEN s[i - 1] ELSE s[i]]

\* s with e inserted so that it is at position k.
Insert(s, k, e) ==
  [i \in 1..(Len(s) + 1) |-> IF i < k THEN s[i] ELSE IF i = k THEN e ELSE s[i - 1]]

WithoutLast(s) == [i \in 1..(Len(s) - 1) |-> s[i]]

\* Fault for the mutation run: insertion at the head whatever the end points.
HeadPlace(s, t, k) == k = 1

\* The place listInsertSorted gives t in s: before the first interval that does
\* not end earlier.
SortedPlace(s, t, k) ==
  /\ k \in 1..(Len(s) + 1)
  /\ \A i \in 1..(k - 1) : EndOf(s[i]) < EndOf(t)
  /\ k <= Len(s) => EndOf(s[k]) >= EndOf(t)

-----------------------------------------------------------------------------
(* The scan *)

Init ==
  /\ live \in Inputs
  /\ next = 1
  /\ active = <<>>
  /\ freeRegs = Regs
  /\ constraints = live.mcRegs
  /\ bindings = [t \in Temps |-> IF t = REG_0 THEN REG_0 ELSE RA_REGISTER_INVALID]

\* Fault: an interval that ends at the next instruction counts as ended.
ExpiredEarly(t) == EndOf(t) <= StartOf(Current) + 1

Expired(t) == EndOf(t) <= StartOf(Current)

\* The register of an interval that ends where the current one starts becomes
\* the first choice for it, if the current interval may have it at all.
PreferRegister(t, r) ==
  \/ \E k \in DOMAIN constraints[t] :
       /\ constraints[t][k] = r
       /\ \A j \in 1..(k - 1) : constraints[t][j] # r
       /\ constraints' = [constraints EXCEPT ![t] = MoveToFront(@, k)]
  \/ /\ \A k \in DOMAIN constraints[t] : constraints[t][k] # r
     /\ UNCHANGED constraints

\* Fault: the expired interval leaves the active list but its register is not freed.
ExpireLeaking ==
  /\ Scanning
  /\ active # <<>>
  /\ Expired(Head(active))
  /\ active' = Tail(active)
  /\ UNCHANGED <<live, next, freeRegs, constraints, bindings>>

\* One iteration of the loop of expireOldIntervals.
ExpireOldInterval ==
  /\ Scanning
  /\ active # <<>>
  /\ Expired(Head(active))
  /\ IF EndOf(Head(active)) = StartOf(Current) /\ bindings[Head(active)] >= 0
       THEN PreferRegister(Current, bindings[Head(active)])
       ELSE UNCHANGED constraints
  /\ active' = Tail(active)
  /\ freeRegs' = freeRegs \union {bindings[Head(active)]}
  /\ UNCHANGED <<live, next, bindings>>

\* expireOldIntervals has returned.
ExpiryDone == active # <<>> => ~Expired(Head(active))

\* assignRegister finds r for the current interval: its first choice among the
\* free registers.
FirstFree(r) ==
  \E k \in DOMAIN constraints[Current] :
    /\ constraints[Current][k] = r
    /\ r \in freeRegs
    /\ \A j \in 1..(k - 1) : constraints[Current][j] \notin freeRegs

NoneFree == \A k \in DOMAIN constraints[Current] : constraints[Current][k] \notin freeRegs

AssignRegister ==
  /\ Scanning
  /\ ExpiryDone
  /\ \E r \in Regs, k \in 1..(Len(active) + 1) :
       /\ FirstFree(r)
       /\ freeRegs' = freeRegs \ {r}
       /\ bindings' = [bindings EXCEPT ![Current] = r]
       /\ SortedPlace(active, Current, k)
       /\ active' = Insert(active, k, Current)
  /\ next' = next + 1
  /\ UNCHANGED <<live, constraints>>

\* Fault: the register is taken without looking at the constraints.
TakesOverAnything(t) == EndOf(t) > EndOf(Current)

\* The two conditions under which spillAtInterval takes the register of the
\* last active interval.
CanTakeOver(t) ==
  /\ EndOf(t) > EndOf(Current)
  /\ \E k \in DOMAIN constraints[Current] : constraints[Current][k] = bindings[t]

\* Fault: the interval that loses its register stays active.
SpillLastKeepingIt ==
  /\ Scanning
  /\ ExpiryDone
  /\ NoneFree
  /\ active # <<>>
  /\ CanTakeOver(active[Len(active)])
  /\ bindings' = [bindings EXCEPT ![Current] = bindings[active[Len(active)]],
                                  ![active[Len(active)]] = RA_SPILL_REQUIRED]
  /\ \E k \in 1..(Len(active) + 1) :
       SortedPlace(active, Current, k) /\ active' = Insert(active, k, Current)
  /\ next' = next + 1
  /\ UNCHANGED <<live, freeRegs, constraints>>

SpillLast ==
  /\ Scanning
  /\ ExpiryDone
  /\ NoneFree
  /\ active # <<>>
  /\ LET last == active[Len(active)]
     IN /\ CanTakeOver(last)
        /\ bindings' = [bindings EXCEPT ![Current] = bindings[last],
                                        ![last]    = RA_SPILL_REQUIRED]
        /\ \E k \in 1..Len(active) :
             /\ SortedPlace(WithoutLast(active), Current, k)
             /\ active' = Insert(WithoutLast(active), k, Current)
  /\ next' = next + 1
  /\ UNCHANGED <<live, freeRegs, constraints>>

\* Fault: the interval is skipped without being marked.
SkipCurrent ==
  /\ Scanning
  /\ ExpiryDone
  /\ NoneFree
  /\ active # <<>> => ~CanTakeOver(active[Len(active)])
  /\ next' = next + 1
  /\ UNCHANGED <<live, active, freeRegs, constraints, bindings>>

SpillCurrent ==
  /\ Scanning
  /\ ExpiryDone
  /\ NoneFree
  /\ active # <<>> => ~CanTakeOver(active[Len(active)])
  /\ bindings' = [bindings EXCEPT ![Current] = RA_SPILL_REQUIRED]
  /\ next' = next + 1
  /\ UNCHANGED <<live, active, freeRegs, constraints>>

\* executeLinearScan returns.
Finished == ~Scanning /\ UNCHANGED vars

Next == ExpireOldInterval \/ AssignRegister \/ SpillLast \/ SpillCurrent \/ Finished

Spec == Init /\ [][Next]_vars /\ WF_vars(Next)

-----------------------------------------------------------------------------
(* What makes the allocation correct *)

TypeOK ==
  /\ WellFormed(live)
  /\ next \in 1..(Len(live.order) + 1)
  /\ active \in Seq(Temps)
  /\ freeRegs \subseteq Regs
  /\ constraints \in [Temps -> Seq(Regs)]
  /\ bindings \in [Temps -> Regs \union {REG_0, RA_SPILL_REQUIRED, RA_REGISTER_INVALID}]

\* Two intervals allocated to the same register do not overlap: the earlier one
\* ends no later than the instruction that starts the other.
NoSharedRegister ==
  \A i, j \in 1..(next - 1) :
    LET a == live.order[i]
        b == live.order[j]
    IN i < j /\ bindings[a] = bindings[b] /\ bindings[a] \in Regs
         => EndOf(a) <= StartOf(b)

\* Expiry, preference and take-over never lead an interval to a register outside
\* the set newRegAllocator allowed it (registers of a system call, registers a
\* call clobbers).
RespectsConstraints ==
  \A i \in 1..(next - 1) :
    LET t == live.order[i]
    IN bindings[t] \in Regs => \E k \in DOMAIN live.mcRegs[t] : live.mcRegs[t][k] = bindings[t]

\* No register is lost or handed out twice: the free list is exactly the
\* registers no active interval holds, and no two active intervals hold one.
RegistersConserved ==
  /\ freeRegs = Regs \ {bindings[active[k]] : k \in DOMAIN active}
  /\ \A k, l \in DOMAIN active : bindings[active[k]] = bindings[active[l]] => k = l

\* expireOldIntervals stops at the first interval that has not expired, so it
\* relies on the order both insertions maintain.
ActiveSorted ==
  \A k, l \in DOMAIN active : k < l => EndOf(active[k]) <= EndOf(active[l])

\* An interval is spilled only when every register it may have is held by an
\* interval that is live past its start.
Pressed(t) ==
  \A k \in DOMAIN live.mcRegs[t] :
    \E i \in 1..(next - 1) :
      /\ bindings[live.order[i]] = live.mcRegs[t][k]
      /\ EndOf(live.order[i]) > StartOf(t)

SpillsOnlyUnderPressure ==
  [][(\E t \in Temps : bindings[t] # RA_SPILL_REQUIRED /\ bindings'[t] = RA_SPILL_REQUIRED)
       => Pressed(Current)]_vars

\* The scan ends, with every interval bound to a register or spilled.
AllDecided ==
  <>(/\ ~Scanning
     /\ \A i \in DOMAIN live.order : bindings[live.order[i]] # RA_REGISTER_INVALID)
===============================================================================
