--------------------------- MODULE LinearScanProofs ---------------------------
(***************************************************************************)
(* Proofs about LinearScan for every set of temporaries, every register    *)
(* file and every well-formed list of intervals.                           *)
(***************************************************************************)
EXTENDS LinearScan, TLAPS

(***************************************************************************)
(* The inductive invariant.  Every active interval has been visited and    *)
(* holds a register; the free list is the complement of the registers      *)
(* held; an interval that holds a register but is no longer active ended   *)
(* before any interval still to be visited starts; and no visited interval *)
(* was left without a decision.                                            *)
(***************************************************************************)

\* What the scan needs to know of its list to keep registers apart: the
\* constraints play no part in it.
ListTyped ==
  /\ live.order \in Seq(Temps)
  /\ live.startPoint \in [Temps -> Nat]
  /\ live.endPoint \in [Temps -> Nat]
  /\ Ordered(live)

ScanTyped ==
  /\ ListTyped
  /\ next \in 1..(Len(live.order) + 1)
  /\ active \in Seq(Temps)
  /\ freeRegs \subseteq Regs
  /\ bindings \in [Temps -> Regs \union {REG_0, RA_SPILL_REQUIRED, RA_REGISTER_INVALID}]

VisitedDecided ==
  \A i \in 1..(next - 1) : bindings[live.order[i]] \in Regs \union {RA_SPILL_REQUIRED}

ActiveVisited ==
  \A k \in DOMAIN active :
    /\ \E i \in 1..(next - 1) : live.order[i] = active[k]
    /\ bindings[active[k]] \in Regs

InactiveEnded ==
  \A i \in 1..(next - 1), j \in DOMAIN live.order :
    next <= j /\ bindings[live.order[i]] \in Regs
      => \/ \E k \in DOMAIN active : active[k] = live.order[i]
         \/ EndOf(live.order[i]) <= StartOf(live.order[j])

IInv ==
  /\ ScanTyped
  /\ ActiveVisited
  /\ RegistersConserved
  /\ InactiveEnded
  /\ NoSharedRegister
  /\ VisitedDecided

-----------------------------------------------------------------------------
(* Lemmas about the list operators *)

\* Insert yields a list one longer that keeps the elements of the old one in
\* order around the new one.
LEMMA InsertProperties ==
  ASSUME NEW S, NEW s \in Seq(S), NEW k \in 1..(Len(s) + 1), NEW e \in S
  PROVE  /\ Insert(s, k, e) \in Seq(S)
         /\ Len(Insert(s, k, e)) = Len(s) + 1
         /\ Insert(s, k, e)[k] = e
         /\ \A i \in 1..(k - 1) : Insert(s, k, e)[i] = s[i]
         /\ \A i \in (k + 1)..(Len(s) + 1) : Insert(s, k, e)[i] = s[i - 1]
  BY DEF Insert

\* The elements of the list after an insertion are the old ones and the new one.
LEMMA InsertElements ==
  ASSUME NEW S, NEW s \in Seq(S), NEW k \in 1..(Len(s) + 1), NEW e \in S
  PROVE  /\ \A i \in DOMAIN Insert(s, k, e) :
              \/ i = k /\ Insert(s, k, e)[i] = e
              \/ i < k /\ i \in DOMAIN s /\ Insert(s, k, e)[i] = s[i]
              \/ i > k /\ i - 1 \in DOMAIN s /\ Insert(s, k, e)[i] = s[i - 1]
         /\ \A j \in DOMAIN s : \E i \in DOMAIN Insert(s, k, e) : Insert(s, k, e)[i] = s[j]
         /\ \E i \in DOMAIN Insert(s, k, e) : Insert(s, k, e)[i] = e
  <1>1. \A i \in DOMAIN Insert(s, k, e) :
          \/ i = k /\ Insert(s, k, e)[i] = e
          \/ i < k /\ i \in DOMAIN s /\ Insert(s, k, e)[i] = s[i]
          \/ i > k /\ i - 1 \in DOMAIN s /\ Insert(s, k, e)[i] = s[i - 1]
    BY DEF Insert
  <1>2. ASSUME NEW j \in DOMAIN s
        PROVE  \E i \in DOMAIN Insert(s, k, e) : Insert(s, k, e)[i] = s[j]
    <2>1. CASE j < k
      <3>1. j \in DOMAIN Insert(s, k, e) /\ Insert(s, k, e)[j] = s[j]
        BY <2>1 DEF Insert
      <3>2. QED BY <3>1
    <2>2. CASE j >= k
      <3>1. j + 1 \in DOMAIN Insert(s, k, e) /\ Insert(s, k, e)[j + 1] = s[j]
        BY <2>2 DEF Insert
      <3>2. QED BY <3>1
    <2>3. QED BY <2>1, <2>2
  <1>3. k \in DOMAIN Insert(s, k, e) /\ Insert(s, k, e)[k] = e
    BY InsertProperties
  <1>4. QED BY <1>1, <1>2, <1>3

\* An insertion keeps b injective along the list when b tells the new element
\* from the old ones.
LEMMA InsertKeepsDistinct ==
  ASSUME NEW S, NEW s \in Seq(S), NEW k \in 1..(Len(s) + 1), NEW e \in S, NEW b,
         \A i, j \in DOMAIN s : b[s[i]] = b[s[j]] => i = j,
         \A i \in DOMAIN s : b[s[i]] # b[e]
  PROVE  \A i, j \in DOMAIN Insert(s, k, e) :
           b[Insert(s, k, e)[i]] = b[Insert(s, k, e)[j]] => i = j
  <1> DEFINE n == Insert(s, k, e)
  <1>1. /\ DOMAIN n = 1..(Len(s) + 1) /\ DOMAIN s = 1..Len(s) /\ Len(s) \in Nat
        /\ k \in Nat
    BY InsertProperties
  <1>2. ASSUME NEW i \in DOMAIN n, NEW j \in DOMAIN n, b[n[i]] = b[n[j]]
        PROVE  i = j
    <2>1. /\ \/ i = k /\ n[i] = e
             \/ i < k /\ i \in DOMAIN s /\ n[i] = s[i]
             \/ i > k /\ i - 1 \in DOMAIN s /\ n[i] = s[i - 1]
          /\ \/ j = k /\ n[j] = e
             \/ j < k /\ j \in DOMAIN s /\ n[j] = s[j]
             \/ j > k /\ j - 1 \in DOMAIN s /\ n[j] = s[j - 1]
      BY InsertElements
    <2>2. i \in Int /\ j \in Int
      BY <1>1
    <2> HIDE DEF n
    <2>3. QED BY <2>1, <2>2, <1>1, <1>2
  <1>3. QED BY <1>2

\* Dropping the last element leaves a list with the others in place.
LEMMA WithoutLastProperties ==
  ASSUME NEW S, NEW s \in Seq(S), s # <<>>
  PROVE  /\ WithoutLast(s) \in Seq(S)
         /\ Len(WithoutLast(s)) = Len(s) - 1
         /\ \A i \in 1..(Len(s) - 1) : WithoutLast(s)[i] = s[i]
  BY DEF WithoutLast

\* MoveToFront permutes the list.
LEMMA MoveToFrontProperties ==
  ASSUME NEW S, NEW s \in Seq(S), NEW k \in DOMAIN s
  PROVE  /\ MoveToFront(s, k) \in Seq(S)
         /\ Len(MoveToFront(s, k)) = Len(s)
         /\ \A i \in DOMAIN s : \E j \in DOMAIN s : MoveToFront(s, k)[i] = s[j]
         /\ \A i \in DOMAIN s : \E j \in DOMAIN s : MoveToFront(s, k)[j] = s[i]
  <1>1. MoveToFront(s, k) \in Seq(S) /\ Len(MoveToFront(s, k)) = Len(s)
    BY DEF MoveToFront
  <1>2. \A i \in DOMAIN s : \E j \in DOMAIN s : MoveToFront(s, k)[i] = s[j]
    BY DEF MoveToFront
  <1>3. ASSUME NEW i \in DOMAIN s
        PROVE  \E j \in DOMAIN s : MoveToFront(s, k)[j] = s[i]
    <2>1. CASE i = k
      <3>1. MoveToFront(s, k)[1] = s[i] /\ 1 \in DOMAIN s
        BY <2>1 DEF MoveToFront
      <3>2. QED BY <3>1
    <2>2. CASE i < k
      <3>1. MoveToFront(s, k)[i + 1] = s[i] /\ i + 1 \in DOMAIN s
        BY <2>2 DEF MoveToFront
      <3>2. QED BY <3>1
    <2>3. CASE i > k
      BY <2>3 DEF MoveToFront
    <2>4. QED BY <2>1, <2>2, <2>3
  <1>4. QED BY <1>1, <1>2, <1>3

\* What a place in the sorted list is, as far as safety is concerned.
LEMMA SortedPlaceInRange ==
  ASSUME NEW s, NEW t, NEW k, SortedPlace(s, t, k)
  PROVE  k \in 1..(Len(s) + 1)
  BY DEF SortedPlace

-----------------------------------------------------------------------------
(* The invariant holds initially *)

\* The lists start empty and every register free.
LEMMA StartsInvariant ==
  ASSUME ListTyped, next = 1, active = <<>>, freeRegs = Regs,
         bindings = [t \in Temps |-> IF t = REG_0 THEN REG_0 ELSE RA_REGISTER_INVALID]
  PROVE  IInv
  <1>1. ScanTyped
    BY DEF ListTyped, ScanTyped
  <1>2. /\ ActiveVisited /\ RegistersConserved /\ InactiveEnded /\ NoSharedRegister
        /\ VisitedDecided
    BY DEF ActiveVisited, RegistersConserved, InactiveEnded, NoSharedRegister, VisitedDecided
  <1>3. QED BY <1>1, <1>2 DEF IInv

LEMMA InitInvariant == Init => IInv
  <1> SUFFICES ASSUME Init PROVE IInv
    OBVIOUS
  <1>1. ListTyped
    BY InputsAssumption DEF Init, WellFormed, IntervalLists, ListTyped
  <1>2. QED BY <1>1, StartsInvariant DEF Init

-----------------------------------------------------------------------------
(* Each step keeps it *)

\* The list of intervals, piece by piece.
LEMMA ListFacts ==
  ASSUME ScanTyped
  PROVE  /\ live.order \in Seq(Temps) /\ Len(live.order) \in Nat
         /\ next \in 1..(Len(live.order) + 1)
         /\ \A i \in DOMAIN live.order : live.order[i] \in Temps
         /\ \A t \in Temps : StartOf(t) \in Nat /\ EndOf(t) \in Nat /\ StartOf(t) <= EndOf(t)
         /\ \A i, j \in DOMAIN live.order :
              i < j => /\ live.order[i] # live.order[j]
                       /\ StartOf(live.order[i]) <= StartOf(live.order[j])
  <1>2. /\ live.order \in Seq(Temps)
        /\ live.startPoint \in [Temps -> Nat]
        /\ live.endPoint \in [Temps -> Nat]
    BY DEF ScanTyped, ListTyped
  <1>3. /\ Len(live.order) \in Nat
        /\ next \in 1..(Len(live.order) + 1)
        /\ \A i \in DOMAIN live.order : live.order[i] \in Temps
    BY <1>2 DEF ScanTyped
  <1>4. \A t \in Temps : StartOf(t) \in Nat /\ EndOf(t) \in Nat /\ StartOf(t) <= EndOf(t)
    BY <1>2 DEF ScanTyped, ListTyped, Ordered, StartOf, EndOf
  <1>5. \A i, j \in DOMAIN live.order :
          i < j => /\ live.order[i] # live.order[j]
                   /\ StartOf(live.order[i]) <= StartOf(live.order[j])
    BY DEF ScanTyped, ListTyped, Ordered, StartOf
  <1>6. QED BY <1>2, <1>3, <1>4, <1>5

\* The interval being visited is a temporary that has not been visited.
LEMMA CurrentIsNew ==
  ASSUME ScanTyped, Scanning
  PROVE  /\ Current \in Temps
         /\ next \in DOMAIN live.order
         /\ \A i \in 1..(next - 1) : /\ i \in DOMAIN live.order
                                     /\ live.order[i] \in Temps
                                     /\ live.order[i] # Current
                                     /\ StartOf(live.order[i]) <= StartOf(Current)
         /\ \A j \in DOMAIN live.order : next <= j => StartOf(Current) <= StartOf(live.order[j])
  <1>1. next \in DOMAIN live.order
    BY ListFacts DEF Scanning
  <1>2. Current \in Temps
    BY <1>1, ListFacts DEF Current
  <1>3. ASSUME NEW i \in 1..(next - 1)
        PROVE  /\ i \in DOMAIN live.order
               /\ live.order[i] \in Temps
               /\ live.order[i] # Current
               /\ StartOf(live.order[i]) <= StartOf(Current)
    <2>1. i \in DOMAIN live.order /\ i < next
      BY ListFacts
    <2>2. QED BY <1>1, <2>1, ListFacts DEF Current
  <1>4. ASSUME NEW j \in DOMAIN live.order, next <= j
        PROVE  StartOf(Current) <= StartOf(live.order[j])
    <2>1. CASE j = next
      BY <2>1, <1>2, ListFacts DEF Current
    <2>2. CASE next < j
      BY <2>2, <1>1, ListFacts DEF Current
    <2>3. j \in Nat /\ next \in Nat
      BY ListFacts
    <2>4. QED BY <2>1, <2>2, <2>3, <1>4
  <1>5. QED BY <1>1, <1>2, <1>3, <1>4

LEMMA ExpireKeepsInvariant ==
  ASSUME IInv, ExpireOldInterval
  PROVE  IInv'
  <1> DEFINE h == Head(active)
  <1>1. /\ ScanTyped /\ Scanning /\ active # <<>> /\ Expired(h)
        /\ active' = Tail(active) /\ freeRegs' = freeRegs \union {bindings[h]}
        /\ UNCHANGED <<live, next, bindings>>
    BY DEF IInv, ExpireOldInterval
  <1>2. active \in Seq(Temps) /\ h \in Temps /\ 1 \in DOMAIN active /\ h = active[1]
    BY <1>1 DEF ScanTyped
  <1>3. /\ active' \in Seq(Temps) /\ Len(active') = Len(active) - 1
        /\ \A k \in DOMAIN active' : active'[k] = active[k + 1] /\ k + 1 \in DOMAIN active
    BY <1>1, <1>2
  <1>4. bindings[h] \in Regs
    BY <1>2 DEF IInv, ActiveVisited
  <1>5. VisitedDecided'
    BY <1>1 DEF IInv, VisitedDecided
  <1>6. ScanTyped'
    BY <1>1, <1>3, <1>4 DEF ScanTyped, ListTyped
  <1>7. ActiveVisited'
    BY <1>1, <1>3 DEF IInv, ActiveVisited
  <1>8. RegistersConserved'
    <2>1. /\ freeRegs = Regs \ {bindings[active[k]] : k \in DOMAIN active}
          /\ \A k, l \in DOMAIN active : bindings[active[k]] = bindings[active[l]] => k = l
      BY DEF IInv, RegistersConserved
    <2>2. \A k, l \in DOMAIN active' : bindings[active'[k]] = bindings[active'[l]] => k = l
      BY <2>1, <1>2, <1>3
    <2>3. ASSUME NEW r \in Regs
          PROVE  r \in freeRegs' <=> \A k \in DOMAIN active' : bindings[active'[k]] # r
      <3>1. CASE r = bindings[h]
        <4>1. ASSUME NEW k \in DOMAIN active'
              PROVE  bindings[active'[k]] # r
          BY <3>1, <2>1, <1>2, <1>3
        <4>2. QED BY <4>1, <3>1, <1>1
      <3>2. CASE r # bindings[h]
        <4>1. r \in freeRegs' <=> \A k \in DOMAIN active : bindings[active[k]] # r
          BY <3>2, <2>1, <1>1
        <4>2. ASSUME NEW k \in DOMAIN active, bindings[active[k]] = r
              PROVE  \E l \in DOMAIN active' : bindings[active'[l]] = r
          <5>1. k - 1 \in DOMAIN active' /\ active'[k - 1] = active[k]
            BY <1>2, <1>3, <3>2, <4>2
          <5>2. QED BY <5>1, <4>2
        <4>3. ASSUME NEW l \in DOMAIN active', bindings[active'[l]] = r
              PROVE  \E k \in DOMAIN active : bindings[active[k]] = r
          BY <1>3, <4>3
        <4>4. QED BY <4>1, <4>2, <4>3
      <3>3. QED BY <3>1, <3>2
    <2>4. freeRegs' \subseteq Regs
      BY <1>1, <1>4, <2>1
    <2>5. freeRegs' = Regs \ {bindings[active'[k]] : k \in DOMAIN active'}
      BY <2>3, <2>4
    <2>6. QED BY <2>2, <2>5, <1>1 DEF RegistersConserved
  <1>9. InactiveEnded'
    <2> SUFFICES ASSUME NEW i \in 1..(next - 1), NEW j \in DOMAIN live.order,
                        next <= j, bindings[live.order[i]] \in Regs,
                        \A k \in DOMAIN active' : active'[k] # live.order[i]
                 PROVE  EndOf(live.order[i]) <= StartOf(live.order[j])
      BY <1>1 DEF InactiveEnded, EndOf, StartOf
    <2>1. CASE live.order[i] = h
      <3>1. StartOf(Current) <= StartOf(live.order[j])
        BY <1>1, CurrentIsNew
      <3>2. EndOf(h) <= StartOf(Current)
        BY <1>1 DEF Expired
      <3>3. /\ EndOf(h) \in Nat /\ StartOf(Current) \in Nat
            /\ StartOf(live.order[j]) \in Nat
        BY <1>1, <1>2, CurrentIsNew, ListFacts
      <3>4. QED BY <2>1, <3>1, <3>2, <3>3
    <2>2. CASE live.order[i] # h
      <3>1. \A k \in DOMAIN active : active[k] # live.order[i]
        <4>1. ASSUME NEW k \in DOMAIN active, k # 1
              PROVE  active[k] # live.order[i]
          <5>1. k - 1 \in DOMAIN active' /\ active'[k - 1] = active[k]
            BY <1>2, <1>3, <4>1
          <5>2. QED BY <5>1
        <4>2. QED BY <4>1, <2>2, <1>2
      <3>2. QED BY <3>1 DEF IInv, InactiveEnded
    <2>3. QED BY <2>1, <2>2
  <1>10. NoSharedRegister'
    BY <1>1 DEF IInv, NoSharedRegister, EndOf, StartOf
  <1>11. QED BY <1>5, <1>6, <1>7, <1>8, <1>9, <1>10 DEF IInv

\* Visiting the current interval extends the visited ones by it.
LEMMA VisitedAfter ==
  ASSUME ScanTyped, Scanning, next' = next + 1, UNCHANGED live
  PROVE  /\ next' \in 1..(Len(live'.order) + 1)
         /\ \A i \in 1..(next' - 1) : i = next \/ i \in 1..(next - 1)
         /\ \A i \in 1..(next - 1) : i \in 1..(next' - 1)
         /\ next \in 1..(next' - 1) /\ next \in Nat
         /\ \A i \in 1..(next' - 1) : i \in DOMAIN live.order
  <1>1. next \in 1..Len(live.order) /\ Len(live.order) \in Nat
    BY CurrentIsNew, ListFacts
  <1>2. next' \in 1..(Len(live'.order) + 1)
    BY <1>1
  <1>3. \A i \in 1..(next' - 1) : (i = next \/ i \in 1..(next - 1)) /\ i \in 1..Len(live.order)
    BY <1>1
  <1>4. QED BY <1>1, <1>2, <1>3, ListFacts

LEMMA AssignKeepsInvariant ==
  ASSUME IInv, AssignRegister
  PROVE  IInv'
  <1>1. /\ ScanTyped /\ Scanning /\ next' = next + 1 /\ UNCHANGED <<live, constraints>>
    BY DEF IInv, AssignRegister
  <1>2. PICK r \in Regs, k \in 1..(Len(active) + 1) :
          /\ r \in freeRegs
          /\ freeRegs' = freeRegs \ {r}
          /\ bindings' = [bindings EXCEPT ![Current] = r]
          /\ active' = Insert(active, k, Current)
    BY DEF AssignRegister, FirstFree
  <1>3. /\ active \in Seq(Temps) /\ Current \in Temps
        /\ bindings \in [Temps -> Regs \union {REG_0, RA_SPILL_REQUIRED, RA_REGISTER_INVALID}]
        /\ freeRegs \subseteq Regs
    BY <1>1, CurrentIsNew DEF ScanTyped
  <1>4. /\ \A k1 \in DOMAIN active : active[k1] # Current /\ bindings[active[k1]] # r
        /\ \A t \in Temps : t # Current => bindings'[t] = bindings[t]
        /\ bindings'[Current] = r
        /\ \A k1 \in DOMAIN active : active[k1] \in Temps /\ bindings'[active[k1]] = bindings[active[k1]]
    <2>1. \A k1 \in DOMAIN active : active[k1] # Current
      BY <1>1, CurrentIsNew DEF IInv, ActiveVisited
    <2>2. \A k1 \in DOMAIN active : bindings[active[k1]] # r
      BY <1>2 DEF IInv, RegistersConserved
    <2>3. QED BY <2>1, <2>2, <1>2, <1>3
  <1>5. active' \in Seq(Temps)
    BY <1>2, <1>3, InsertProperties
  <1>6. ScanTyped'
    BY <1>1, <1>2, <1>3, <1>5, VisitedAfter DEF ScanTyped, ListTyped
  <1>7. /\ \A i \in DOMAIN active' :
             active'[i] = Current \/ \E j \in DOMAIN active : active'[i] = active[j]
        /\ \A j \in DOMAIN active : \E i \in DOMAIN active' : active'[i] = active[j]
        /\ \E i \in DOMAIN active' : active'[i] = Current
    <2> DEFINE n == Insert(active, k, Current)
    <2>1. /\ \A i \in DOMAIN n : n[i] = Current \/ \E j \in DOMAIN active : n[i] = active[j]
          /\ \A j \in DOMAIN active : \E i \in DOMAIN n : n[i] = active[j]
          /\ \E i \in DOMAIN n : n[i] = Current
      BY <1>3, InsertElements
    <2>2. active' = n
      BY <1>2
    <2> HIDE DEF n
    <2>3. QED BY <2>1, <2>2
  <1>8. ActiveVisited'
    <2> SUFFICES ASSUME NEW i \in DOMAIN active'
                 PROVE  /\ \E j \in 1..(next' - 1) : live.order[j] = active'[i]
                        /\ bindings'[active'[i]] \in Regs
      BY <1>1 DEF ActiveVisited
    <2>1. CASE active'[i] = Current
      BY <2>1, <1>1, <1>4, VisitedAfter DEF Current
    <2>2. CASE \E j \in DOMAIN active : active'[i] = active[j]
      BY <2>2, <1>1, <1>4, VisitedAfter DEF IInv, ActiveVisited
    <2>3. QED BY <2>1, <2>2, <1>7
  <1>9. RegistersConserved'
    <2>1. /\ freeRegs = Regs \ {bindings[active[k1]] : k1 \in DOMAIN active}
          /\ \A k1, l \in DOMAIN active : bindings[active[k1]] = bindings[active[l]] => k1 = l
      BY DEF IInv, RegistersConserved
    <2>2. \A k1, l \in DOMAIN active' : bindings'[active'[k1]] = bindings'[active'[l]] => k1 = l
      <3>1. /\ \A k1, l \in DOMAIN active : bindings'[active[k1]] = bindings'[active[l]] => k1 = l
            /\ \A k1 \in DOMAIN active : bindings'[active[k1]] # bindings'[Current]
        BY <2>1, <1>4
      <3>2. \A k1, l \in DOMAIN Insert(active, k, Current) :
              bindings'[Insert(active, k, Current)[k1]] = bindings'[Insert(active, k, Current)[l]]
                => k1 = l
        BY <3>1, <1>3, InsertKeepsDistinct
      <3>3. QED BY <3>2, <1>2
    <2>3. {bindings'[active'[k1]] : k1 \in DOMAIN active'}
            = {bindings[active[k1]] : k1 \in DOMAIN active} \union {r}
      BY <1>4, <1>7
    <2>4. freeRegs' = Regs \ {bindings'[active'[k1]] : k1 \in DOMAIN active'}
      BY <2>1, <2>3, <1>2
    <2>5. QED BY <2>2, <2>4 DEF RegistersConserved
  <1>10. InactiveEnded'
    <2> SUFFICES ASSUME NEW i \in 1..(next' - 1), NEW j \in DOMAIN live.order,
                        next' <= j, bindings'[live.order[i]] \in Regs,
                        \A k1 \in DOMAIN active' : active'[k1] # live.order[i]
                 PROVE  EndOf(live.order[i]) <= StartOf(live.order[j])
      BY <1>1 DEF InactiveEnded, EndOf, StartOf
    <2>1. i # next
      BY <1>7 DEF Current
    <2>2. i \in 1..(next - 1) /\ next <= j
      <3>1. i \in 1..(next - 1)
        BY <2>1, <1>1, VisitedAfter
      <3>2. live.order \in Seq(Temps) /\ next \in Nat
        BY <1>1, ListFacts
      <3>3. QED BY <3>1, <3>2, <1>1
    <2>3. bindings[live.order[i]] \in Regs
      BY <2>2, <1>1, <1>4, CurrentIsNew
    <2>4. \A k1 \in DOMAIN active : active[k1] # live.order[i]
      BY <1>7
    <2>5. QED BY <2>2, <2>3, <2>4 DEF IInv, InactiveEnded
  <1>11. NoSharedRegister'
    <2> SUFFICES ASSUME NEW i \in 1..(next' - 1), NEW j \in 1..(next' - 1), i < j,
                        bindings'[live.order[i]] = bindings'[live.order[j]],
                        bindings'[live.order[i]] \in Regs
                 PROVE  EndOf(live.order[i]) <= StartOf(live.order[j])
      BY <1>1 DEF NoSharedRegister, EndOf, StartOf
    <2>1. i \in 1..(next - 1)
      BY <1>1, VisitedAfter, ListFacts
    <2>2. bindings[live.order[i]] = bindings'[live.order[i]]
      BY <2>1, <1>1, <1>4, CurrentIsNew
    <2>3. CASE j = next
      <3>1. bindings[live.order[i]] = r
        BY <2>2, <2>3, <1>4 DEF Current
      <3>2. \A k1 \in DOMAIN active : active[k1] # live.order[i]
        BY <3>1, <1>4
      <3>3. QED BY <2>1, <2>2, <2>3, <3>2, <1>1, CurrentIsNew DEF IInv, InactiveEnded
    <2>4. CASE j \in 1..(next - 1)
      <3>1. bindings[live.order[j]] = bindings'[live.order[j]]
        BY <2>4, <1>1, <1>4, CurrentIsNew
      <3>2. QED BY <2>1, <2>2, <2>4, <3>1 DEF IInv, NoSharedRegister
    <2>5. QED BY <2>3, <2>4, <1>1, VisitedAfter
  <1>12. VisitedDecided'
    <2> SUFFICES ASSUME NEW i \in 1..(next' - 1)
                 PROVE  bindings'[live.order[i]] \in Regs \union {RA_SPILL_REQUIRED}
      BY <1>1 DEF VisitedDecided
    <2>1. CASE i = next
      BY <2>1, <1>4 DEF Current
    <2>2. CASE i \in 1..(next - 1)
      BY <2>2, <1>1, <1>4, CurrentIsNew DEF IInv, VisitedDecided
    <2>3. QED BY <2>1, <2>2, <1>1, VisitedAfter
  <1>13. QED BY <1>6, <1>8, <1>9, <1>10, <1>11, <1>12 DEF IInv

LEMMA SpillLastKeepsInvariant ==
  ASSUME IInv, SpillLast
  PROVE  IInv'
  <1> DEFINE last == active[Len(active)]
             s    == WithoutLast(active)
             r    == bindings[last]
  <1>1. /\ ScanTyped /\ Scanning /\ next' = next + 1
        /\ UNCHANGED <<live, freeRegs, constraints>> /\ active # <<>>
    BY DEF IInv, SpillLast
  <1>2. PICK k \in 1..Len(active) :
          /\ bindings' = [bindings EXCEPT ![Current] = r, ![last] = RA_SPILL_REQUIRED]
          /\ active' = Insert(s, k, Current)
    BY DEF SpillLast
  <1>3. /\ active \in Seq(Temps) /\ Current \in Temps
        /\ bindings \in [Temps -> Regs \union {REG_0, RA_SPILL_REQUIRED, RA_REGISTER_INVALID}]
        /\ freeRegs \subseteq Regs
    BY <1>1, CurrentIsNew DEF ScanTyped
  <1>4. /\ Len(active) \in DOMAIN active /\ last \in Temps
        /\ s \in Seq(Temps) /\ k \in 1..(Len(s) + 1)
        /\ \A i \in DOMAIN s : i \in DOMAIN active /\ i # Len(active) /\ s[i] = active[i]
        /\ \A i \in DOMAIN active : i # Len(active) => i \in DOMAIN s
    <2>1. Len(active) \in Nat /\ Len(active) > 0 /\ DOMAIN active = 1..Len(active)
      BY <1>1, <1>3
    <2>2. s \in Seq(Temps) /\ Len(s) = Len(active) - 1
      BY <1>1, <1>3, WithoutLastProperties
    <2>3. \A i \in 1..(Len(active) - 1) : s[i] = active[i]
      BY <1>1, <1>3, WithoutLastProperties
    <2>4. last \in Temps
      BY <2>1, <1>3
    <2> HIDE DEF s
    <2>5. QED BY <2>1, <2>2, <2>3, <2>4
  <1>5. /\ \A i \in DOMAIN active : active[i] # Current /\ bindings[active[i]] \in Regs
        /\ \A i, j \in DOMAIN active : bindings[active[i]] = bindings[active[j]] => i = j
    BY <1>1, CurrentIsNew DEF IInv, ActiveVisited, RegistersConserved
  <1>6. /\ last # Current /\ r \in Regs
        /\ \A i \in DOMAIN s : s[i] \in Temps /\ s[i] # last /\ s[i] # Current /\ bindings[s[i]] # r
    BY <1>3, <1>4, <1>5
  <1>7. RA_SPILL_REQUIRED \notin Regs
    BY RegsAssumption DEF RA_SPILL_REQUIRED
  <1>8. /\ bindings'[Current] = r /\ bindings'[last] = RA_SPILL_REQUIRED
        /\ \A t \in Temps : t # Current /\ t # last => bindings'[t] = bindings[t]
        /\ \A i \in DOMAIN s : bindings'[s[i]] = bindings[s[i]]
    <2> HIDE DEF last, s, r
    <2>1. QED BY <1>2, <1>3, <1>4, <1>6
  <1>9. active' \in Seq(Temps)
    BY <1>2, <1>3, <1>4, InsertProperties
  <1>10. ScanTyped'
    <2>1. bindings' \in [Temps -> Regs \union {REG_0, RA_SPILL_REQUIRED, RA_REGISTER_INVALID}]
      <3> HIDE DEF last, r
      <3>1. QED BY <1>2, <1>3, <1>4, <1>6
    <2>2. QED BY <2>1, <1>1, <1>3, <1>9, VisitedAfter DEF ScanTyped, ListTyped
  <1>11. /\ \A i \in DOMAIN active' :
              active'[i] = Current \/ \E j \in DOMAIN s : active'[i] = s[j]
         /\ \A j \in DOMAIN s : \E i \in DOMAIN active' : active'[i] = s[j]
         /\ \E i \in DOMAIN active' : active'[i] = Current
    <2> DEFINE n == Insert(s, k, Current)
    <2>1. s \in Seq(Temps) /\ k \in 1..(Len(s) + 1) /\ Current \in Temps
      BY <1>3, <1>4
    <2> HIDE DEF s
    <2>2. /\ \A i \in DOMAIN n : n[i] = Current \/ \E j \in DOMAIN s : n[i] = s[j]
          /\ \A j \in DOMAIN s : \E i \in DOMAIN n : n[i] = s[j]
          /\ \E i \in DOMAIN n : n[i] = Current
      BY <2>1, InsertElements
    <2>3. active' = n
      BY <1>2
    <2> HIDE DEF n
    <2>4. QED BY <2>2, <2>3
  <1>12. ActiveVisited'
    <2> SUFFICES ASSUME NEW i \in DOMAIN active'
                 PROVE  /\ \E j \in 1..(next' - 1) : live.order[j] = active'[i]
                        /\ bindings'[active'[i]] \in Regs
      BY <1>1 DEF ActiveVisited
    <2>1. CASE active'[i] = Current
      BY <2>1, <1>1, <1>6, <1>8, VisitedAfter DEF Current
    <2>2. CASE \E j \in DOMAIN s : active'[i] = s[j]
      <3>1. PICK j \in DOMAIN s : active'[i] = s[j]
        BY <2>2
      <3>2. /\ \E l \in 1..(next - 1) : live.order[l] = s[j]
            /\ bindings[s[j]] \in Regs
        BY <1>4 DEF IInv, ActiveVisited
      <3> HIDE DEF s
      <3>3. QED BY <3>1, <3>2, <1>1, <1>8, VisitedAfter
    <2>3. QED BY <2>1, <2>2, <1>11
  <1>13. RegistersConserved'
    <2>1. freeRegs = Regs \ {bindings[active[i]] : i \in DOMAIN active}
      BY DEF IInv, RegistersConserved
    <2>2. \A i, j \in DOMAIN active' : bindings'[active'[i]] = bindings'[active'[j]] => i = j
      <3>1. /\ \A i, j \in DOMAIN s : bindings'[s[i]] = bindings'[s[j]] => i = j
            /\ \A i \in DOMAIN s : bindings'[s[i]] # bindings'[Current]
        BY <1>4, <1>5, <1>6, <1>8
      <3>2. s \in Seq(Temps) /\ k \in 1..(Len(s) + 1) /\ Current \in Temps
        BY <1>3, <1>4
      <3> HIDE DEF s
      <3>3. \A i, j \in DOMAIN Insert(s, k, Current) :
              bindings'[Insert(s, k, Current)[i]] = bindings'[Insert(s, k, Current)[j]]
                => i = j
        BY <3>1, <3>2, InsertKeepsDistinct
      <3>4. QED BY <3>3, <1>2
    <2>3. ASSUME NEW x
          PROVE  (\E i \in DOMAIN active' : x = bindings'[active'[i]])
                   <=> (\E i \in DOMAIN active : x = bindings[active[i]])
      <3>1. ASSUME NEW i \in DOMAIN active', x = bindings'[active'[i]]
            PROVE  \E j \in DOMAIN active : x = bindings[active[j]]
        <4>1. CASE active'[i] = Current
          BY <4>1, <3>1, <1>4, <1>8
        <4>2. CASE \E j \in DOMAIN s : active'[i] = s[j]
          BY <4>2, <3>1, <1>4, <1>8
        <4>3. QED BY <4>1, <4>2, <1>11
      <3>2. ASSUME NEW i \in DOMAIN active, x = bindings[active[i]]
            PROVE  \E j \in DOMAIN active' : x = bindings'[active'[j]]
        <4>1. CASE i = Len(active)
          BY <4>1, <3>2, <1>8, <1>11
        <4>2. CASE i # Len(active)
          <5>1. i \in DOMAIN s /\ s[i] = active[i]
            BY <4>2, <1>4
          <5>2. PICK j \in DOMAIN active' : active'[j] = s[i]
            BY <5>1, <1>11
          <5>3. QED BY <5>1, <5>2, <3>2, <1>8
        <4>3. QED BY <4>1, <4>2
      <3>3. QED BY <3>1, <3>2
    <2>4. {bindings'[active'[i]] : i \in DOMAIN active'} = {bindings[active[i]] : i \in DOMAIN active}
      BY <2>3
    <2>5. QED BY <2>1, <2>2, <2>4, <1>1 DEF RegistersConserved
  <1>14. InactiveEnded'
    <2> SUFFICES ASSUME NEW i \in 1..(next' - 1), NEW j \in DOMAIN live.order,
                        next' <= j, bindings'[live.order[i]] \in Regs,
                        \A l \in DOMAIN active' : active'[l] # live.order[i]
                 PROVE  EndOf(live.order[i]) <= StartOf(live.order[j])
      BY <1>1 DEF InactiveEnded, EndOf, StartOf
    <2>1. i # next
      BY <1>11 DEF Current
    <2>2. i \in 1..(next - 1) /\ next <= j
      <3>1. i \in 1..(next - 1)
        BY <2>1, <1>1, VisitedAfter
      <3>2. live.order \in Seq(Temps) /\ next \in Nat
        BY <1>1, ListFacts
      <3>3. QED BY <3>1, <3>2, <1>1
    <2>3. /\ live.order[i] \in Temps /\ live.order[i] # Current /\ live.order[i] # last
      BY <2>2, <1>1, <1>7, <1>8, CurrentIsNew
    <2>4. bindings[live.order[i]] \in Regs
      BY <2>3, <1>8
    <2>5. \A l \in DOMAIN active : active[l] # live.order[i]
      BY <2>3, <1>4, <1>11
    <2>6. QED BY <2>2, <2>4, <2>5 DEF IInv, InactiveEnded
  <1>15. NoSharedRegister'
    <2> SUFFICES ASSUME NEW i \in 1..(next' - 1), NEW j \in 1..(next' - 1), i < j,
                        bindings'[live.order[i]] = bindings'[live.order[j]],
                        bindings'[live.order[i]] \in Regs
                 PROVE  EndOf(live.order[i]) <= StartOf(live.order[j])
      BY <1>1 DEF NoSharedRegister, EndOf, StartOf
    <2>1. i \in 1..(next - 1)
      BY <1>1, VisitedAfter, ListFacts
    <2>2. live.order[i] # last /\ live.order[j] # last
      BY <1>7, <1>8
    <2>3. bindings[live.order[i]] = bindings'[live.order[i]]
      BY <2>1, <2>2, <1>1, <1>8, CurrentIsNew
    <2>4. CASE j = next
      <3>1. bindings[live.order[i]] = r
        BY <2>3, <2>4, <1>8 DEF Current
      <3>2. \A l \in DOMAIN active : active[l] # live.order[i]
        BY <3>1, <2>2, <1>4, <1>6
      <3>3. QED BY <2>1, <2>3, <2>4, <3>2, <1>1, CurrentIsNew DEF IInv, InactiveEnded
    <2>5. CASE j \in 1..(next - 1)
      <3>1. bindings[live.order[j]] = bindings'[live.order[j]]
        BY <2>2, <2>5, <1>1, <1>8, CurrentIsNew
      <3>2. QED BY <2>1, <2>3, <2>5, <3>1 DEF IInv, NoSharedRegister
    <2>6. QED BY <2>4, <2>5, <1>1, VisitedAfter
  <1>16. VisitedDecided'
    <2> SUFFICES ASSUME NEW i \in 1..(next' - 1)
                 PROVE  bindings'[live.order[i]] \in Regs \union {RA_SPILL_REQUIRED}
      BY <1>1 DEF VisitedDecided
    <2>1. CASE i = next
      BY <2>1, <1>6, <1>8 DEF Current
    <2>2. CASE i \in 1..(next - 1)
      <3>1. CASE live.order[i] = last
        BY <3>1, <1>8
      <3>2. CASE live.order[i] # last
        <4>1. bindings'[live.order[i]] = bindings[live.order[i]]
          BY <2>2, <3>2, <1>1, <1>8, CurrentIsNew
        <4>2. QED BY <4>1, <2>2 DEF IInv, VisitedDecided
      <3>3. QED BY <3>1, <3>2
    <2>3. QED BY <2>1, <2>2, <1>1, VisitedAfter
  <1>17. QED BY <1>10, <1>12, <1>13, <1>14, <1>15, <1>16 DEF IInv

LEMMA SpillCurrentKeepsInvariant ==
  ASSUME IInv, SpillCurrent
  PROVE  IInv'
  <1>1. /\ ScanTyped /\ Scanning /\ next' = next + 1
        /\ UNCHANGED <<live, active, freeRegs, constraints>>
        /\ bindings' = [bindings EXCEPT ![Current] = RA_SPILL_REQUIRED]
    BY DEF IInv, SpillCurrent
  <1>2. RA_SPILL_REQUIRED \notin Regs
    BY RegsAssumption DEF RA_SPILL_REQUIRED
  <1>3. /\ Current \in Temps
        /\ bindings'[Current] = RA_SPILL_REQUIRED
        /\ \A t \in Temps : t # Current => bindings'[t] = bindings[t]
    BY <1>1, CurrentIsNew DEF ScanTyped
  <1>4. \A k \in DOMAIN active :
          active[k] # Current /\ active[k] \in Temps /\ bindings'[active[k]] = bindings[active[k]]
    BY <1>1, <1>3, CurrentIsNew DEF IInv, ActiveVisited, ScanTyped
  <1>5. ScanTyped'
    BY <1>1, <1>3, VisitedAfter DEF ScanTyped, ListTyped
  <1>6. ActiveVisited'
    BY <1>1, <1>4, VisitedAfter DEF IInv, ActiveVisited
  <1>7. RegistersConserved'
    BY <1>1, <1>4 DEF IInv, RegistersConserved
  <1>8. ASSUME NEW i \in 1..(next' - 1), bindings'[live.order[i]] \in Regs
        PROVE  i \in 1..(next - 1) /\ bindings'[live.order[i]] = bindings[live.order[i]]
    <2>1. i # next
      BY <1>8, <1>2, <1>3 DEF Current
    <2>2. i \in 1..(next - 1)
      BY <2>1, <1>1, VisitedAfter
    <2>3. QED BY <2>2, <1>1, <1>3, CurrentIsNew
  <1>9. InactiveEnded'
    <2> SUFFICES ASSUME NEW i \in 1..(next' - 1), NEW j \in DOMAIN live.order,
                        next' <= j, bindings'[live.order[i]] \in Regs,
                        \A l \in DOMAIN active : active[l] # live.order[i]
                 PROVE  EndOf(live.order[i]) <= StartOf(live.order[j])
      BY <1>1 DEF InactiveEnded, EndOf, StartOf
    <2>1. live.order \in Seq(Temps) /\ next \in Nat
      BY <1>1, ListFacts
    <2>2. next <= j
      BY <2>1, <1>1
    <2>3. QED BY <2>2, <1>8 DEF IInv, InactiveEnded
  <1>10. NoSharedRegister'
    <2> SUFFICES ASSUME NEW i \in 1..(next' - 1), NEW j \in 1..(next' - 1), i < j,
                        bindings'[live.order[i]] = bindings'[live.order[j]],
                        bindings'[live.order[i]] \in Regs
                 PROVE  EndOf(live.order[i]) <= StartOf(live.order[j])
      BY <1>1 DEF NoSharedRegister, EndOf, StartOf
    <2>1. QED BY <1>8 DEF IInv, NoSharedRegister
  <1>11. VisitedDecided'
    <2> SUFFICES ASSUME NEW i \in 1..(next' - 1)
                 PROVE  bindings'[live.order[i]] \in Regs \union {RA_SPILL_REQUIRED}
      BY <1>1 DEF VisitedDecided
    <2>1. CASE i = next
      BY <2>1, <1>3 DEF Current
    <2>2. CASE i \in 1..(next - 1)
      BY <2>2, <1>1, <1>3, CurrentIsNew DEF IInv, VisitedDecided
    <2>3. QED BY <2>1, <2>2, <1>1, VisitedAfter
  <1>12. QED BY <1>5, <1>6, <1>7, <1>9, <1>10, <1>11 DEF IInv

LEMMA StutterKeepsInvariant ==
  ASSUME IInv, UNCHANGED vars
  PROVE  IInv'
  <1>1. ScanTyped'
    BY DEF IInv, vars, ScanTyped, ListTyped
  <1>2. /\ ActiveVisited' /\ RegistersConserved' /\ InactiveEnded' /\ NoSharedRegister'
        /\ VisitedDecided'
    BY DEF IInv, vars, VisitedDecided, ActiveVisited, RegistersConserved, InactiveEnded, NoSharedRegister,
           EndOf, StartOf
  <1>3. QED BY <1>1, <1>2 DEF IInv

LEMMA StepKeepsInvariant ==
  ASSUME IInv, [Next]_vars
  PROVE  IInv'
  BY ExpireKeepsInvariant, AssignKeepsInvariant, SpillLastKeepsInvariant,
     SpillCurrentKeepsInvariant, StutterKeepsInvariant DEF Next, Finished

-----------------------------------------------------------------------------
(* The theorems *)

\* The invariant holds in every state of every scan.
THEOREM InvariantCorrect == Spec => []IInv
  <1>1. Init => IInv
    BY InitInvariant
  <1>2. IInv /\ [Next]_vars => IInv'
    BY StepKeepsInvariant
  <1>3. QED BY <1>1, <1>2, PTL DEF Spec

\* Whatever the intervals and the register file, two temporaries whose live
\* intervals overlap never get the same register (executeLinearScan).
THEOREM NoSharing == Spec => []NoSharedRegister
  <1>1. IInv => NoSharedRegister
    BY DEF IInv
  <1>2. QED BY <1>1, InvariantCorrect, PTL

\* No register is lost from the free list, nor held by two active intervals, on
\* any path through expiry, assignment, take-over and spilling.
THEOREM Conservation == Spec => []RegistersConserved
  <1>1. IInv => RegistersConserved
    BY DEF IInv
  <1>2. QED BY <1>1, InvariantCorrect, PTL

-----------------------------------------------------------------------------
(* The constraints *)

\* Preferences reorder the registers an interval may have: none is added, none
\* is lost.
ConstraintsPermuted ==
  \A t \in Temps :
    /\ \A k \in DOMAIN constraints[t] :
         \E l \in DOMAIN live.mcRegs[t] : live.mcRegs[t][l] = constraints[t][k]
    /\ \A l \in DOMAIN live.mcRegs[t] :
         \E k \in DOMAIN constraints[t] : constraints[t][k] = live.mcRegs[t][l]

ConstraintsTyped == live \in IntervalLists /\ constraints \in [Temps -> Seq(Regs)]

CInv == ConstraintsTyped /\ ConstraintsPermuted /\ RespectsConstraints

LEMMA InitConstraints == Init => CInv
  BY InputsAssumption
  DEF Init, CInv, ConstraintsTyped, WellFormed, IntervalLists, ConstraintsPermuted,
      RespectsConstraints

\* A step that gives the current interval a register of its constraints, and
\* otherwise only spills, keeps the invariant.
LEMMA BindKeepsConstraints ==
  ASSUME IInv, CInv, Scanning, next' = next + 1, UNCHANGED <<live, constraints>>,
         \A t \in Temps : \/ t # Current /\ bindings'[t] = bindings[t]
                          \/ bindings'[t] \notin Regs
                          \/ t = Current /\ \E k \in DOMAIN constraints[t] :
                                              constraints[t][k] = bindings'[t]
  PROVE  CInv'
  <1>1. ScanTyped
    BY DEF IInv
  <1>2. ConstraintsTyped' /\ ConstraintsPermuted'
    BY DEF CInv, ConstraintsTyped, ConstraintsPermuted
  <1>3. ASSUME NEW i \in 1..(next' - 1), bindings'[live.order[i]] \in Regs
        PROVE  \E k \in DOMAIN live.mcRegs[live.order[i]] :
                 live.mcRegs[live.order[i]][k] = bindings'[live.order[i]]
    <2>1. live.order[i] \in Temps
      BY <1>1, VisitedAfter, ListFacts
    <2>2. CASE \E k \in DOMAIN constraints[live.order[i]] :
                 constraints[live.order[i]][k] = bindings'[live.order[i]]
      BY <2>1, <2>2 DEF CInv, ConstraintsPermuted
    <2>3. CASE live.order[i] # Current /\ bindings'[live.order[i]] = bindings[live.order[i]]
      <3>1. i \in 1..(next - 1)
        BY <2>3, <1>1, VisitedAfter DEF Current
      <3>2. QED BY <3>1, <2>3, <1>3 DEF CInv, RespectsConstraints
    <2>4. QED BY <2>1, <2>2, <2>3, <1>3
  <1>4. QED BY <1>2, <1>3 DEF CInv, RespectsConstraints

LEMMA StepKeepsConstraints ==
  ASSUME IInv, CInv, [Next]_vars
  PROVE  CInv'
  <1>1. ScanTyped
    BY DEF IInv
  <1>2. ASSUME ExpireOldInterval
        PROVE  CInv'
    <2>1. Current \in Temps /\ UNCHANGED <<live, next, bindings>>
      BY <1>1, <1>2, CurrentIsNew DEF ExpireOldInterval
    <2>2. CASE UNCHANGED constraints
      BY <2>1, <2>2 DEF CInv, ConstraintsTyped, ConstraintsPermuted, RespectsConstraints
    <2>3. CASE \E k \in DOMAIN constraints[Current] :
                 constraints' = [constraints EXCEPT ![Current] = MoveToFront(@, k)]
      <3>1. PICK k \in DOMAIN constraints[Current] :
              constraints' = [constraints EXCEPT ![Current] = MoveToFront(@, k)]
        BY <2>3
      <3>2. constraints \in [Temps -> Seq(Regs)]
        BY DEF CInv, ConstraintsTyped
      <3>3. /\ constraints'[Current] = MoveToFront(constraints[Current], k)
            /\ \A t \in Temps : t # Current => constraints'[t] = constraints[t]
        BY <3>1, <3>2, <2>1
      <3>4. /\ DOMAIN constraints'[Current] = DOMAIN constraints[Current]
            /\ \A i \in DOMAIN constraints[Current] :
                 \E j \in DOMAIN constraints[Current] :
                   constraints'[Current][i] = constraints[Current][j]
            /\ \A i \in DOMAIN constraints[Current] :
                 \E j \in DOMAIN constraints[Current] :
                   constraints'[Current][j] = constraints[Current][i]
        <4>1. constraints[Current] \in Seq(Regs)
          BY <3>2, <2>1
        <4>2. DOMAIN MoveToFront(constraints[Current], k) = DOMAIN constraints[Current]
          BY <4>1 DEF MoveToFront
        <4>3. /\ \A i \in DOMAIN constraints[Current] :
                   \E j \in DOMAIN constraints[Current] :
                     MoveToFront(constraints[Current], k)[i] = constraints[Current][j]
              /\ \A i \in DOMAIN constraints[Current] :
                   \E j \in DOMAIN constraints[Current] :
                     MoveToFront(constraints[Current], k)[j] = constraints[Current][i]
          BY <4>1, MoveToFrontProperties
        <4>4. QED BY <4>2, <4>3, <3>3
      <3>5. ConstraintsPermuted'
        <4> SUFFICES ASSUME NEW t \in Temps
                     PROVE  /\ \A i \in DOMAIN constraints'[t] :
                                 \E l \in DOMAIN live.mcRegs[t] :
                                   live.mcRegs[t][l] = constraints'[t][i]
                            /\ \A l \in DOMAIN live.mcRegs[t] :
                                 \E i \in DOMAIN constraints'[t] :
                                   constraints'[t][i] = live.mcRegs[t][l]
          BY <2>1 DEF ConstraintsPermuted
        <4>1. CASE t = Current
          BY <4>1, <3>4 DEF CInv, ConstraintsPermuted
        <4>2. CASE t # Current
          BY <4>2, <3>3 DEF CInv, ConstraintsPermuted
        <4>3. QED BY <4>1, <4>2
      <3>6. ConstraintsTyped'
        <4>1. MoveToFront(constraints[Current], k) \in Seq(Regs)
          BY <3>2, <2>1, MoveToFrontProperties
        <4>2. QED BY <4>1, <3>1, <3>2, <2>1 DEF CInv, ConstraintsTyped
      <3>7. QED BY <3>5, <3>6, <2>1 DEF CInv, RespectsConstraints
    <2>4. QED BY <2>2, <2>3, <1>2 DEF ExpireOldInterval, PreferRegister
  <1>3. ASSUME AssignRegister
        PROVE  CInv'
    <2>1. PICK r \in Regs : FirstFree(r) /\ bindings' = [bindings EXCEPT ![Current] = r]
      BY <1>3 DEF AssignRegister
    <2>2. \A t \in Temps :
            \/ t # Current /\ bindings'[t] = bindings[t]
            \/ t = Current /\ \E k \in DOMAIN constraints[t] : constraints[t][k] = bindings'[t]
      BY <2>1, <1>1 DEF FirstFree, ScanTyped
    <2>3. QED BY <2>2, <1>3, BindKeepsConstraints DEF AssignRegister
  <1>4. ASSUME SpillLast
        PROVE  CInv'
    <2>1. /\ active # <<>> /\ Scanning
          /\ \E k \in DOMAIN constraints[Current] :
               constraints[Current][k] = bindings[active[Len(active)]]
          /\ bindings' = [bindings EXCEPT ![Current] = bindings[active[Len(active)]],
                                          ![active[Len(active)]] = RA_SPILL_REQUIRED]
      BY <1>4 DEF SpillLast, CanTakeOver
    <2>2. active[Len(active)] # Current
      <3>1. Len(active) \in DOMAIN active
        BY <2>1, <1>1 DEF ScanTyped
      <3>2. QED BY <3>1, <2>1, <1>1, CurrentIsNew DEF IInv, ActiveVisited
    <2>3. RA_SPILL_REQUIRED \notin Regs
      BY RegsAssumption DEF RA_SPILL_REQUIRED
    <2>4. \A t \in Temps :
            \/ t # Current /\ bindings'[t] = bindings[t]
            \/ bindings'[t] \notin Regs
            \/ t = Current /\ \E k \in DOMAIN constraints[t] : constraints[t][k] = bindings'[t]
      BY <2>1, <2>2, <2>3, <1>1 DEF ScanTyped
    <2>5. QED BY <2>4, <1>4, BindKeepsConstraints DEF SpillLast
  <1>5. ASSUME SpillCurrent
        PROVE  CInv'
    <2>1. RA_SPILL_REQUIRED \notin Regs
      BY RegsAssumption DEF RA_SPILL_REQUIRED
    <2>2. \A t \in Temps :
            \/ t # Current /\ bindings'[t] = bindings[t]
            \/ bindings'[t] \notin Regs
      BY <2>1, <1>1, <1>5 DEF ScanTyped, SpillCurrent
    <2>3. QED BY <2>2, <1>5, BindKeepsConstraints DEF SpillCurrent
  <1>6. ASSUME UNCHANGED vars
        PROVE  CInv'
    BY <1>6 DEF vars, CInv, ConstraintsTyped, ConstraintsPermuted, RespectsConstraints
  <1>7. QED BY <1>2, <1>3, <1>4, <1>5, <1>6 DEF Next, Finished

\* Every register the scan hands out, by assignment or by take-over, is one
\* that newRegAllocator allowed for the interval.
THEOREM ConstraintsRespected == Spec => []RespectsConstraints
  <1>1. Init => CInv
    BY InitConstraints
  <1>2. IInv /\ CInv /\ [Next]_vars => CInv'
    BY StepKeepsConstraints
  <1>3. CInv => RespectsConstraints
    BY DEF CInv
  <1>4. QED BY <1>1, <1>2, <1>3, InvariantCorrect, PTL DEF Spec

\* Type correctness of the scan.
THEOREM TypeCorrect == Spec => []TypeOK
  <1>1. Init => CInv
    BY InitConstraints
  <1>2. IInv /\ CInv /\ [Next]_vars => CInv'
    BY StepKeepsConstraints
  <1>3. IInv /\ CInv => TypeOK
    BY DEF IInv, CInv, ScanTyped, ListTyped, ConstraintsTyped, TypeOK, WellFormed
  <1>4. QED BY <1>1, <1>2, <1>3, InvariantCorrect, PTL DEF Spec

-----------------------------------------------------------------------------
(* Spilling only under pressure *)

\* Inserting at the sorted place keeps a list of intervals sorted.
LEMMA SortedInsert ==
  ASSUME ScanTyped, NEW s \in Seq(Temps), NEW k, NEW t \in Temps, SortedPlace(s, t, k),
         \A i, j \in DOMAIN s : i < j => EndOf(s[i]) <= EndOf(s[j])
  PROVE  \A i, j \in DOMAIN Insert(s, k, t) :
           i < j => EndOf(Insert(s, k, t)[i]) <= EndOf(Insert(s, k, t)[j])
  <1> DEFINE n == Insert(s, k, t)
  <1>1. /\ k \in 1..(Len(s) + 1) /\ Len(s) \in Nat
        /\ DOMAIN s = 1..Len(s) /\ DOMAIN n = 1..(Len(s) + 1)
        /\ \A i \in DOMAIN s : s[i] \in Temps
    BY DEF SortedPlace, Insert
  <1>2. /\ \A u \in Temps : EndOf(u) \in Nat
        /\ \A i \in DOMAIN s : EndOf(s[i]) \in Nat
    BY <1>1, ListFacts
  <1>3. /\ \A i \in 1..(k - 1) : EndOf(s[i]) < EndOf(t)
        /\ k <= Len(s) => EndOf(s[k]) >= EndOf(t)
    BY DEF SortedPlace
  <1>4. \A i \in DOMAIN s : k <= i => EndOf(s[i]) >= EndOf(t)
    <2> SUFFICES ASSUME NEW i \in DOMAIN s, k <= i
                 PROVE  EndOf(s[i]) >= EndOf(t)
      OBVIOUS
    <2>1. k \in DOMAIN s /\ EndOf(s[k]) >= EndOf(t)
      BY <1>1, <1>3
    <2>2. EndOf(s[k]) <= EndOf(s[i])
      BY <2>1, <1>1, <1>2
    <2>3. QED BY <2>1, <2>2, <1>2
  <1>5. ASSUME NEW i \in DOMAIN n, NEW j \in DOMAIN n, i < j
        PROVE  EndOf(n[i]) <= EndOf(n[j])
    <2>1. /\ \/ i = k /\ n[i] = t
             \/ i < k /\ i \in DOMAIN s /\ n[i] = s[i]
             \/ i > k /\ i - 1 \in DOMAIN s /\ n[i] = s[i - 1]
          /\ \/ j = k /\ n[j] = t
             \/ j < k /\ j \in DOMAIN s /\ n[j] = s[j]
             \/ j > k /\ j - 1 \in DOMAIN s /\ n[j] = s[j - 1]
      <3>1. \A l \in DOMAIN n :
              \/ l = k /\ n[l] = t
              \/ l < k /\ l \in DOMAIN s /\ n[l] = s[l]
              \/ l > k /\ l - 1 \in DOMAIN s /\ n[l] = s[l - 1]
        BY <1>1, InsertElements
      <3> HIDE DEF n
      <3>2. QED BY <3>1
    <2> HIDE DEF n
    <2>2. CASE i = k
      <3>1. j - 1 \in DOMAIN s /\ n[j] = s[j - 1] /\ k <= j - 1
        BY <2>1, <2>2, <1>1, <1>5
      <3>2. n[i] = t
        BY <2>1, <2>2, <1>1
      <3>3. EndOf(s[j - 1]) >= EndOf(t) /\ EndOf(s[j - 1]) \in Nat /\ EndOf(t) \in Nat
        BY <3>1, <1>2, <1>4
      <3>4. QED BY <3>1, <3>2, <3>3
    <2>3. CASE i < k
      <3>1. CASE j = k
        <4>1. i \in 1..(k - 1) /\ n[i] = s[i] /\ n[j] = t
          BY <2>1, <2>3, <3>1, <1>1
        <4>2. QED BY <4>1, <1>1, <1>2, <1>3
      <3>2. CASE j < k
        BY <2>1, <2>3, <3>2, <1>1, <1>5
      <3>3. CASE j > k
        <4>1. n[i] = s[i] /\ i \in DOMAIN s /\ n[j] = s[j - 1] /\ j - 1 \in DOMAIN s /\ i < j - 1
          BY <2>1, <2>3, <3>3, <1>1
        <4>2. QED BY <4>1
      <3>4. QED BY <3>1, <3>2, <3>3, <1>1
    <2>4. CASE i > k
      <3>1. /\ n[i] = s[i - 1] /\ i - 1 \in DOMAIN s
            /\ n[j] = s[j - 1] /\ j - 1 \in DOMAIN s /\ i - 1 < j - 1
        BY <2>1, <2>4, <1>1, <1>5
      <3>2. QED BY <3>1
    <2>5. QED BY <2>2, <2>3, <2>4, <1>1
  <1>6. QED BY <1>5

LEMMA StepKeepsSorted ==
  ASSUME IInv, ActiveSorted, [Next]_vars
  PROVE  ActiveSorted'
  <1>1. ScanTyped /\ active \in Seq(Temps)
    BY DEF IInv, ScanTyped
  <1>2. CASE ExpireOldInterval
    <2>1. /\ active # <<>> /\ active' = Tail(active) /\ UNCHANGED live
      BY <1>2 DEF ExpireOldInterval
    <2>2. \A k \in DOMAIN active' : active'[k] = active[k + 1] /\ k + 1 \in DOMAIN active /\ k \in Nat
      BY <1>1, <2>1
    <2>3. QED BY <2>1, <2>2 DEF ActiveSorted, EndOf
  <1>3. CASE AssignRegister
    <2>1. Scanning /\ UNCHANGED live
      BY <1>3 DEF AssignRegister
    <2>2. PICK k \in 1..(Len(active) + 1) :
            SortedPlace(active, Current, k) /\ active' = Insert(active, k, Current)
      BY <1>3 DEF AssignRegister
    <2>3. Current \in Temps
      BY <2>1, <1>1, CurrentIsNew
    <2>4. \A i, j \in DOMAIN Insert(active, k, Current) :
            i < j => EndOf(Insert(active, k, Current)[i]) <= EndOf(Insert(active, k, Current)[j])
      BY <2>2, <2>3, <1>1, SortedInsert DEF ActiveSorted
    <2>5. QED BY <2>1, <2>2, <2>4 DEF ActiveSorted, EndOf
  <1>4. CASE SpillLast
    <2> DEFINE s == WithoutLast(active)
    <2>1. Scanning /\ active # <<>> /\ UNCHANGED live
      BY <1>4 DEF SpillLast
    <2>2. PICK k \in 1..Len(active) :
            SortedPlace(s, Current, k) /\ active' = Insert(s, k, Current)
      BY <1>4 DEF SpillLast
    <2>3. Current \in Temps
      BY <2>1, <1>1, CurrentIsNew
    <2>4. s \in Seq(Temps) /\ \A i, j \in DOMAIN s : i < j => EndOf(s[i]) <= EndOf(s[j])
      <3>1. s \in Seq(Temps) /\ \A i \in DOMAIN s : s[i] = active[i] /\ i \in DOMAIN active
        BY <2>1, <1>1, WithoutLastProperties
      <3> HIDE DEF s
      <3>2. QED BY <3>1 DEF ActiveSorted
    <2> HIDE DEF s
    <2>5. \A i, j \in DOMAIN Insert(s, k, Current) :
            i < j => EndOf(Insert(s, k, Current)[i]) <= EndOf(Insert(s, k, Current)[j])
      BY <2>2, <2>3, <2>4, <1>1, SortedInsert
    <2>6. QED BY <2>1, <2>2, <2>5 DEF ActiveSorted, EndOf
  <1>5. CASE SpillCurrent
    BY <1>5 DEF SpillCurrent, ActiveSorted, EndOf
  <1>6. CASE UNCHANGED vars
    BY <1>6 DEF vars, ActiveSorted, EndOf
  <1>7. QED BY <1>2, <1>3, <1>4, <1>5, <1>6 DEF Next, Finished

\* The active list is always sorted by end point, which is what lets the loop
\* of expireOldIntervals stop at the first interval that has not ended.
THEOREM Sorted == Spec => []ActiveSorted
  <1>1. Init => ActiveSorted
    BY DEF Init, ActiveSorted
  <1>2. IInv /\ ActiveSorted /\ [Next]_vars => ActiveSorted'
    BY StepKeepsSorted
  <1>3. QED BY <1>1, <1>2, InvariantCorrect, PTL DEF Spec

\* When none of its registers is free, each is held by an interval that is live past
\* its start: what has ended has been expired.
LEMMA NoneFreeIsPressed ==
  ASSUME IInv, CInv, ActiveSorted, Scanning, ExpiryDone, NoneFree
  PROVE  Pressed(Current)
  <1>1. ScanTyped /\ active \in Seq(Temps)
    BY DEF IInv, ScanTyped
  <1>2. Current \in Temps /\ \A i \in DOMAIN active : EndOf(active[i]) > StartOf(Current)
    <2>1. Current \in Temps /\ StartOf(Current) \in Nat
      BY <1>1, CurrentIsNew, ListFacts
    <2>2. ASSUME NEW i \in DOMAIN active
          PROVE  EndOf(active[i]) > StartOf(Current)
      <3>1. active # <<>> /\ Head(active) = active[1] /\ 1 \in DOMAIN active /\ i \in Nat /\ 1 <= i
        BY <1>1
      <3>2. ~(EndOf(active[1]) <= StartOf(Current))
        BY <3>1 DEF ExpiryDone, Expired
      <3>3. EndOf(active[1]) <= EndOf(active[i])
        <4>1. EndOf(active[1]) \in Nat
          BY <3>1, <1>1, ListFacts
        <4>2. CASE i = 1
          BY <4>1, <4>2
        <4>3. CASE i # 1
          BY <4>3, <3>1 DEF ActiveSorted
        <4>4. QED BY <4>2, <4>3
      <3>4. EndOf(active[1]) \in Nat /\ EndOf(active[i]) \in Nat
        BY <3>1, <1>1, ListFacts
      <3>5. QED BY <2>1, <3>2, <3>3, <3>4
    <2>3. QED BY <2>1, <2>2
  <1>3. ASSUME NEW l \in DOMAIN live.mcRegs[Current]
        PROVE  \E i \in 1..(next - 1) :
                 /\ bindings[live.order[i]] = live.mcRegs[Current][l]
                 /\ EndOf(live.order[i]) > StartOf(Current)
    <2>1. PICK k \in DOMAIN constraints[Current] :
            constraints[Current][k] = live.mcRegs[Current][l]
      BY <1>2 DEF CInv, ConstraintsPermuted
    <2>2. constraints[Current][k] \in Regs
      BY <1>2 DEF CInv, ConstraintsTyped
    <2>3. PICK i \in DOMAIN active : bindings[active[i]] = constraints[Current][k]
      BY <2>2 DEF NoneFree, IInv, RegistersConserved
    <2>4. PICK j \in 1..(next - 1) : live.order[j] = active[i]
      BY DEF IInv, ActiveVisited
    <2>5. QED BY <2>1, <2>3, <2>4, <1>2
  <1>4. QED BY <1>3 DEF Pressed

\* The action of SpillsOnlyUnderPressure.
LEMMA SpillNeedsPressure ==
  ASSUME IInv, CInv, ActiveSorted, [Next]_vars,
         NEW t \in Temps, bindings[t] # RA_SPILL_REQUIRED, bindings'[t] = RA_SPILL_REQUIRED
  PROVE  Pressed(Current)
  <1>1. ScanTyped /\ active \in Seq(Temps)
    BY DEF IInv, ScanTyped
  <1>2. Scanning /\ ExpiryDone /\ NoneFree
    <2>1. ~ExpireOldInterval /\ ~UNCHANGED vars
      BY DEF ExpireOldInterval, vars
    <2>2. ~AssignRegister
      <3>1. ASSUME AssignRegister
            PROVE  FALSE
        <4>1. PICK r \in Regs : bindings' = [bindings EXCEPT ![Current] = r]
          BY <3>1 DEF AssignRegister
        <4>2. RA_SPILL_REQUIRED \notin Regs
          BY RegsAssumption DEF RA_SPILL_REQUIRED
        <4>3. QED BY <4>1, <4>2, <1>1 DEF ScanTyped
      <3>2. QED BY <3>1
    <2>3. QED BY <2>1, <2>2 DEF Next, Finished, SpillLast, SpillCurrent
  <1>3. QED BY <1>2, NoneFreeIsPressed

\* An interval is spilled only when every register it may have is held by an
\* interval that is live past its start.
THEOREM SpillPressure == Spec => SpillsOnlyUnderPressure
  <1>1. IInv /\ CInv /\ ActiveSorted /\ [Next]_vars
          => [(\E t \in Temps : bindings[t] # RA_SPILL_REQUIRED /\ bindings'[t] = RA_SPILL_REQUIRED)
                => Pressed(Current)]_vars
    BY SpillNeedsPressure
  <1>2. Init => CInv
    BY InitConstraints
  <1>3. IInv /\ CInv /\ [Next]_vars => CInv'
    BY StepKeepsConstraints
  <1>4. QED BY <1>1, <1>2, <1>3, InvariantCorrect, Sorted, PTL DEF Spec, SpillsOnlyUnderPressure

===============================================================================
