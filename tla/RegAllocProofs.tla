---------------------------- MODULE RegAllocProofs ----------------------------
(***************************************************************************)
(* For every program whose temporaries are written before they are read,   *)
(* and every register file, no two temporaries that are needed at the same *)
(* moment are left in one register.  If its calls are as fixSyscalls       *)
(* leaves them, their operands are where the environment takes them from   *)
(* and what is needed after a call survives it.                            *)
(*                                                                         *)
(* The proof joins three: the sets of the sweeps are what is live          *)
(* (first, for every program whose labels are placed), the intervals cover *)
(* the sets, and the linear scan keeps overlapping intervals apart         *)
(* (LinearScanProofs, taken with the registers of the target and the list  *)
(* left by the analyses).                                                  *)
(***************************************************************************)
EXTENDS RegAlloc, SequenceTheorems, FiniteSetTheorems, WellFoundedInduction, TLAPS

-----------------------------------------------------------------------------
(* Induction over the naturals, for a set *)

NatLess == {ss \in Nat \X Nat : ss[1] < ss[2]}

LEMMA NatLessWellFounded == IsWellFoundedOn(NatLess, Nat)
  <1>1. OpToRel(<, Nat) = NatLess
    BY Zenon DEF OpToRel, NatLess
  <1> HIDE DEF OpToRel, NatLess
  <1>2. QED BY <1>1, NatLessThanWellFounded, Zenon

\* A set that holds 0 and with each natural the next one holds them all.
LEMMA InductiveSet ==
  ASSUME NEW S, 0 \in S, \A n \in Nat : n \in S => n + 1 \in S
  PROVE  \A n \in Nat : n \in S
  <1> DEFINE T == Nat \ S
  <1> SUFFICES ASSUME T # {} PROVE FALSE
    OBVIOUS
  <1>1. T \in SUBSET Nat
    OBVIOUS
  <1>2. PICK x \in T : \A y \in T : ~ (<<y, x>> \in NatLess)
    <2> HIDE DEF T, NatLess
    <2>1. QED BY <1>1, NatLessWellFounded, WFMin, Zenon
  <1>3. x - 1 \in Nat /\ <<x - 1, x>> \in NatLess
    BY DEF NatLess
  <1>4. x - 1 \in S
    BY <1>2, <1>3
  <1>5. QED BY <1>3, <1>4

-----------------------------------------------------------------------------
(* The recursive function behind LiveTable *)

\* A path one instruction longer.
Longer(prg, readers) == readers \union Backwards(prg, Edges(prg), readers)

\* h is the function of Within up to n.
WithinUpTo(prg, h, n) ==
  h = [i \in 0..n |-> IF i = 0 THEN Readers(prg) ELSE Longer(prg, h[i - 1])]

LEMMA WithinUpToExists ==
  ASSUME NEW prg
  PROVE  \A n \in Nat : \E h : WithinUpTo(prg, h, n)
  <1> DEFINE S == {n \in Nat : \E h : WithinUpTo(prg, h, n)}
  <1>1. 0 \in S
    <2> DEFINE h == [i \in 0..0 |-> Readers(prg)]
    <2>1. WithinUpTo(prg, h, 0)
      BY DEF WithinUpTo
    <2>2. QED BY <2>1
  <1>2. ASSUME NEW n \in Nat, n \in S
        PROVE  n + 1 \in S
    <2>1. PICK h : WithinUpTo(prg, h, n)
      BY <1>2
    <2> DEFINE g == [i \in 0..(n + 1) |-> IF i = 0 THEN Readers(prg) ELSE Longer(prg, h[i - 1])]
    <2>2. \A i \in 0..n : h[i] = IF i = 0 THEN Readers(prg) ELSE Longer(prg, h[i - 1])
      BY <2>1, Zenon DEF WithinUpTo
    <2>3. \A i \in 0..n : g[i] = h[i]
      BY <2>2
    <2>4. \A i \in 0..(n + 1) : (IF i = 0 THEN Readers(prg) ELSE Longer(prg, h[i - 1]))
                              = (IF i = 0 THEN Readers(prg) ELSE Longer(prg, g[i - 1]))
      <3> SUFFICES ASSUME NEW i \in 0..(n + 1), i # 0
                   PROVE  h[i - 1] = g[i - 1]
        OBVIOUS
      <3> HIDE DEF g
      <3>1. QED BY <2>3
    <2>5. WithinUpTo(prg, g, n + 1)
      BY <2>4, Zenon DEF WithinUpTo
    <2> HIDE DEF g
    <2>6. QED BY <2>5
  <1> HIDE DEF S
  <1>3. \A n \in Nat : n \in S
    BY <1>1, <1>2, InductiveSet
  <1>4. QED BY <1>3 DEF S

LEMMA WithinUpToUnique ==
  ASSUME NEW prg, NEW m \in Nat, NEW n \in Nat, NEW g, NEW h,
         WithinUpTo(prg, g, m), WithinUpTo(prg, h, n),
         NEW i \in 0..m, i \in 0..n
  PROVE  g[i] = h[i]
  <1> DEFINE S == {j \in Nat : j <= m /\ j <= n => g[j] = h[j]}
  <1>1. \A j \in 0..m : g[j] = IF j = 0 THEN Readers(prg) ELSE Longer(prg, g[j - 1])
    BY Zenon DEF WithinUpTo
  <1>2. \A j \in 0..n : h[j] = IF j = 0 THEN Readers(prg) ELSE Longer(prg, h[j - 1])
    BY Zenon DEF WithinUpTo
  <1>3. 0 \in S
    BY <1>1, <1>2
  <1>4. ASSUME NEW j \in Nat, j \in S
        PROVE  j + 1 \in S
    <2> SUFFICES ASSUME j + 1 <= m, j + 1 <= n
                 PROVE  g[j + 1] = h[j + 1]
      OBVIOUS
    <2>1. g[j] = h[j]
      BY <1>4
    <2>2. j + 1 \in 0..m /\ j + 1 \in 0..n /\ j + 1 # 0 /\ (j + 1) - 1 = j
      OBVIOUS
    <2>3. g[j + 1] = Longer(prg, g[j]) /\ h[j + 1] = Longer(prg, h[j])
      BY <1>1, <1>2, <2>2
    <2>4. QED BY <2>1, <2>3
  <1> HIDE DEF S
  <1>5. i \in S
    BY <1>3, <1>4, InductiveSet
  <1>6. QED BY <1>5 DEF S

\* Within is what its definition says.
LEMMA WithinUnfolds ==
  ASSUME NEW prg
  PROVE  /\ Within(prg)[0] = Readers(prg)
         /\ \A n \in Nat : Within(prg)[n + 1] = Longer(prg, Within(prg)[n])
  <1> DEFINE upTo(n) == CHOOSE h : WithinUpTo(prg, h, n)
             f == [n \in Nat |-> upTo(n)[n]]
  <1>1. \A n \in Nat : WithinUpTo(prg, upTo(n), n)
    BY WithinUpToExists
  <1>2. \A n \in Nat : \A i \in 0..n :
          upTo(n)[i] = IF i = 0 THEN Readers(prg) ELSE Longer(prg, upTo(n)[i - 1])
    <2> SUFFICES ASSUME NEW n \in Nat, NEW i \in 0..n
                 PROVE  upTo(n)[i] = IF i = 0 THEN Readers(prg) ELSE Longer(prg, upTo(n)[i - 1])
      OBVIOUS
    <2> DEFINE h == upTo(n)
    <2>1. WithinUpTo(prg, h, n)
      BY <1>1
    <2> HIDE DEF h
    <2>2. h = [j \in 0..n |-> IF j = 0 THEN Readers(prg) ELSE Longer(prg, h[j - 1])]
      BY <2>1, Zenon DEF WithinUpTo
    <2>3. h[i] = IF i = 0 THEN Readers(prg) ELSE Longer(prg, h[i - 1])
      BY <2>2, Zenon
    <2>4. QED BY <2>3 DEF h
  <1>3. ASSUME NEW n \in Nat, n # 0
        PROVE  f[n] = Longer(prg, f[n - 1])
    <2> HIDE DEF upTo
    <2>1. n - 1 \in Nat /\ n - 1 \in 0..n /\ n - 1 \in 0..(n - 1)
      BY <1>3
    <2>2. upTo(n)[n] = Longer(prg, upTo(n)[n - 1])
      BY <1>2, <1>3
    <2>3. upTo(n)[n - 1] = upTo(n - 1)[n - 1]
      BY <1>1, <2>1, WithinUpToUnique
    <2>4. f[n] = upTo(n)[n] /\ f[n - 1] = upTo(n - 1)[n - 1]
      BY <2>1
    <2>5. QED BY <2>2, <2>3, <2>4
  <1>4. f[0] = Readers(prg)
    BY <1>2
  <1> HIDE DEF f, upTo
  <1>5. f = [n \in Nat |-> IF n = 0 THEN Readers(prg) ELSE Longer(prg, f[n - 1])]
    <2>1. f = [n \in Nat |-> f[n]]
      BY DEF f
    <2>2. \A n \in Nat : f[n] = IF n = 0 THEN Readers(prg) ELSE Longer(prg, f[n - 1])
      BY <1>3, <1>4
    <2>3. QED BY <2>1, <2>2, Zenon
  <1> DEFINE W == Within(prg)
  <1>6. W = [n \in Nat |-> IF n = 0 THEN Readers(prg) ELSE Longer(prg, W[n - 1])]
    BY <1>5, Zenon DEF Within, Longer
  <1> HIDE DEF W
  <1>7. \A n \in Nat : W[n] = IF n = 0 THEN Readers(prg) ELSE Longer(prg, W[n - 1])
    BY <1>6, Zenon
  <1>8. W[0] = Readers(prg)
    BY <1>7
  <1>9. ASSUME NEW n \in Nat PROVE W[n + 1] = Longer(prg, W[n])
    <2>1. n + 1 \in Nat /\ n + 1 # 0 /\ (n + 1) - 1 = n
      OBVIOUS
    <2>2. QED BY <1>7, <2>1
  <1>10. QED BY <1>8, <1>9 DEF W

-----------------------------------------------------------------------------
(* LiveTable is the least solution of the equations of liveness *)

LEMMA ProgramFacts ==
  ASSUME NEW prg \in Seq(Instructions)
  PROVE  /\ Len(prg) \in Nat /\ DOMAIN prg = 1..Len(prg)
         /\ \A k \in DOMAIN prg : prg[k] \in Instructions
         /\ \A k \in DOMAIN prg : Flow(prg, k) \subseteq DOMAIN prg \union {End(prg)}
  <1>1. Len(prg) \in Nat /\ DOMAIN prg = 1..Len(prg) /\ \A k \in DOMAIN prg : prg[k] \in Instructions
    OBVIOUS
  <1>2. ASSUME NEW k \in DOMAIN prg PROVE Flow(prg, k) \subseteq DOMAIN prg \union {End(prg)}
    <2>1. Labelled(prg, prg[k].addressParam) \subseteq DOMAIN prg
      BY DEF Labelled
    <2>2. {k + 1} \subseteq DOMAIN prg \union {End(prg)}
      BY <1>1 DEF End
    <2>3. QED BY <2>1, <2>2 DEF Flow, End
  <1>3. QED BY <1>1, <1>2

\* The instructions from which a path of at most n + 1 instructions reads t.
ReadWithin(prg, t, n) == {k \in DOMAIN prg : \E x \in Within(prg)[n] : x[1] = k /\ x[2] = t}

\* The instructions of S and those from which one edge leads to S without
\* overwriting t.
OneBack(prg, t, S) ==
  S \union {k \in DOMAIN prg : t \notin Defs(prg[k]) /\ \E j \in S : <<k, j>> \in Edges(prg)}

LEMMA ReadWithinUnfolds ==
  ASSUME NEW prg, NEW t, NEW n \in Nat
  PROVE  ReadWithin(prg, t, n + 1) = OneBack(prg, t, ReadWithin(prg, t, n))
  <1> DEFINE W == Within(prg)[n]
             V == Within(prg)[n + 1]
  <1>1. V = W \union Backwards(prg, Edges(prg), W)
    BY WithinUnfolds DEF Longer
  <1>2. \A e \in Edges(prg) : e[1] \in DOMAIN prg /\ e[2] \in DOMAIN prg /\ e = <<e[1], e[2]>>
    BY DEF Edges
  <1>3. ASSUME NEW k \in DOMAIN prg, NEW x \in Backwards(prg, Edges(prg), W), x[1] = k, x[2] = t
        PROVE  k \in OneBack(prg, t, ReadWithin(prg, t, n))
    <2>1. PICK e \in Edges(prg), l \in W :
            /\ l[1] = e[2] /\ l[2] \notin Defs(prg[e[1]])
            /\ x = <<e[1], l[2]>>
      BY <1>3 DEF Backwards
    <2>2. e[1] = k /\ l[2] = t
      BY <2>1, <1>3
    <2>3. e[2] \in ReadWithin(prg, t, n) /\ e = <<k, e[2]>>
      BY <2>1, <2>2, <1>2 DEF ReadWithin
    <2>4. QED BY <2>1, <2>2, <2>3 DEF OneBack
  <1>4. ASSUME NEW k \in DOMAIN prg, t \notin Defs(prg[k]),
               NEW j \in ReadWithin(prg, t, n), <<k, j>> \in Edges(prg)
        PROVE  \E x \in V : x[1] = k /\ x[2] = t
    <2>1. PICK l \in W : l[1] = j /\ l[2] = t
      BY <1>4 DEF ReadWithin
    <2> DEFINE e == <<k, j>>
    <2>2. e \in Edges(prg) /\ e[1] = k /\ e[2] = j
      BY <1>4
    <2>3. l \in {y \in W : y[1] = e[2] /\ y[2] \notin Defs(prg[e[1]])}
      BY <2>1, <2>2, <1>4
    <2> HIDE DEF e
    <2>4. <<e[1], l[2]>> \in Backwards(prg, Edges(prg), W)
      BY <2>2, <2>3 DEF Backwards
    <2>5. <<e[1], l[2]>>[1] = k /\ <<e[1], l[2]>>[2] = t
      BY <2>1, <2>2
    <2>6. QED BY <2>4, <2>5, <1>1
  <1>5. ReadWithin(prg, t, n) \subseteq ReadWithin(prg, t, n + 1)
    BY <1>1 DEF ReadWithin
  <1>6. ReadWithin(prg, t, n + 1) \subseteq OneBack(prg, t, ReadWithin(prg, t, n))
    <2>1. SUFFICES ASSUME NEW k \in DOMAIN prg, NEW x \in V, x[1] = k, x[2] = t
                   PROVE  k \in OneBack(prg, t, ReadWithin(prg, t, n))
      BY DEF ReadWithin
    <2>2. CASE x \in W
      BY <2>1, <2>2 DEF ReadWithin, OneBack
    <2>3. CASE x \in Backwards(prg, Edges(prg), W)
      BY <2>1, <2>3, <1>3
    <2>4. QED BY <2>1, <2>2, <2>3, <1>1
  <1>7. OneBack(prg, t, ReadWithin(prg, t, n)) \subseteq ReadWithin(prg, t, n + 1)
    <2>1. SUFFICES ASSUME NEW k \in DOMAIN prg, t \notin Defs(prg[k]),
                          NEW j \in ReadWithin(prg, t, n), <<k, j>> \in Edges(prg)
                   PROVE  k \in ReadWithin(prg, t, n + 1)
      BY <1>5 DEF OneBack
    <2>2. QED BY <2>1, <1>4 DEF ReadWithin
  <1>8. QED BY <1>6, <1>7

\* A path that reads t need not pass an instruction twice: from one length on
\* nothing is added, and that length is at most the number of instructions.
LEMMA PathsAreShort ==
  ASSUME NEW prg \in Seq(Instructions), NEW t
  PROVE  OneBack(prg, t, ReadWithin(prg, t, Len(prg))) = ReadWithin(prg, t, Len(prg))
  <1> DEFINE R(n) == ReadWithin(prg, t, n)
             closed(n) == OneBack(prg, t, R(n)) = R(n)
             S == {n \in Nat : closed(n) \/ Cardinality(R(n)) >= n}
             N == Len(prg)
  <1>1. /\ N \in Nat /\ DOMAIN prg = 1..N
        /\ IsFiniteSet(1..N) /\ Cardinality(1..N) = N
    <2>1. N \in Nat /\ DOMAIN prg = 1..N
      OBVIOUS
    <2> HIDE DEF N
    <2>2. QED BY <2>1, FS_Interval
  <1>2. \A n \in Nat : R(n + 1) = OneBack(prg, t, R(n))
    BY ReadWithinUnfolds
  <1>3. \A n : R(n) \in SUBSET (1..N)
    BY <1>1 DEF ReadWithin
  <1> HIDE DEF R, N
  <1>4. \A n : IsFiniteSet(R(n)) /\ Cardinality(R(n)) \in Nat
    BY <1>1, <1>3, FS_Subset, FS_CardinalityType
  <1>5. 0 \in S
    BY <1>4
  <1>6. ASSUME NEW n \in Nat, n \in S
        PROVE  n + 1 \in S
    <2>1. R(n + 1) = OneBack(prg, t, R(n)) /\ R(n) \subseteq R(n + 1)
      BY <1>2 DEF OneBack
    <2>2. CASE closed(n)
      BY <2>1, <2>2
    <2>3. CASE ~closed(n)
      <3>1. Cardinality(R(n)) >= n /\ R(n) # R(n + 1)
        BY <1>6, <2>1, <2>3
      <3>2. Cardinality(R(n)) <= Cardinality(R(n + 1)) /\ Cardinality(R(n)) # Cardinality(R(n + 1))
        BY <3>1, <2>1, <1>4, FS_Subset
      <3>3. Cardinality(R(n + 1)) >= n + 1
        BY <3>1, <3>2, <1>4
      <3>4. QED BY <3>3
    <2>4. QED BY <2>2, <2>3
  <1> HIDE DEF S
  <1>7. N \in S
    BY <1>1, <1>5, <1>6, InductiveSet
  <1>8. CASE Cardinality(R(N)) >= N
    <2>1. Cardinality(R(N)) <= N
      BY <1>1, <1>3, FS_Subset
    <2>2. R(N) = 1..N
      BY <1>1, <1>3, <1>4, <1>8, <2>1, FS_Subset
    <2>3. OneBack(prg, t, R(N)) \subseteq 1..N
      BY <1>1, <2>2 DEF OneBack
    <2>4. R(N) \subseteq OneBack(prg, t, R(N))
      BY DEF OneBack
    <2>5. QED BY <2>2, <2>3, <2>4 DEF R, N
  <1>9. QED BY <1>7, <1>8 DEF S, R, N

LEMMA LiveTableIsReadWithin ==
  ASSUME NEW prg, NEW k \in DOMAIN prg, NEW t
  PROVE  t \in LiveTable(prg)[k] <=> k \in ReadWithin(prg, t, Len(prg))
  BY DEF LiveTable, ReadWithin

\* What is read is live, and what is live after an instruction that does not
\* overwrite it is live before it.
LEMMA LiveTableSolves ==
  ASSUME NEW prg \in Seq(Instructions), NEW k \in DOMAIN prg
  PROVE  /\ Uses(prg[k]) \ {REG_0} \subseteq LiveTable(prg)[k]
         /\ LiveAfter(prg, LiveTable(prg), k) \ Defs(prg[k]) \subseteq LiveTable(prg)[k]
  <1> DEFINE N == Len(prg)
  <1>1. N \in Nat /\ DOMAIN prg = 1..N
    OBVIOUS
  <1>2. ASSUME NEW t \in Uses(prg[k]) \ {REG_0}
        PROVE  \A n \in Nat : k \in ReadWithin(prg, t, n)
    <2> DEFINE S == {n \in Nat : k \in ReadWithin(prg, t, n)}
    <2>1. <<k, t>> \in Readers(prg) /\ <<k, t>>[1] = k /\ <<k, t>>[2] = t
      BY DEF Readers
    <2>2. 0 \in S
      BY <2>1, WithinUnfolds DEF ReadWithin
    <2>3. \A n \in Nat : n \in S => n + 1 \in S
      BY ReadWithinUnfolds DEF OneBack
    <2> HIDE DEF S
    <2>4. \A n \in Nat : n \in S
      BY <2>2, <2>3, InductiveSet
    <2>5. QED BY <2>4 DEF S
  <1>3. Uses(prg[k]) \ {REG_0} \subseteq LiveTable(prg)[k]
    BY <1>1, <1>2, LiveTableIsReadWithin
  <1>4. ASSUME NEW t \in LiveAfter(prg, LiveTable(prg), k) \ Defs(prg[k])
        PROVE  t \in LiveTable(prg)[k]
    <2>1. PICK j \in Flow(prg, k) \ {End(prg)} : t \in LiveTable(prg)[j]
      BY DEF LiveAfter
    <2>2. j \in DOMAIN prg /\ <<k, j>> \in Edges(prg)
      BY <2>1, ProgramFacts DEF Edges
    <2>3. j \in ReadWithin(prg, t, N)
      BY <2>1, <2>2, LiveTableIsReadWithin
    <2>4. k \in OneBack(prg, t, ReadWithin(prg, t, N))
      BY <2>2, <2>3 DEF OneBack
    <2>5. k \in ReadWithin(prg, t, N)
      BY <2>4, PathsAreShort
    <2>6. QED BY <2>5, LiveTableIsReadWithin
  <1>5. QED BY <1>3, <1>4

\* Every other table that satisfies this holds at least what LiveTable holds.
LEMMA LiveTableIsLeast ==
  ASSUME NEW prg \in Seq(Instructions), NEW table,
         \A k \in DOMAIN prg : Uses(prg[k]) \ {REG_0} \subseteq table[k],
         \A k \in DOMAIN prg : \A j \in DOMAIN prg \intersect Flow(prg, k) :
           table[j] \ Defs(prg[k]) \subseteq table[k]
  PROVE  \A k \in DOMAIN prg : LiveTable(prg)[k] \subseteq table[k]
  <1> SUFFICES ASSUME NEW t
               PROVE  \A k \in DOMAIN prg : t \in LiveTable(prg)[k] => t \in table[k]
    OBVIOUS
  <1> DEFINE S == {n \in Nat : \A k \in ReadWithin(prg, t, n) : t \in table[k]}
  <1>1. 0 \in S
    <2> SUFFICES ASSUME NEW k \in ReadWithin(prg, t, 0)
                 PROVE  t \in table[k]
      OBVIOUS
    <2>1. k \in DOMAIN prg /\ \E x \in Readers(prg) : x[1] = k /\ x[2] = t
      BY WithinUnfolds DEF ReadWithin
    <2>2. t \in Uses(prg[k]) \ {REG_0}
      BY <2>1 DEF Readers
    <2>3. QED BY <2>1, <2>2
  <1>2. ASSUME NEW n \in Nat, n \in S
        PROVE  n + 1 \in S
    <2> SUFFICES ASSUME NEW k \in ReadWithin(prg, t, n + 1), k \notin ReadWithin(prg, t, n)
                 PROVE  t \in table[k]
      BY <1>2
    <2>1. k \in OneBack(prg, t, ReadWithin(prg, t, n))
      BY ReadWithinUnfolds
    <2>2. PICK j \in ReadWithin(prg, t, n) : k \in DOMAIN prg /\ t \notin Defs(prg[k]) /\ <<k, j>> \in Edges(prg)
      BY <2>1 DEF OneBack
    <2>3. j \in DOMAIN prg \intersect Flow(prg, k)
      BY <2>2 DEF Edges
    <2>4. t \in table[j]
      BY <1>2
    <2>5. QED BY <2>2, <2>3, <2>4
  <1> HIDE DEF S
  <1>3. Len(prg) \in S
    BY <1>1, <1>2, InductiveSet, ProgramFacts
  <1>4. QED BY <1>3, LiveTableIsReadWithin DEF S

LEMMA LiveTableTyped ==
  ASSUME NEW prg \in Seq(Instructions)
  PROVE  /\ DOMAIN LiveTable(prg) = DOMAIN prg
         /\ \A k \in DOMAIN prg : LiveTable(prg)[k] \subseteq TempsOf(prg) \ {REG_0}
  <1> DEFINE table == [k \in DOMAIN prg |-> TempsOf(prg) \ {REG_0}]
  <1>1. \A k \in DOMAIN prg : Uses(prg[k]) \ {REG_0} \subseteq table[k]
    BY DEF TempsOf
  <1>2. \A k \in DOMAIN prg : \A j \in DOMAIN prg \intersect Flow(prg, k) :
           table[j] \ Defs(prg[k]) \subseteq table[k]
    OBVIOUS
  <1>3. \A k \in DOMAIN prg : table[k] = TempsOf(prg) \ {REG_0}
    OBVIOUS
  <1> HIDE DEF table
  <1>4. \A k \in DOMAIN prg : LiveTable(prg)[k] \subseteq table[k]
    BY <1>1, <1>2, LiveTableIsLeast
  <1>5. DOMAIN LiveTable(prg) = DOMAIN prg
    BY DEF LiveTable
  <1>6. QED BY <1>3, <1>4, <1>5

-----------------------------------------------------------------------------
(* The control flow graph *)

\* A block starts at each label in it and is left at its end only.
Clean(block) ==
  /\ 1 <= block.first /\ block.first <= block.last
  /\ \A k \in (block.first + 1)..block.last : ~instrIsStartingNode(prog[k])
  /\ \A k \in block.first..(block.last - 1) : ~instrIsEndingNode(prog[k])

Blocks == [first : Nat, last : Nat]

\* The blocks in bl are the first n instructions of the program, cut before each
\* label and after each instruction that ends a block.
Partition(bl, n) ==
  /\ bl \in Seq(Blocks)
  /\ bl = <<>> <=> n = 0
  /\ n > 0 => bl[Len(bl)].last = n
  /\ \A b \in DOMAIN bl : Clean(bl[b]) /\ bl[b].last <= n
  /\ \A b \in DOMAIN bl : b < Len(bl) => bl[b + 1].first = bl[b].last + 1
  /\ \A b, c \in DOMAIN bl : b < c => bl[b].last < bl[c].first
  /\ \A k \in 1..n : \E b \in DOMAIN bl : k \in bl[b].first..bl[b].last

\* The edges of block b lead where its last instruction goes.
EdgesRight(b) == {FirstOf(c) : c \in succ[b]} = Flow(prog, blocks[b].last)

\* The invariant of the construction: what is done of it is right, and what is
\* left is untouched.
GraphInv ==
  /\ prog \in Programs
  /\ stage \in Stages
  /\ stage = "blocks" =>
       /\ cursor \in 1..(Len(prog) + 1)
       /\ Partition(blocks, cursor - 1)
       /\ open => blocks # <<>> /\ ~instrIsEndingNode(LastInstr(Len(blocks)))
       /\ succ = <<>>
  /\ stage # "blocks" =>
       /\ Partition(blocks, Len(prog))
       /\ succ \in [DOMAIN blocks -> SUBSET (DOMAIN blocks \union {endingBlock})]
  /\ stage = "edges" =>
       /\ cursor \in 1..(Len(blocks) + 1)
       /\ \A b \in 1..(cursor - 1) : EdgesRight(b)
       /\ \A b \in cursor..Len(blocks) : ~isExitInstruction(LastInstr(b)) => succ[b] = {}
  /\ stage \notin {"blocks", "edges"} => \A b \in DOMAIN blocks : EdgesRight(b)

LEMMA ProgFacts ==
  ASSUME prog \in Programs
  PROVE  /\ prog \in Seq(Instructions) /\ LabelsPlaced(prog)
         /\ Len(prog) \in Nat \ {0} /\ DOMAIN prog = 1..Len(prog)
         /\ \A k \in 1..Len(prog) : prog[k] \in Instructions
         /\ \A k \in 1..Len(prog) : Flow(prog, k) \subseteq (1..Len(prog)) \union {End(prog)}
  <1>1. prog \in Seq(Instructions) /\ LabelsPlaced(prog) /\ prog # <<>>
    BY ProgramsAssumption
  <1>2. Len(prog) \in Nat /\ DOMAIN prog = 1..Len(prog)
    BY <1>1
  <1>3. Len(prog) # 0
    BY <1>1, EmptySeq
  <1>4. QED BY <1>1, <1>2, <1>3, ProgramFacts

LEMMA PartitionFacts ==
  ASSUME NEW bl, NEW n \in Nat, Partition(bl, n)
  PROVE  /\ bl \in Seq(Blocks) /\ Len(bl) \in Nat /\ DOMAIN bl = 1..Len(bl)
         /\ Len(bl) = 0 <=> n = 0
         /\ \A b \in 1..Len(bl) : /\ bl[b] \in Blocks /\ bl[b].first \in 1..n /\ bl[b].last \in 1..n
                                  /\ bl[b].first <= bl[b].last /\ Clean(bl[b])
         /\ n > 0 => bl[Len(bl)].last = n
         /\ \A b \in 1..Len(bl) : b < Len(bl) => bl[b + 1].first = bl[b].last + 1
         /\ \A b, c \in 1..Len(bl) : b < c => bl[b].last < bl[c].first
         /\ \A k \in 1..n : \E b \in 1..Len(bl) : k \in bl[b].first..bl[b].last
  <1>1. bl \in Seq(Blocks) /\ (bl = <<>> <=> n = 0)
    BY DEF Partition
  <1>2. Len(bl) \in Nat /\ DOMAIN bl = 1..Len(bl) /\ \A b \in 1..Len(bl) : bl[b] \in Blocks
    BY <1>1
  <1>3. bl = <<>> <=> Len(bl) = 0
    BY <1>1, EmptySeq
  <1>4. ASSUME NEW b \in 1..Len(bl)
        PROVE  /\ bl[b] \in Blocks /\ bl[b].first \in 1..n /\ bl[b].last \in 1..n
               /\ bl[b].first <= bl[b].last /\ Clean(bl[b])
    <2>1. Clean(bl[b]) /\ bl[b].last <= n
      BY <1>2 DEF Partition
    <2>2. bl[b] \in Blocks /\ bl[b].first \in Nat /\ bl[b].last \in Nat
      BY <1>2 DEF Blocks
    <2>3. 1 <= bl[b].first /\ bl[b].first <= bl[b].last
      BY <2>1 DEF Clean
    <2>4. QED BY <2>1, <2>2, <2>3
  <1>5. QED BY <1>1, <1>2, <1>3, <1>4 DEF Partition

\* Appending instruction n + 1 as a block of its own.
LEMMA NewBlock ==
  ASSUME NEW bl, NEW n \in Nat, Partition(bl, n)
  PROVE  Partition(Append(bl, [first |-> n + 1, last |-> n + 1]), n + 1)
  <1> DEFINE e == [first |-> n + 1, last |-> n + 1]
             c == Append(bl, e)
             m == Len(bl)
  <1>1. /\ bl \in Seq(Blocks) /\ m \in Nat /\ DOMAIN bl = 1..m
        /\ m = 0 <=> n = 0
        /\ \A b \in 1..m : /\ bl[b].first \in 1..n /\ bl[b].last \in 1..n /\ Clean(bl[b])
        /\ n > 0 => bl[m].last = n
        /\ \A b \in 1..m : b < m => bl[b + 1].first = bl[b].last + 1
        /\ \A a, b \in 1..m : a < b => bl[a].last < bl[b].first
        /\ \A k \in 1..n : \E b \in 1..m : k \in bl[b].first..bl[b].last
    BY PartitionFacts
  <1>2. e \in Blocks /\ e.first = n + 1 /\ e.last = n + 1 /\ Clean(e)
    BY DEF Blocks, Clean
  <1> HIDE DEF e
  <1>3. /\ c \in Seq(Blocks) /\ Len(c) = m + 1 /\ DOMAIN c = 1..(m + 1) /\ c # <<>>
        /\ c[m + 1] = e /\ \A b \in 1..m : c[b] = bl[b]
    BY <1>1, <1>2, AppendProperties
  <1> HIDE DEF c, m
  <1>4. ASSUME NEW b \in 1..(m + 1)
        PROVE  Clean(c[b]) /\ c[b].last <= n + 1
    BY <1>1, <1>2, <1>3
  <1>5. ASSUME NEW b \in 1..(m + 1), b < m + 1
        PROVE  c[b + 1].first = c[b].last + 1
    <2>1. CASE b = m
      BY <2>1, <1>1, <1>2, <1>3
    <2>2. CASE b < m
      <3>1. b + 1 \in 1..m /\ b \in 1..m
        BY <2>2, <1>1
      <3>2. QED BY <2>2, <3>1, <1>1, <1>3
    <2>3. QED BY <2>1, <2>2, <1>1, <1>5
  <1>6. ASSUME NEW a \in 1..(m + 1), NEW b \in 1..(m + 1), a < b
        PROVE  c[a].last < c[b].first
    <2>1. a \in 1..m /\ c[a] = bl[a] /\ bl[a].last <= n /\ bl[a].last \in Nat
      BY <1>6, <1>1, <1>3
    <2>2. CASE b = m + 1
      BY <2>1, <2>2, <1>2, <1>3
    <2>3. CASE b \in 1..m
      BY <2>1, <2>3, <1>1, <1>3, <1>6
    <2>4. QED BY <2>2, <2>3, <1>1
  <1>7. ASSUME NEW k \in 1..(n + 1)
        PROVE  \E b \in 1..(m + 1) : k \in c[b].first..c[b].last
    <2>1. CASE k = n + 1
      <3>1. m + 1 \in 1..(m + 1) /\ k \in c[m + 1].first..c[m + 1].last
        BY <2>1, <1>1, <1>2, <1>3
      <3>2. QED BY <3>1
    <2>2. CASE k \in 1..n
      <3>1. PICK b \in 1..m : k \in bl[b].first..bl[b].last
        BY <2>2, <1>1
      <3>2. b \in 1..(m + 1) /\ c[b] = bl[b]
        BY <3>1, <1>1, <1>3
      <3>3. QED BY <3>1, <3>2
    <2>3. QED BY <2>1, <2>2
  <1>8. c[Len(c)].last = n + 1 /\ n + 1 # 0
    BY <1>2, <1>3
  <1>9. Partition(c, n + 1)
    BY <1>3, <1>4, <1>5, <1>6, <1>7, <1>8 DEF Partition
  <1>10. QED BY <1>9 DEF c, e

\* Adding instruction n + 1 to the last block.
LEMMA LongerBlock ==
  ASSUME NEW bl, NEW n \in Nat \ {0}, Partition(bl, n),
         ~instrIsStartingNode(prog[n + 1]), ~instrIsEndingNode(prog[n])
  PROVE  Partition([bl EXCEPT ![Len(bl)].last = n + 1], n + 1)
  <1> DEFINE m == Len(bl)
             e == [first |-> bl[m].first, last |-> n + 1]
             c == [bl EXCEPT ![m] = e]
  <1>1. /\ bl \in Seq(Blocks) /\ m \in Nat /\ m \in 1..m /\ DOMAIN bl = 1..m
        /\ \A b \in 1..m : /\ bl[b] \in Blocks /\ bl[b].first \in 1..n /\ bl[b].last \in 1..n /\ Clean(bl[b])
        /\ bl[m].last = n
        /\ \A b \in 1..m : b < m => bl[b + 1].first = bl[b].last + 1
        /\ \A a, b \in 1..m : a < b => bl[a].last < bl[b].first
        /\ \A k \in 1..n : \E b \in 1..m : k \in bl[b].first..bl[b].last
    <2> HIDE DEF c, e
    <2>1. Len(bl) \in Nat /\ Len(bl) # 0 /\ n \in Nat
      BY PartitionFacts
    <2>2. m \in Nat /\ m \in 1..m
      BY <2>1
    <2>3. QED BY <2>2, PartitionFacts
  <1>2. e \in Blocks /\ e.first = bl[m].first /\ e.last = n + 1
    <2>1. bl[m].first \in Nat /\ n + 1 \in Nat
      BY <1>1
    <2>2. QED BY <2>1 DEF Blocks
  <1>3. Clean(e)
    BY <1>1, <1>2 DEF Clean
  <1>4. c = [bl EXCEPT ![Len(bl)].last = n + 1]
    <2>1. bl[m] \in Blocks
      BY <1>1
    <2>2. [bl[m] EXCEPT !.last = n + 1] = e
      BY <2>1 DEF Blocks
    <2>3. QED BY <2>2
  <1> HIDE DEF e
  <1>5. /\ c \in Seq(Blocks) /\ Len(c) = m /\ DOMAIN c = 1..m /\ c # <<>>
        /\ c[m] = e /\ \A b \in 1..m : b # m => c[b] = bl[b]
    <2>1. m \in 1..m /\ m # 0
      BY <1>1
    <2>2. c \in Seq(Blocks) /\ Len(c) = m /\ \A b \in 1..m : c[b] = IF b = m THEN e ELSE bl[b]
      BY <1>1, <1>2, <2>1, ExceptSeq
    <2> HIDE DEF c
    <2>3. c # <<>>
      <3>1. Len(c) # 0
        BY <2>1, <2>2
      <3>2. QED BY <3>1, EmptySeq
    <2>4. QED BY <2>1, <2>2, <2>3
  <1> HIDE DEF c, m
  <1>6. ASSUME NEW b \in 1..m
        PROVE  Clean(c[b]) /\ c[b].last <= n + 1
    <2>1. CASE b = m
      BY <2>1, <1>2, <1>3, <1>5
    <2>2. CASE b # m
      <3>1. c[b] = bl[b]
        BY <2>2, <1>5
      <3>2. bl[b].last \in 1..n /\ Clean(bl[b])
        BY <1>1
      <3>3. QED BY <3>1, <3>2
    <2>3. QED BY <2>1, <2>2
  <1>7. ASSUME NEW b \in 1..m, b < m
        PROVE  c[b + 1].first = c[b].last + 1
    <2>1. b + 1 \in 1..m /\ bl[b + 1].first = bl[b].last + 1 /\ c[b] = bl[b]
      BY <1>1, <1>5, <1>7
    <2>2. c[b + 1].first = bl[b + 1].first
      BY <2>1, <1>2, <1>5
    <2>3. QED BY <2>1, <2>2
  <1>8. ASSUME NEW a \in 1..m, NEW b \in 1..m, a < b
        PROVE  c[a].last < c[b].first
    <2>1. c[a] = bl[a]
      BY <1>1, <1>5, <1>8
    <2>2. c[b].first = bl[b].first
      BY <1>2, <1>5
    <2>3. QED BY <2>1, <2>2, <1>1, <1>8
  <1>9. ASSUME NEW k \in 1..(n + 1)
        PROVE  \E b \in 1..m : k \in c[b].first..c[b].last
    <2>1. CASE k = n + 1
      <3>1. m \in 1..m /\ k \in c[m].first..c[m].last
        BY <2>1, <1>1, <1>2, <1>5
      <3>2. QED BY <3>1
    <2>2. CASE k \in 1..n
      <3>1. PICK b \in 1..m : k \in bl[b].first..bl[b].last
        BY <2>2, <1>1
      <3>2. c[b].first = bl[b].first /\ (c[b].last = bl[b].last \/ c[b].last = n + 1)
        BY <1>2, <1>5
      <3>3. bl[b].first \in Nat /\ bl[b].last \in Nat
        BY <1>1
      <3>4. k \in c[b].first..c[b].last
        BY <3>1, <3>2, <3>3
      <3>5. QED BY <3>4
    <2>3. QED BY <2>1, <2>2
  <1>10. c[Len(c)].last = n + 1 /\ n + 1 # 0
    BY <1>2, <1>5
  <1>11. Partition(c, n + 1)
    BY <1>5, <1>6, <1>7, <1>8, <1>9, <1>10 DEF Partition
  <1>12. QED BY <1>11, <1>4

\* cfgSearchLabel finds the block the label is at the start of.
LEMMA SearchFinds ==
  ASSUME prog \in Programs, Partition(blocks, Len(prog)), NEW lab, lab # NoLabel,
         NEW l \in 1..Len(prog), Labelled(prog, lab) = {l}
  PROVE  /\ cfgSearchLabel(lab) \in 1..Len(blocks)
         /\ blocks[cfgSearchLabel(lab)].first = l
  <1> DEFINE found == {c \in DOMAIN blocks : prog[blocks[c].first].label = lab}
             m == Len(blocks)
  <1>1. Len(prog) \in Nat \ {0} /\ DOMAIN prog = 1..Len(prog)
    BY ProgFacts
  <1>2. /\ m \in Nat /\ DOMAIN blocks = 1..m
        /\ \A b \in 1..m : /\ blocks[b].first \in 1..Len(prog) /\ blocks[b].last \in 1..Len(prog)
                           /\ blocks[b].first <= blocks[b].last /\ Clean(blocks[b])
        /\ \A b, c \in 1..m : b < c => blocks[b].last < blocks[c].first
        /\ \A k \in 1..Len(prog) : \E b \in 1..m : k \in blocks[b].first..blocks[b].last
    BY <1>1, PartitionFacts
  <1>3. PICK b \in 1..m : l \in blocks[b].first..blocks[b].last
    BY <1>2
  <1>4. prog[l].label = lab
    BY DEF Labelled
  <1>5. blocks[b].first \in 1..Len(prog) /\ blocks[b].last \in 1..Len(prog) /\ Clean(blocks[b])
    BY <1>2
  <1>6. blocks[b].first = l
    <2> SUFFICES ASSUME blocks[b].first # l PROVE FALSE
      OBVIOUS
    <2>1. l \in (blocks[b].first + 1)..blocks[b].last
      BY <1>3, <1>5
    <2>2. ~instrIsStartingNode(prog[l])
      BY <1>5, <2>1 DEF Clean
    <2>3. QED BY <2>2, <1>4 DEF instrIsStartingNode
  <1>7. ASSUME NEW c \in found
        PROVE  c = b
    <2>1. c \in 1..m /\ prog[blocks[c].first].label = lab
      BY <1>2
    <2>2. blocks[c].first \in 1..Len(prog) /\ blocks[c].first <= blocks[c].last /\ blocks[c].last \in 1..Len(prog)
      BY <1>2, <2>1
    <2>3. blocks[c].first = l
      BY <2>1, <2>2, <1>1 DEF Labelled
    <2>4. ~(c < b) /\ ~(b < c)
      BY <1>2, <1>3, <1>5, <1>6, <2>1, <2>2, <2>3
    <2>5. QED BY <2>1, <2>4, <1>2
  <1>8. found = {b}
    BY <1>2, <1>3, <1>4, <1>6, <1>7
  <1>9. cfgSearchLabel(lab) = b
    <2>1. cfgSearchLabel(lab) = IF found = {} THEN m ELSE CHOOSE x \in found : \A c \in found : x <= c
      BY DEF cfgSearchLabel
    <2> HIDE DEF found
    <2>2. \E x \in found : \A c \in found : x <= c
      BY <1>2, <1>3, <1>8
    <2>3. (CHOOSE x \in found : \A c \in found : x <= c) \in found
      BY <2>2
    <2>4. QED BY <2>1, <2>3, <1>8
  <1>10. QED BY <1>3, <1>6, <1>9

\* An instruction that ends no block goes on to the next one.
LEMMA FlowInside ==
  ASSUME NEW prg, NEW k, ~instrIsEndingNode(prg[k])
  PROVE  Flow(prg, k) = {k + 1}
  BY DEF instrIsEndingNode, Flow, isJumpInstruction, isUnconditionalJump, isExitInstruction

\* The edges cfgComputeTransitions gives a block.
LEMMA TransitionsRight ==
  ASSUME prog \in Programs, Partition(blocks, Len(prog)),
         NEW b \in 1..Len(blocks), ~isExitInstruction(LastInstr(b))
  PROVE  /\ Transitions(b) \subseteq DOMAIN blocks \union {endingBlock}
         /\ {FirstOf(c) : c \in Transitions(b)} = Flow(prog, blocks[b].last)
  <1> DEFINE m == Len(blocks)
             k == blocks[b].last
             nxt == IF b < m THEN b + 1 ELSE endingBlock
  <1>1. /\ m \in Nat /\ DOMAIN blocks = 1..m /\ k \in 1..Len(prog)
        /\ m > 0 => blocks[m].last = Len(prog)
        /\ \A c \in 1..m : c < m => blocks[c + 1].first = blocks[c].last + 1
        /\ Len(prog) \in Nat \ {0} /\ DOMAIN prog = 1..Len(prog) /\ LabelsPlaced(prog)
    BY ProgFacts, PartitionFacts
  <1>2. nxt \in DOMAIN blocks \union {endingBlock} /\ FirstOf(nxt) = k + 1
    <2>1. CASE b < m
      <3>1. nxt = b + 1 /\ b + 1 \in 1..m /\ b + 1 # endingBlock
        BY <1>1, <2>1 DEF endingBlock
      <3>2. FirstOf(nxt) = blocks[b + 1].first
        BY <3>1 DEF FirstOf
      <3>3. QED BY <1>1, <2>1, <3>1, <3>2
    <2>2. CASE b = m
      <3>1. nxt = endingBlock /\ FirstOf(nxt) = Len(prog) + 1
        BY <1>1, <2>2 DEF FirstOf, End
      <3>2. QED BY <1>1, <2>2, <3>1
    <2>3. QED BY <2>1, <2>2, <1>1
  <1>3. LastInstr(b) = prog[k]
    BY DEF LastInstr
  <1>4. CASE ~isJumpInstruction(prog[k])
    <2>1. Transitions(b) = {nxt}
      BY <1>3, <1>4 DEF Transitions, isJumpInstruction, isUnconditionalJump
    <2>2. Flow(prog, k) = {k + 1}
      BY <1>3, <1>4, FlowInside DEF instrIsEndingNode
    <2>3. QED BY <1>2, <2>1, <2>2
  <1>5. CASE isJumpInstruction(prog[k])
    <2> DEFINE lab == prog[k].addressParam
               target == cfgSearchLabel(lab)
    <2>1. PICK l \in DOMAIN prog : lab # NoLabel /\ Labelled(prog, lab) = {l}
      BY <1>1, <1>5 DEF LabelsPlaced
    <2>2. target \in 1..m /\ blocks[target].first = l
      BY <1>1, <2>1, SearchFinds
    <2>3. target \in DOMAIN blocks /\ FirstOf(target) = l
      BY <1>1, <2>2 DEF FirstOf, endingBlock
    <2> HIDE DEF target, nxt, k
    <2>4. CASE isUnconditionalJump(prog[k])
      <3>1. Transitions(b) = {target}
        BY <1>3, <1>5, <2>4 DEF Transitions, target, k
      <3>2. Flow(prog, k) = {l}
        BY <1>5, <2>1, <2>4 DEF Flow, isUnconditionalJump, isExitInstruction, isJumpInstruction, k
      <3>3. QED BY <2>3, <3>1, <3>2 DEF k
    <2>5. CASE ~isUnconditionalJump(prog[k])
      <3>1. Transitions(b) = {target, nxt}
        BY <1>3, <1>5, <2>5 DEF Transitions, target, nxt, k
      <3>2. Flow(prog, k) = {l, k + 1}
        BY <1>3, <1>5, <2>1, <2>5 DEF Flow, k
      <3>3. QED BY <1>2, <2>3, <3>1, <3>2 DEF k, nxt
    <2>6. QED BY <2>4, <2>5
  <1>6. QED BY <1>4, <1>5

-----------------------------------------------------------------------------
(* Each step of the construction keeps the invariant *)

LEMMA GraphInit == CfgInit => GraphInv
  <1> SUFFICES ASSUME CfgInit PROVE GraphInv
    OBVIOUS
  <1>1. Partition(<<>>, 0)
    BY DEF Partition, Clean
  <1>2. Len(prog) \in Nat \ {0}
    BY ProgFacts DEF CfgInit
  <1>3. QED BY <1>1, <1>2 DEF CfgInit, GraphInv, Stages

LEMMA AddInstructionKeeps ==
  ASSUME GraphInv, AddInstruction
  PROVE  GraphInv'
  <1> DEFINE n == cursor - 1
  <1>1. /\ prog \in Programs /\ stage = "blocks" /\ cursor \in 1..Len(prog) /\ cursor \in Nat
        /\ n \in Nat /\ Partition(blocks, n) /\ n + 1 = cursor /\ cursor' = cursor + 1
        /\ open => blocks # <<>> /\ ~instrIsEndingNode(LastInstr(Len(blocks)))
        /\ UNCHANGED <<prog, stage, succ>> /\ succ = <<>>
        /\ open' = ~instrIsEndingNode(prog[cursor])
    <2>1. cursor \in 1..(Len(prog) + 1) /\ cursor <= Len(prog) /\ Len(prog) \in Nat
      BY ProgFacts DEF GraphInv, AddInstruction
    <2>2. cursor \in Nat /\ n \in Nat /\ n + 1 = cursor
      BY <2>1
    <2>3. QED BY <2>1, <2>2 DEF GraphInv, AddInstruction
  <1>2. Partition(blocks', n + 1)
    <2>1. CASE instrIsStartingNode(prog[cursor]) \/ ~open
      <3>1. blocks' = Append(blocks, [first |-> n + 1, last |-> n + 1])
        BY <1>1, <2>1 DEF AddInstruction
      <3>2. QED BY <1>1, <3>1, NewBlock
    <2>2. CASE ~instrIsStartingNode(prog[cursor]) /\ open
      <3>1. blocks' = [blocks EXCEPT ![Len(blocks)].last = n + 1]
        BY <1>1, <2>2 DEF AddInstruction
      <3>2. n # 0 /\ blocks[Len(blocks)].last = n
        BY <1>1, <2>2 DEF Partition
      <3>3. ~instrIsEndingNode(prog[n])
        BY <1>1, <2>2, <3>2 DEF LastInstr
      <3>4. QED BY <1>1, <2>2, <3>1, <3>2, <3>3, LongerBlock
    <2>3. QED BY <2>1, <2>2
  <1>3. n + 1 = cursor' - 1 /\ cursor' \in 1..(Len(prog) + 1)
    BY <1>1, ProgFacts
  <1>4. Partition(blocks, cursor - 1)'
    BY <1>1, <1>2, <1>3 DEF Partition, Clean, instrIsStartingNode, instrIsEndingNode
  <1>5. open' => blocks' # <<>> /\ ~instrIsEndingNode(LastInstr(Len(blocks)))'
    <2>1. blocks' # <<>> /\ blocks'[Len(blocks')].last = cursor
      BY <1>1, <1>2 DEF Partition
    <2>2. QED BY <1>1, <2>1 DEF LastInstr, instrIsEndingNode
  <1>6. QED BY <1>1, <1>3, <1>4, <1>5 DEF GraphInv

LEMMA BlocksDoneKeeps ==
  ASSUME GraphInv, BlocksDone
  PROVE  GraphInv'
  <1>1. /\ prog \in Programs /\ stage = "blocks" /\ stage' = "edges" /\ cursor' = 1
        /\ cursor = Len(prog) + 1 /\ Partition(blocks, cursor - 1) /\ Len(prog) \in Nat
        /\ succ' = [b \in DOMAIN blocks |-> {}] /\ UNCHANGED <<prog, blocks, open>>
    BY ProgFacts DEF GraphInv, BlocksDone
  <1>2. Partition(blocks, Len(prog))
    BY <1>1
  <1>3. Partition(blocks, Len(prog))'
    BY <1>1, <1>2 DEF Partition, Clean, instrIsStartingNode, instrIsEndingNode
  <1>4. Len(blocks) \in Nat /\ DOMAIN blocks = 1..Len(blocks)
    BY <1>1, <1>2, PartitionFacts
  <1>5. succ' \in [DOMAIN blocks' -> SUBSET (DOMAIN blocks' \union {endingBlock})]
    BY <1>1
  <1>6. \A b \in cursor'..Len(blocks') : succ'[b] = {}
    BY <1>1, <1>4
  <1>7. QED BY <1>1, <1>3, <1>4, <1>5, <1>6 DEF GraphInv, Stages

LEMMA AddTransitionsKeeps ==
  ASSUME GraphInv, AddTransitions
  PROVE  GraphInv'
  <1> DEFINE m == Len(blocks)
             S == DOMAIN blocks \union {endingBlock}
  <1>1. /\ prog \in Programs /\ stage = "edges" /\ cursor \in 1..m
        /\ Partition(blocks, Len(prog)) /\ succ \in [DOMAIN blocks -> SUBSET S]
        /\ \A b \in 1..(cursor - 1) : EdgesRight(b)
        /\ \A b \in cursor..m : ~isExitInstruction(LastInstr(b)) => succ[b] = {}
        /\ UNCHANGED <<prog, stage, blocks, open>>
        /\ m \in Nat /\ DOMAIN blocks = 1..m
    <2>1. Partition(blocks, Len(prog)) /\ Len(prog) \in Nat /\ cursor \in 1..(m + 1) /\ cursor <= m
      BY ProgFacts DEF GraphInv, AddTransitions
    <2>2. m \in Nat /\ DOMAIN blocks = 1..m
      BY <2>1, PartitionFacts
    <2>3. QED BY <2>1, <2>2 DEF GraphInv, AddTransitions
  <1>2. Partition(blocks, Len(prog))'
    BY <1>1 DEF Partition, Clean, instrIsStartingNode, instrIsEndingNode
  <1>3. \A b : UNCHANGED <<LastInstr(b), FirstOf(b)>>
    BY <1>1 DEF LastInstr, FirstOf, End
  <1>4. CASE isExitInstruction(LastInstr(cursor))
    <2>1. succ' = [succ EXCEPT ![cursor] = @ \union {endingBlock}] /\ cursor' = cursor
      BY <1>4 DEF AddTransitions
    <2>2. succ' \in [DOMAIN blocks -> SUBSET S] /\ \A b \in 1..m : b # cursor => succ'[b] = succ[b]
      BY <1>1, <2>1
    <2>3. ASSUME NEW b \in 1..(cursor' - 1) PROVE EdgesRight(b)'
      <3>1. b \in 1..(cursor - 1) /\ succ'[b] = succ[b]
        BY <1>1, <2>1, <2>2
      <3>2. EdgesRight(b)
        BY <1>1, <3>1
      <3>3. QED BY <1>1, <1>3, <3>1, <3>2 DEF EdgesRight, FirstOf
    <2>4. ASSUME NEW b \in cursor'..m, ~isExitInstruction(LastInstr(b)) PROVE succ'[b] = {}
      BY <1>1, <1>4, <2>1, <2>2, <2>4
    <2>5. cursor' \in 1..(m + 1)
      BY <1>1, <2>1
    <2>6. QED BY <1>1, <1>2, <1>3, <2>2, <2>3, <2>4, <2>5 DEF GraphInv
  <1>5. CASE ~isExitInstruction(LastInstr(cursor))
    <2>1. succ' = [succ EXCEPT ![cursor] = @ \union Transitions(cursor)] /\ cursor' = cursor + 1
      BY <1>5 DEF AddTransitions
    <2>2. /\ Transitions(cursor) \subseteq S
          /\ {FirstOf(c) : c \in Transitions(cursor)} = Flow(prog, blocks[cursor].last)
      BY <1>1, <1>5, TransitionsRight
    <2>3. succ[cursor] = {}
      BY <1>1, <1>5
    <2>4. /\ succ' \in [DOMAIN blocks -> SUBSET S] /\ succ'[cursor] = Transitions(cursor)
          /\ \A b \in 1..m : b # cursor => succ'[b] = succ[b]
      BY <1>1, <2>1, <2>2, <2>3
    <2>5. ASSUME NEW b \in 1..(cursor' - 1) PROVE EdgesRight(b)'
      <3>1. CASE b = cursor
        BY <1>1, <1>3, <2>2, <2>4, <3>1 DEF EdgesRight, FirstOf
      <3>2. CASE b \in 1..(cursor - 1)
        <4>1. succ'[b] = succ[b] /\ EdgesRight(b)
          BY <1>1, <2>4, <3>2
        <4>2. QED BY <1>1, <1>3, <4>1 DEF EdgesRight, FirstOf
      <3>3. QED BY <3>1, <3>2, <1>1, <2>1
    <2>6. ASSUME NEW b \in cursor'..m, ~isExitInstruction(LastInstr(b)) PROVE succ'[b] = {}
      BY <1>1, <2>1, <2>4, <2>6
    <2>7. cursor' \in 1..(m + 1)
      BY <1>1, <2>1
    <2>8. QED BY <1>1, <1>2, <1>3, <2>4, <2>5, <2>6, <2>7 DEF GraphInv
  <1>6. QED BY <1>4, <1>5

\* The later passes do not touch the graph.
LEMMA GraphStays ==
  ASSUME GraphInv, GraphBuilt, UNCHANGED <<prog, blocks, succ>>,
         stage' \in Stages \ {"blocks", "edges"}
  PROVE  GraphInv'
  <1>1. /\ prog \in Programs /\ Partition(blocks, Len(prog)) /\ Len(prog) \in Nat
        /\ succ \in [DOMAIN blocks -> SUBSET (DOMAIN blocks \union {endingBlock})]
        /\ stage # "blocks"
    BY ProgFacts DEF GraphInv, GraphBuilt, CfgReady
  <1>2. \A b \in DOMAIN blocks : EdgesRight(b)
    <2>1. DOMAIN blocks = 1..Len(blocks) /\ Len(blocks) \in Nat
      BY <1>1, PartitionFacts
    <2>2. CASE CfgReady
      <3>1. cursor = Len(blocks) + 1
        BY <2>1, <2>2 DEF CfgReady, GraphInv
      <3>2. QED BY <2>1, <2>2, <3>1 DEF GraphInv, CfgReady
    <2>3. CASE stage \notin {"blocks", "edges"}
      BY <2>3 DEF GraphInv
    <2>4. QED BY <2>2, <2>3 DEF GraphBuilt
  <1>3. Partition(blocks, Len(prog))'
    BY <1>1 DEF Partition, Clean, instrIsStartingNode, instrIsEndingNode
  <1>4. \A b \in DOMAIN blocks' : EdgesRight(b)'
    BY <1>2 DEF EdgesRight, FirstOf, End
  <1>5. QED BY <1>1, <1>3, <1>4 DEF GraphInv

-----------------------------------------------------------------------------
(* The sweeps *)

Live == TempsOf(prog) \ {REG_0}

\* What is live before instruction k when liveOut is live after it.
LiveBefore(k, liveOut) == (Uses(prog[k]) \ {REG_0}) \union (liveOut \ Defs(prog[k]))

\* The sets of instruction k solve its equations.
Settled(k) ==
  /\ LiveBefore(k, out[k]) \subseteq in[k]
  /\ LiveAfter(prog, in, k) \subseteq out[k]

\* The invariant of the sweeps: no set holds more than the solution, a live in set
\* holds no more than its equation gives, and the part of a sweep that modified
\* nothing is settled.
SweepInv ==
  /\ in \in [DOMAIN prog -> SUBSET Live]
  /\ out \in [DOMAIN prog -> SUBSET Live]
  /\ successorsLiveIn \subseteq Live
  /\ modified \in BOOLEAN
  /\ \A k \in DOMAIN prog : in[k] \subseteq LiveBefore(k, out[k])
  /\ \A k \in DOMAIN prog : out[k] \subseteq LiveAfter(prog, LiveTable(prog), k)
  /\ stage = "sweep" =>
       /\ cursor \in 0..Len(prog)
       /\ cursor < Len(prog) => successorsLiveIn = in[cursor + 1]
       /\ ~modified => \A k \in (cursor + 1)..Len(prog) : Settled(k)
  /\ stage \notin {"blocks", "edges", "sweep"} => \A k \in DOMAIN prog : Settled(k)

LEMMA EquationIsLiveBefore ==
  ASSUME NEW k, NEW liveOut, REG_0 \notin liveOut
  PROVE  computeLiveInSetEquation(k, liveOut) = LiveBefore(k, liveOut)
  BY DEF computeLiveInSetEquation, LiveBefore

\* What the sweep gathers as live out of an instruction is what its successors have
\* as live in.
LEMMA GathersLiveAfter ==
  ASSUME GraphInv, SweepInv, stage = "sweep", cursor >= 1
  PROVE  (IF cursor = blocks[BlockOf(cursor)].last
            THEN cfgComputeLiveOutOfBlock(BlockOf(cursor)) ELSE successorsLiveIn)
         = LiveAfter(prog, in, cursor)
  <1> DEFINE k == cursor
             b == BlockOf(k)
             m == Len(blocks)
  <1>1. /\ prog \in Programs /\ Partition(blocks, Len(prog)) /\ \A c \in DOMAIN blocks : EdgesRight(c)
        /\ succ \in [DOMAIN blocks -> SUBSET (DOMAIN blocks \union {endingBlock})]
    BY DEF GraphInv
  <1>2. Len(prog) \in Nat \ {0} /\ DOMAIN prog = 1..Len(prog)
    BY <1>1, ProgFacts
  <1>3. /\ m \in Nat /\ DOMAIN blocks = 1..m
        /\ \A c \in 1..m : /\ blocks[c].first \in 1..Len(prog) /\ blocks[c].last \in 1..Len(prog)
                           /\ Clean(blocks[c])
        /\ \A j \in 1..Len(prog) : \E c \in 1..m : j \in blocks[c].first..blocks[c].last
    BY <1>1, <1>2, PartitionFacts
  <1>4. k \in 1..Len(prog) /\ (k < Len(prog) => successorsLiveIn = in[k + 1])
    BY <1>2 DEF SweepInv
  <1>5. b \in 1..m /\ k \in blocks[b].first..blocks[b].last
    <2>1. \E c \in DOMAIN blocks : k \in blocks[c].first..blocks[c].last
      BY <1>3, <1>4
    <2>2. QED BY <1>3, <2>1 DEF BlockOf
  <1> HIDE DEF b
  <1>6. CASE k = blocks[b].last
    <2>1. {FirstOf(c) : c \in succ[b]} = Flow(prog, k) /\ succ[b] \subseteq DOMAIN blocks \union {endingBlock}
      BY <1>1, <1>3, <1>5, <1>6 DEF EdgesRight
    <2>2. \A c \in succ[b] \ {endingBlock} : FirstOf(c) = blocks[c].first /\ FirstOf(c) # End(prog)
      BY <1>2, <1>3, <2>1 DEF FirstOf, End
    <2>3. FirstOf(endingBlock) = End(prog)
      BY DEF FirstOf
    <2>4. {blocks[c].first : c \in succ[b] \ {endingBlock}} = Flow(prog, k) \ {End(prog)}
      BY <2>1, <2>2, <2>3
    <2>5. cfgComputeLiveOutOfBlock(b) = UNION {in[j] : j \in {blocks[c].first : c \in succ[b] \ {endingBlock}}}
      BY DEF cfgComputeLiveOutOfBlock
    <2>6. cfgComputeLiveOutOfBlock(b) = LiveAfter(prog, in, k)
      BY <2>4, <2>5 DEF LiveAfter
    <2>7. QED BY <1>6, <2>6 DEF b
  <1>7. CASE k # blocks[b].last
    <2>1. k < blocks[b].last /\ blocks[b].last \in 1..Len(prog) /\ k \in blocks[b].first..(blocks[b].last - 1)
      BY <1>3, <1>5, <1>7
    <2>2. ~instrIsEndingNode(prog[k])
      BY <1>3, <1>5, <2>1 DEF Clean
    <2>3. Flow(prog, k) = {k + 1}
      BY <2>2, FlowInside
    <2>4. k + 1 # End(prog) /\ successorsLiveIn = in[k + 1]
      BY <1>2, <1>4, <2>1 DEF End
    <2>5. LiveAfter(prog, in, k) = successorsLiveIn
      BY <2>3, <2>4 DEF LiveAfter
    <2>6. QED BY <1>7, <2>5 DEF b
  <1>8. QED BY <1>6, <1>7

\* The live in sets hold what is live and no more.
LEMMA InWithinTable ==
  ASSUME prog \in Programs, SweepInv
  PROVE  \A k \in DOMAIN prog : in[k] \subseteq LiveTable(prog)[k]
  <1> SUFFICES ASSUME NEW k \in DOMAIN prog
               PROVE  in[k] \subseteq LiveTable(prog)[k]
    OBVIOUS
  <1>1. /\ Uses(prog[k]) \ {REG_0} \subseteq LiveTable(prog)[k]
        /\ LiveAfter(prog, LiveTable(prog), k) \ Defs(prog[k]) \subseteq LiveTable(prog)[k]
    BY ProgFacts, LiveTableSolves
  <1>2. in[k] \subseteq LiveBefore(k, out[k]) /\ out[k] \subseteq LiveAfter(prog, LiveTable(prog), k)
    BY DEF SweepInv
  <1>3. QED BY <1>1, <1>2 DEF LiveBefore

LEMMA LiveAfterMonotone ==
  ASSUME prog \in Programs, NEW k \in DOMAIN prog, NEW lower, NEW upper,
         \A j \in DOMAIN prog : lower[j] \subseteq upper[j]
  PROVE  LiveAfter(prog, lower, k) \subseteq LiveAfter(prog, upper, k)
  <1>1. Flow(prog, k) \ {End(prog)} \subseteq DOMAIN prog
    BY ProgFacts, ProgramFacts
  <1>2. QED BY <1>1 DEF LiveAfter

LEMMA SweepInit == LivenessInit => SweepInv
  <1> SUFFICES ASSUME LivenessInit PROVE SweepInv
    OBVIOUS
  <1>1. \A k \in DOMAIN prog : in[k] = {} /\ out[k] = {}
    BY DEF LivenessInit
  <1>2. stage = "blocks"
    BY DEF LivenessInit, CfgInit
  <1>3. in \in [DOMAIN prog -> SUBSET Live] /\ out \in [DOMAIN prog -> SUBSET Live]
    BY DEF LivenessInit
  <1>4. QED BY <1>1, <1>2, <1>3 DEF LivenessInit, SweepInv

\* A step that leaves the sets alone and does not start or continue a sweep.
LEMMA SweepStays ==
  ASSUME SweepInv, UNCHANGED <<prog, in, out, successorsLiveIn>>,
         modified' \in BOOLEAN,
         \/ stage \in {"blocks", "edges"} /\ stage' \in {"blocks", "edges"}
         \/ stage' = "sweep" /\ cursor' = Len(prog) /\ Len(prog) \in Nat
         \/ /\ stage \notin {"blocks", "edges", "sweep"} \/ LivenessReady
            /\ stage' \notin {"blocks", "edges", "sweep"}
            /\ prog \in Programs
  PROVE  SweepInv'
  <1>1. \A k : Settled(k)' <=> Settled(k)
    BY DEF Settled, LiveBefore, LiveAfter
  <1>2. Live' = Live
    BY DEF Live
  <1>3. /\ \A k \in DOMAIN prog' : in'[k] \subseteq LiveBefore(k, out[k])'
        /\ \A k \in DOMAIN prog' : out'[k] \subseteq LiveAfter(prog', LiveTable(prog'), k)
    BY DEF SweepInv, LiveBefore
  <1>4. stage' = "sweep" =>
          /\ cursor' \in 0..Len(prog')
          /\ cursor' < Len(prog') => successorsLiveIn' = in'[cursor' + 1]
          /\ ~modified' => \A k \in (cursor' + 1)..Len(prog') : Settled(k)'
    OBVIOUS
  <1>5. stage' \notin {"blocks", "edges", "sweep"} => \A k \in DOMAIN prog' : Settled(k)'
    <2>1. ASSUME LivenessReady, prog \in Programs, NEW k \in DOMAIN prog PROVE Settled(k)
      BY <2>1, ProgFacts DEF LivenessReady, SweepInv
    <2>2. QED BY <1>1, <2>1 DEF SweepInv
  <1>6. QED BY <1>2, <1>3, <1>4, <1>5 DEF SweepInv

LEMMA UpdateLivenessKeeps ==
  ASSUME GraphInv, SweepInv, UpdateLiveness
  PROVE  SweepInv'
  <1> DEFINE k        == cursor
             gathered == LiveAfter(prog, in, k)
             liveOut  == out[k] \union gathered
             liveIn   == computeLiveInSetEquation(k, liveOut)
             table    == LiveTable(prog)
  <1>1. /\ prog \in Programs /\ prog \in Seq(Instructions) /\ DOMAIN prog = 1..Len(prog) /\ Len(prog) \in Nat
        /\ stage = "sweep" /\ k \in 1..Len(prog) /\ k \in DOMAIN prog /\ UNCHANGED <<prog, stage>> /\ cursor' = k - 1
    <2>1. prog \in Programs /\ stage = "sweep" /\ cursor >= 1 /\ UNCHANGED <<prog, stage>> /\ cursor' = k - 1
      BY DEF GraphInv, UpdateLiveness
    <2>2. cursor \in 0..Len(prog)
      BY <2>1 DEF SweepInv
    <2>3. QED BY <2>1, <2>2, ProgFacts
  <1>2. /\ in \in [DOMAIN prog -> SUBSET Live] /\ out \in [DOMAIN prog -> SUBSET Live]
        /\ in[k] \subseteq LiveBefore(k, out[k]) /\ out[k] \subseteq LiveAfter(prog, table, k)
    BY <1>1 DEF SweepInv
  <1>3. /\ out' = [out EXCEPT ![k] = liveOut]
        /\ in' = [in EXCEPT ![k] = @ \union liveIn]
        /\ successorsLiveIn' = liveIn
        /\ modified' = (modified \/ in' # in \/ out' # out)
    BY <1>1, GathersLiveAfter DEF UpdateLiveness
  <1>4. gathered \subseteq LiveAfter(prog, table, k)
    BY <1>1, InWithinTable, LiveAfterMonotone
  <1>5. gathered \subseteq Live
    <2>1. Flow(prog, k) \ {End(prog)} \subseteq DOMAIN prog
      BY <1>1, ProgramFacts
    <2>2. QED BY <1>2, <2>1 DEF LiveAfter
  <1> HIDE DEF gathered
  <1>6. liveOut \subseteq Live /\ REG_0 \notin liveOut
    <2>1. out[k] \subseteq Live
      BY <1>1, <1>2
    <2>2. QED BY <2>1, <1>5 DEF Live
  <1>7. liveIn = LiveBefore(k, liveOut)
    BY <1>6, EquationIsLiveBefore
  <1>8. liveIn \subseteq Live
    <2>1. Uses(prog[k]) \subseteq TempsOf(prog)
      BY <1>1 DEF TempsOf
    <2>2. QED BY <1>6, <1>7, <2>1 DEF LiveBefore, Live
  <1>9. in[k] \subseteq liveIn
    BY <1>2, <1>7 DEF LiveBefore
  <1> HIDE DEF liveIn, liveOut, table
  <1>10. /\ in' \in [DOMAIN prog -> SUBSET Live] /\ out' \in [DOMAIN prog -> SUBSET Live]
         /\ in'[k] = liveIn /\ out'[k] = liveOut
         /\ \A j \in DOMAIN prog : j # k => in'[j] = in[j] /\ out'[j] = out[j]
    BY <1>1, <1>2, <1>3, <1>6, <1>8, <1>9
  <1>11. ASSUME NEW j \in DOMAIN prog
         PROVE  /\ in'[j] \subseteq LiveBefore(j, out'[j])
                /\ out'[j] \subseteq LiveAfter(prog, table, j)
    <2>1. CASE j = k
      BY <1>2, <1>4, <1>7, <1>10, <2>1 DEF liveOut
    <2>2. CASE j # k
      BY <1>10, <2>2 DEF SweepInv, table
    <2>3. QED BY <2>1, <2>2
  <1>12. \A j \in DOMAIN prog' : in'[j] \subseteq LiveBefore(j, out[j])'
    BY <1>1, <1>11 DEF LiveBefore
  <1>13. ASSUME ~modified', NEW j \in k..Len(prog)
         PROVE  Settled(j)'
    <2>1. ~modified /\ in' = in /\ out' = out
      BY <1>3, <1>13
    <2>2. Settled(j)
      <3>1. CASE j = k
        BY <1>7, <1>10, <2>1, <3>1 DEF Settled, gathered, liveOut
      <3>2. CASE j \in (k + 1)..Len(prog)
        BY <1>1, <2>1, <3>2 DEF SweepInv
      <3>3. QED BY <3>1, <3>2, <1>1, <1>13
    <2>3. QED BY <1>1, <2>1, <2>2 DEF Settled, LiveBefore
  <1>14. /\ cursor' \in 0..Len(prog) /\ cursor' + 1 = k
         /\ successorsLiveIn' = in'[cursor' + 1]
    BY <1>1, <1>3, <1>10
  <1>15. Live' = Live /\ modified' \in BOOLEAN /\ successorsLiveIn' \subseteq Live
    BY <1>1, <1>3, <1>8 DEF Live, SweepInv
  <1>16. QED BY <1>1, <1>10, <1>11, <1>12, <1>13, <1>14, <1>15 DEF SweepInv, table

LEMMA SweepAgainKeeps ==
  ASSUME SweepInv, SweepAgain, prog \in Programs
  PROVE  SweepInv'
  <1>1. /\ UNCHANGED <<prog, in, out, successorsLiveIn>> /\ modified' \in BOOLEAN
        /\ stage' = "sweep" /\ cursor' = Len(prog) /\ Len(prog) \in Nat
    BY ProgFacts DEF SweepAgain
  <1>2. QED BY <1>1, SweepStays

-----------------------------------------------------------------------------
(* The theorems *)

\* The graph and the sweeps together.
LivenessInv == GraphInv /\ SweepInv /\ stage \in {"blocks", "edges", "sweep"}

LEMMA LivenessStep ==
  ASSUME GraphInv, SweepInv, LivenessNext
  PROVE  GraphInv' /\ SweepInv' /\ stage' \in {"blocks", "edges", "sweep"}
  <1>1. CASE CfgNext /\ UNCHANGED liveVars
    <2>1. GraphInv'
      BY <1>1, AddInstructionKeeps, BlocksDoneKeeps, AddTransitionsKeeps DEF CfgNext
    <2>2. stage \in {"blocks", "edges"} /\ stage' \in {"blocks", "edges"} /\ UNCHANGED prog
      BY <1>1 DEF CfgNext, AddInstruction, BlocksDone, AddTransitions
    <2>3. modified' \in BOOLEAN /\ UNCHANGED <<in, out, successorsLiveIn>>
      BY <1>1 DEF liveVars, SweepInv
    <2>4. SweepInv'
      BY <2>2, <2>3, SweepStays
    <2>5. QED BY <2>1, <2>2, <2>4
  <1>2. CASE StartSweeps
    <2>1. /\ stage' = "sweep" /\ cursor' = Len(prog) /\ Len(prog) \in Nat
          /\ UNCHANGED <<prog, blocks, succ, in, out, successorsLiveIn>> /\ modified' \in BOOLEAN
      BY <1>2, ProgFacts DEF StartSweeps, liveVars, SweepInv, GraphInv
    <2>2. GraphInv'
      BY <1>2, <2>1, GraphStays DEF StartSweeps, GraphBuilt, Stages
    <2>3. SweepInv'
      BY <2>1, SweepStays
    <2>4. QED BY <2>1, <2>2, <2>3
  <1>3. CASE UpdateLiveness
    <2>1. stage = "sweep" /\ UNCHANGED <<prog, blocks, succ, stage>>
      BY <1>3 DEF UpdateLiveness
    <2>2. GraphInv'
      BY <2>1, GraphStays DEF GraphBuilt, Stages
    <2>3. QED BY <1>3, <2>1, <2>2, UpdateLivenessKeeps
  <1>4. CASE SweepAgain
    <2>1. stage = "sweep" /\ UNCHANGED <<prog, blocks, succ, stage>>
      BY <1>4 DEF SweepAgain
    <2>2. GraphInv'
      BY <2>1, GraphStays DEF GraphBuilt, Stages
    <2>3. QED BY <1>4, <2>1, <2>2, SweepAgainKeeps DEF GraphInv
  <1>5. QED BY <1>1, <1>2, <1>3, <1>4 DEF LivenessNext

LEMMA LivenessStutter ==
  ASSUME GraphInv, SweepInv, UNCHANGED <<cfgVars, liveVars>>
  PROVE  GraphInv' /\ SweepInv' /\ stage' = stage
  <1>1. UNCHANGED <<prog, stage, cursor, blocks, open, succ, in, out, successorsLiveIn, modified>>
    BY DEF cfgVars, liveVars
  <1>2. GraphInv'
    <2>1. \A b : (EdgesRight(b)' <=> EdgesRight(b)) /\ LastInstr(b)' = LastInstr(b)
      BY <1>1 DEF EdgesRight, FirstOf, End, LastInstr
    <2>2. LastInstr(Len(blocks))' = LastInstr(Len(blocks))
      BY <1>1 DEF LastInstr
    <2>3. Partition(blocks, cursor - 1)' <=> Partition(blocks, cursor - 1)
      BY <1>1 DEF Partition, Clean, instrIsStartingNode, instrIsEndingNode
    <2>4. Partition(blocks, Len(prog))' <=> Partition(blocks, Len(prog))
      BY <1>1 DEF Partition, Clean, instrIsStartingNode, instrIsEndingNode
    <2>5. QED BY <1>1, <2>1, <2>2, <2>3, <2>4 DEF GraphInv
  <1>3. SweepInv'
    BY <1>1 DEF SweepInv, Live, Settled, LiveBefore
  <1>4. QED BY <1>1, <1>2, <1>3

\* The graph is what its passes have built so far, and the sweeps have lost and invented
\* nothing up to the place they have come to.
THEOREM LivenessInvariant == LivenessSpec => []LivenessInv
  <1>1. LivenessInit => LivenessInv
    <2>1. LivenessInit => stage = "blocks" /\ GraphInv /\ SweepInv
      BY GraphInit, SweepInit DEF LivenessInit, CfgInit
    <2>2. QED BY <2>1 DEF LivenessInv
  <1>2. LivenessInv /\ [LivenessNext \/ LivenessFinished]_<<cfgVars, liveVars>> => LivenessInv'
    BY LivenessStep, LivenessStutter DEF LivenessInv, LivenessFinished
  <1>3. QED BY <1>1, <1>2, PTL DEF LivenessSpec

LEMMA GraphIsTheFlow ==
  ASSUME GraphInv
  PROVE  GraphMatchesFlow
  <1> SUFFICES ASSUME GraphBuilt, NEW b \in DOMAIN blocks
               PROVE  /\ \A k \in blocks[b].first..(blocks[b].last - 1) : Flow(prog, k) = {k + 1}
                      /\ EdgesRight(b)
    BY DEF GraphMatchesFlow, EdgesRight
  <1>1. Partition(blocks, Len(prog)) /\ Len(prog) \in Nat /\ stage # "blocks"
    BY ProgFacts DEF GraphInv, GraphBuilt, CfgReady
  <1>2. b \in 1..Len(blocks) /\ Len(blocks) \in Nat /\ Clean(blocks[b])
    BY <1>1, PartitionFacts
  <1>3. EdgesRight(b)
    <2>1. CASE CfgReady
      <3>1. cursor = Len(blocks) + 1
        BY <1>2, <2>1 DEF CfgReady, GraphInv
      <3>2. QED BY <1>2, <2>1, <3>1 DEF GraphInv, CfgReady
    <2>2. CASE stage \notin {"blocks", "edges"}
      BY <2>2 DEF GraphInv
    <2>3. QED BY <2>1, <2>2 DEF GraphBuilt
  <1>4. QED BY <1>2, <1>3, FlowInside DEF Clean

LEMMA SetsTyped ==
  ASSUME LivenessInv
  PROVE  LivenessTypeOK
  <1>1. prog \in Programs /\ Len(prog) \in Nat \ {0} /\ DOMAIN prog = 1..Len(prog)
    BY ProgFacts DEF LivenessInv, GraphInv
  <1>2. CASE stage = "blocks"
    <2>1. cursor \in 1..(Len(prog) + 1) /\ Partition(blocks, cursor - 1) /\ succ = <<>>
      BY <1>2 DEF LivenessInv, GraphInv
    <2>2. cursor - 1 \in Nat
      BY <1>1, <2>1
    <2>3. \A b \in DOMAIN blocks : blocks[b].first \in 1..(cursor - 1) /\ blocks[b].last \in 1..(cursor - 1)
      BY <2>1, <2>2, PartitionFacts
    <2>4. \A k \in 1..(cursor - 1) : k \in DOMAIN prog
      BY <1>1, <2>1
    <2>5. CfgTypeOK
      BY <1>1, <1>2, <2>1, <2>3, <2>4 DEF CfgTypeOK, Stages
    <2>6. QED BY <2>5 DEF LivenessInv, SweepInv, LivenessTypeOK, Live
  <1>3. CASE stage # "blocks"
    <2>1. /\ Partition(blocks, Len(prog))
          /\ succ \in [DOMAIN blocks -> SUBSET (DOMAIN blocks \union {endingBlock})]
      BY <1>3 DEF LivenessInv, GraphInv
    <2>2. Len(blocks) \in Nat
      BY <1>1, <2>1, PartitionFacts
    <2>3. \A b \in DOMAIN blocks : blocks[b].first \in DOMAIN prog /\ blocks[b].last \in DOMAIN prog
      BY <1>1, <2>1, PartitionFacts
    <2>4. cursor \in Nat
      <3>1. CASE stage = "edges"
        BY <2>2, <3>1 DEF LivenessInv, GraphInv
      <3>2. CASE stage = "sweep"
        BY <1>1, <3>2 DEF LivenessInv, SweepInv
      <3>3. QED BY <1>3, <3>1, <3>2 DEF LivenessInv
    <2>5. CfgTypeOK
      BY <2>1, <2>3, <2>4 DEF CfgTypeOK, LivenessInv, GraphInv
    <2>6. QED BY <2>5 DEF LivenessInv, SweepInv, LivenessTypeOK, Live
  <1>4. QED BY <1>2, <1>3

LEMMA SetsHoldWhatIsLive ==
  ASSUME prog \in Programs, SweepInv, \A k \in DOMAIN prog : Settled(k)
  PROVE  \A k \in DOMAIN prog :
           LiveTable(prog)[k] \subseteq in[k] /\ LiveAfter(prog, LiveTable(prog), k) \subseteq out[k]
  <1>1. prog \in Seq(Instructions)
    BY ProgFacts
  <1>2. \A k \in DOMAIN prog : Uses(prog[k]) \ {REG_0} \subseteq in[k]
    BY DEF Settled, LiveBefore
  <1>3. ASSUME NEW k \in DOMAIN prog, NEW j \in DOMAIN prog \intersect Flow(prog, k)
        PROVE  in[j] \ Defs(prog[k]) \subseteq in[k]
    <2>1. j # End(prog)
      BY ProgFacts DEF End
    <2>2. in[j] \subseteq LiveAfter(prog, in, k)
      BY <2>1 DEF LiveAfter
    <2>3. QED BY <2>2 DEF Settled, LiveBefore
  <1>4. \A k \in DOMAIN prog : LiveTable(prog)[k] \subseteq in[k]
    BY <1>1, <1>2, <1>3, LiveTableIsLeast
  <1>5. \A k \in DOMAIN prog : LiveAfter(prog, LiveTable(prog), k) \subseteq LiveAfter(prog, in, k)
    BY <1>4, LiveAfterMonotone
  <1>6. QED BY <1>4, <1>5 DEF Settled

\* Type correctness of the analysis.
THEOREM AnalysisTyped == LivenessSpec => []LivenessTypeOK
  <1>1. LivenessInv => LivenessTypeOK
    BY SetsTyped
  <1>2. QED BY <1>1, LivenessInvariant, PTL

\* Whatever the program, the graph that programToCFG and cfgComputeTransitions
\* build leads from each instruction exactly where the program does.
THEOREM GraphCorrect == LivenessSpec => []GraphMatchesFlow
  <1>1. LivenessInv => GraphMatchesFlow
    BY GraphIsTheFlow DEF LivenessInv
  <1>2. QED BY <1>1, LivenessInvariant, PTL

\* Whatever the program and however many sweeps it takes, when cfgComputeLiveness
\* stops every temporary that some path reads is in the sets.
THEOREM NothingIsForgotten == LivenessSpec => []NothingForgotten
  <1>1. ASSUME LivenessInv, LivenessReady PROVE NothingForgotten
    <2>1. \A k \in DOMAIN prog : Settled(k)
      BY <1>1, ProgFacts DEF LivenessInv, GraphInv, SweepInv, LivenessReady
    <2>2. QED BY <1>1, <2>1, SetsHoldWhatIsLive DEF LivenessInv, GraphInv, NothingForgotten
  <1>2. LivenessInv => NothingForgotten
    BY <1>1 DEF NothingForgotten
  <1>3. QED BY <1>2, LivenessInvariant, PTL

\* Whatever the program, at no moment of a sweep do the sets hold a temporary that
\* no path reads.
THEOREM NothingIsInvented == LivenessSpec => []NeverInvented
  <1>1. LivenessInv => NeverInvented
    BY InWithinTable DEF LivenessInv, GraphInv, SweepInv, NeverInvented
  <1>2. QED BY <1>1, LivenessInvariant, PTL

-----------------------------------------------------------------------------
(* The scan *)

ScanP == INSTANCE LinearScanProofs WITH Regs <- Range(GpRegs), Inputs <- {}

-----------------------------------------------------------------------------
(* Lists of temporaries *)

\* s lists the elements of S, each once.
Lists(s, S) ==
  /\ s \in Seq(S)
  /\ Range(s) = S
  /\ \A i, j \in DOMAIN s : s[i] = s[j] => i = j

LEMMA SetToSeqsLists ==
  ASSUME NEW S, IsFiniteSet(S), NEW s \in SetToSeqs(S)
  PROVE  Lists(s, S)
  <1> DEFINE n == Cardinality(S)
  <1>1. n \in Nat
    BY FS_CardinalityType
  <1>2. s \in [1..n -> S] /\ \A i, j \in 1..n : i # j => s[i] # s[j]
    BY Zenon DEF SetToSeqs, IsInjective
  <1>3. s \in Injection(1..n, S)
    BY <1>2, Zenon DEF Injection, IsInjective
  <1>4. Cardinality(1..n) = n
    BY <1>1, FS_Interval
  <1>5. s \in Surjection(1..n, S)
    BY <1>3, <1>4, FS_Injection
  <1>6. Range(s) = S
    BY <1>2, <1>5 DEF Surjection, Range
  <1>7. s \in Seq(S)
    BY <1>1, <1>2
  <1>8. QED BY <1>2, <1>6, <1>7 DEF Lists

LEMMA ConcatLists ==
  ASSUME NEW A, NEW B, NEW a, NEW b, Lists(a, A), Lists(b, B), A \intersect B = {}
  PROVE  Lists(a \o b, A \union B)
  <1>1. /\ a \in Seq(A) /\ b \in Seq(B) /\ Range(a) = A /\ Range(b) = B
        /\ \A i, j \in DOMAIN a : a[i] = a[j] => i = j
        /\ \A i, j \in DOMAIN b : b[i] = b[j] => i = j
    BY DEF Lists
  <1> DEFINE c == a \o b
             m == Len(a)
             n == Len(b)
  <1>2. a \in Seq(A \union B) /\ b \in Seq(A \union B)
    BY <1>1
  <1>3. /\ m \in Nat /\ n \in Nat /\ DOMAIN a = 1..m /\ DOMAIN b = 1..n
        /\ c \in Seq(A \union B) /\ DOMAIN c = 1..(m + n)
        /\ \A i \in 1..m : c[i] = a[i] /\ a[i] \in A
        /\ \A i \in (m + 1)..(m + n) : c[i] = b[i - m] /\ i - m \in 1..n /\ b[i - m] \in B
        /\ \A i \in 1..n : c[m + i] = b[i] /\ m + i \in 1..(m + n)
    BY <1>1, <1>2
  <1> HIDE DEF c, m, n
  <1>4. \A i \in DOMAIN c : i \in 1..m \/ i \in (m + 1)..(m + n)
    BY <1>3
  <1>5. ASSUME NEW i \in DOMAIN c, NEW j \in DOMAIN c, c[i] = c[j]
        PROVE  i = j
    <2>1. CASE i \in 1..m /\ j \in 1..m
      BY <2>1, <1>1, <1>3, <1>5
    <2>2. CASE i \in (m + 1)..(m + n) /\ j \in (m + 1)..(m + n)
      <3>1. i - m = j - m
        BY <2>2, <1>1, <1>3, <1>5
      <3>2. QED BY <3>1, <2>2, <1>3
    <2>3. QED BY <2>1, <2>2, <1>3, <1>4, <1>5
  <1>6. Range(c) = A \union B
    <2>1. ASSUME NEW x \in A PROVE \E i \in DOMAIN c : c[i] = x
      <3>1. PICK i \in 1..m : a[i] = x
        BY <1>1, <1>3 DEF Range
      <3>2. QED BY <3>1, <1>3
    <2>2. ASSUME NEW x \in B PROVE \E i \in DOMAIN c : c[i] = x
      <3>1. PICK i \in 1..n : b[i] = x
        BY <1>1, <1>3 DEF Range
      <3>2. QED BY <3>1, <1>3
    <2>3. \A i \in DOMAIN c : c[i] \in A \union B
      BY <1>3, <1>4
    <2>4. QED BY <2>1, <2>2, <2>3 DEF Range
  <1>7. Lists(c, A \union B)
    BY <1>3, <1>5, <1>6 DEF Lists
  <1>8. QED BY <1>7 DEF c

\* A program names finitely many temporaries.
LEMMA TempsFinite ==
  ASSUME NEW prg \in Seq(Instructions)
  PROVE  IsFiniteSet(TempsOf(prg))
  <1> DEFINE N       == Len(prg)
             Named(k) == Defs(prg[k]) \union Uses(prg[k])
             S       == {n \in Nat : IsFiniteSet(UNION {Named(k) : k \in 1..n})}
  <1>1. 0 \in S
    <2>1. UNION {Named(k) : k \in 1..0} = {}
      OBVIOUS
    <2>2. QED BY <2>1, FS_EmptySet
  <1>2. \A k : IsFiniteSet(Named(k))
    <2>1. TAKE k
    <2> DEFINE T == ({} \union {prg[k].rDest.ID}) \union {prg[k].rSrc1.ID} \union {prg[k].rSrc2.ID}
    <2>2. IsFiniteSet(T)
      BY FS_EmptySet, FS_AddElement
    <2>3. Named(k) \in SUBSET T
      BY DEF Defs, Uses
    <2> HIDE DEF T
    <2>4. QED BY <2>2, <2>3, FS_Subset
  <1>3. ASSUME NEW n \in Nat, n \in S PROVE n + 1 \in S
    <2> DEFINE U(m) == UNION {Named(k) : k \in 1..m}
    <2>1. U(n + 1) = U(n) \union Named(n + 1)
      <3>1. \A k : k \in 1..(n + 1) <=> k \in 1..n \/ k = n + 1
        OBVIOUS
      <3>2. ASSUME NEW x PROVE x \in U(n + 1) <=> x \in U(n) \/ x \in Named(n + 1)
        <4> HIDE DEF Named
        <4>1. x \in U(n + 1) <=> \E k \in 1..(n + 1) : x \in Named(k)
          OBVIOUS
        <4>2. x \in U(n) <=> \E k \in 1..n : x \in Named(k)
          OBVIOUS
        <4>3. QED BY <3>1, <4>1, <4>2
      <3> HIDE DEF U
      <3>3. QED BY <3>2
    <2>2. IsFiniteSet(U(n)) /\ IsFiniteSet(Named(n + 1))
      BY <1>2, <1>3
    <2>3. IsFiniteSet(U(n + 1))
      <3> HIDE DEF U, Named
      <3>1. IsFiniteSet(U(n) \union Named(n + 1))
        BY <2>2, FS_Union, Zenon
      <3>2. QED BY <2>1, <3>1
    <2>4. QED BY <2>3
  <1> HIDE DEF S
  <1>4. \A n \in Nat : n \in S
    BY <1>1, <1>3, InductiveSet
  <1>5. N \in S
    BY <1>4
  <1>6. TempsOf(prg) = UNION {Named(k) : k \in 1..N}
    BY DEF TempsOf
  <1>7. QED BY <1>5, <1>6 DEF S

-----------------------------------------------------------------------------
(* Lists of registers *)

\* A list with elements of R.
LEMMA ListWithin ==
  ASSUME NEW s \in Seq(Nat), NEW R, Range(s) \subseteq R
  PROVE  s \in Seq(R)
  <1>1. \A i \in 1..Len(s) : s[i] \in R
    BY DEF Range
  <1>2. QED BY <1>1

\* f[n] is the result of the steps G[1], ..., G[n] from a.
Iterates(f, a, G, N) == f = [n \in 0..N |-> IF n = 0 THEN a ELSE G[n][f[n - 1]]]

LEMMA IterationExists ==
  ASSUME NEW X, NEW a \in X, NEW N \in Nat, NEW G \in [1..N -> [X -> X]]
  PROVE  \E f \in [0..N -> X] : Iterates(f, a, G, N)
  <1> DEFINE Up(f, n) == f = [i \in 0..n |-> IF i = 0 THEN a ELSE G[i][f[i - 1]]]
             S == {n \in Nat : n <= N => \E f \in [0..n -> X] : Up(f, n)}
  <1>1. 0 \in S
    <2> DEFINE f == [i \in 0..0 |-> a]
    <2>1. f \in [0..0 -> X] /\ Up(f, 0)
      OBVIOUS
    <2>2. QED BY <2>1
  <1>2. ASSUME NEW n \in Nat, n \in S
        PROVE  n + 1 \in S
    <2> SUFFICES ASSUME n + 1 <= N PROVE \E g \in [0..(n + 1) -> X] : Up(g, n + 1)
      OBVIOUS
    <2>1. PICK f \in [0..n -> X] : Up(f, n)
      BY <1>2
    <2> DEFINE g == [i \in 0..(n + 1) |-> IF i = n + 1 THEN G[n + 1][f[n]] ELSE f[i]]
    <2>2. G[n + 1][f[n]] \in X
      BY <2>1
    <2>3. g \in [0..(n + 1) -> X]
      BY <2>1, <2>2
    <2>4. \A i \in 0..n : g[i] = f[i] /\ f[i] = IF i = 0 THEN a ELSE G[i][f[i - 1]]
      BY <2>1
    <2>5. \A i \in 0..(n + 1) : g[i] = IF i = 0 THEN a ELSE G[i][g[i - 1]]
      <3>1. g[n + 1] = G[n + 1][f[n]] /\ g[n] = f[n] /\ (n + 1) - 1 = n /\ n + 1 # 0
        BY <2>4
      <3> HIDE DEF g
      <3>2. \A i \in 1..n : i - 1 \in 0..n /\ i \in 0..n /\ i # 0
        OBVIOUS
      <3>3. \A i \in 1..n : g[i] = G[i][g[i - 1]]
        BY <2>4, <3>2
      <3>4. g[0] = a
        BY <2>4
      <3>5. \A i \in 0..(n + 1) : i = 0 \/ i \in 1..n \/ i = n + 1
        OBVIOUS
      <3>6. QED BY <3>1, <3>3, <3>4, <3>5
    <2>6. Up(g, n + 1)
      BY <2>5
    <2>7. QED BY <2>3, <2>6
  <1> HIDE DEF S
  <1>3. \A n \in Nat : n \in S
    BY <1>1, <1>2, InductiveSet
  <1>4. N \in S
    BY <1>3
  <1>5. QED BY <1>4 DEF S, Iterates

LEMMA WithoutFacts ==
  ASSUME NEW regs \in Seq(Nat), NEW S
  PROVE  Without(regs, S) \in Seq(Nat) /\ Range(Without(regs, S)) = Range(regs) \ S
  <1> DEFINE N == Len(regs)
             step(s, n) == IF regs[n] \in S THEN s ELSE Append(s, regs[n])
             G == [n \in 1..N |-> [s \in Seq(Nat) |-> step(s, n)]]
             Kept(f) == f = [n \in 0..N |->
                               IF n = 0 THEN <<>>
                               ELSE IF regs[n] \in S THEN f[n - 1] ELSE Append(f[n - 1], regs[n])]
  <1>1. N \in Nat /\ \A n \in 1..N : regs[n] \in Nat
    OBVIOUS
  <1>2. \E f : Kept(f)
    <2>1. \A n \in 1..N : \A s \in Seq(Nat) : step(s, n) \in Seq(Nat)
      BY <1>1
    <2>2. G \in [1..N -> [Seq(Nat) -> Seq(Nat)]]
      <3> HIDE DEF step, N
      <3>1. QED BY <2>1
    <2>3. <<>> \in Seq(Nat)
      OBVIOUS
    <2>4. PICK f \in [0..N -> Seq(Nat)] : Iterates(f, <<>>, G, N)
      <3> DEFINE L == Seq(Nat)
                 empty == <<>>
      <3>1. empty \in L /\ G \in [1..N -> [L -> L]]
        BY <2>2, <2>3
      <3> HIDE DEF G, N, L, empty
      <3>2. \E f \in [0..N -> L] : Iterates(f, empty, G, N)
        BY <1>1, <3>1, IterationExists, Zenon
      <3>3. QED BY <3>2 DEF L, empty
    <2>5. \A n \in 1..N : f[n - 1] \in Seq(Nat) /\ n \in 0..N /\ n # 0
      <3> HIDE DEF N, G
      <3>1. \A n \in 1..N : n - 1 \in 0..N /\ n \in 0..N /\ n # 0
        BY <1>1
      <3>2. QED BY <3>1, <2>4
    <2>6. \A n \in 1..N : \A s \in Seq(Nat) : G[n][s] = step(s, n)
      <3> HIDE DEF step, N
      <3>1. QED OBVIOUS
    <2>7. f = [n \in 0..N |-> IF n = 0 THEN <<>> ELSE step(f[n - 1], n)]
      <3> HIDE DEF G, step, N
      <3>1. f = [n \in 0..N |-> IF n = 0 THEN <<>> ELSE G[n][f[n - 1]]]
        BY <2>4 DEF Iterates
      <3>2. \A n \in 0..N : (IF n = 0 THEN <<>> ELSE G[n][f[n - 1]]) = IF n = 0 THEN <<>> ELSE step(f[n - 1], n)
        <4>1. \A n \in 0..N : n = 0 \/ n \in 1..N
          BY <1>1
        <4>2. QED BY <4>1, <2>5, <2>6
      <3>3. QED BY <3>1, <3>2, Zenon
    <2>8. Kept(f)
      BY <2>7
    <2>9. QED BY <2>8
  <1> DEFINE kept == CHOOSE f : Kept(f)
  <1>3. Kept(kept)
    BY <1>2
  <1>4. Without(regs, S) = kept[N]
    BY DEF Without
  <1> HIDE DEF kept
  <1> DEFINE Z == {n \in Nat : n <= N => kept[n] \in Seq(Nat) /\ Range(kept[n]) = {regs[i] : i \in 1..n} \ S}
  <1>5. 0 \in Z
    <2>1. kept[0] = <<>>
      BY <1>1, <1>3
    <2>2. Range(<<>>) = {} /\ {regs[i] : i \in 1..0} = {}
      BY DEF Range
    <2>3. kept[0] \in Seq(Nat) /\ Range(kept[0]) = {regs[i] : i \in 1..0} \ S
      BY <2>1, <2>2
    <2>4. QED BY <2>3
  <1>6. ASSUME NEW n \in Nat, n \in Z
        PROVE  n + 1 \in Z
    <2> SUFFICES ASSUME n + 1 <= N
                 PROVE  kept[n + 1] \in Seq(Nat) /\ Range(kept[n + 1]) = {regs[i] : i \in 1..(n + 1)} \ S
      OBVIOUS
    <2>1. kept[n] \in Seq(Nat) /\ Range(kept[n]) = {regs[i] : i \in 1..n} \ S
      BY <1>1, <1>6
    <2>2. kept[n + 1] = IF regs[n + 1] \in S THEN kept[n] ELSE Append(kept[n], regs[n + 1])
      <3>1. n + 1 \in 0..N /\ n + 1 # 0 /\ (n + 1) - 1 = n
        BY <1>1
      <3>2. QED BY <1>3, <3>1
    <2>3. regs[n + 1] \in Nat
      BY <1>1
    <2>4. {regs[i] : i \in 1..(n + 1)} = {regs[i] : i \in 1..n} \union {regs[n + 1]}
      <3>1. \A i : i \in 1..(n + 1) <=> i \in 1..n \/ i = n + 1
        OBVIOUS
      <3>2. QED BY <3>1
    <2>5. Range(Append(kept[n], regs[n + 1])) = Range(kept[n]) \union {regs[n + 1]}
      <3> DEFINE a == Append(kept[n], regs[n + 1])
                 m == Len(kept[n])
      <3>1. /\ m \in Nat /\ DOMAIN a = 1..(m + 1) /\ DOMAIN kept[n] = 1..m
            /\ \A i \in 1..m : a[i] = kept[n][i]
            /\ a[m + 1] = regs[n + 1]
        BY <2>1, <2>3
      <3> HIDE DEF a, m
      <3>2. \A i : i \in 1..(m + 1) <=> i \in 1..m \/ i = m + 1
        BY <3>1
      <3>3. Range(a) = Range(kept[n]) \union {regs[n + 1]}
        BY <3>1, <3>2 DEF Range
      <3>4. QED BY <3>3 DEF a
    <2>6. CASE regs[n + 1] \in S
      BY <2>1, <2>2, <2>4, <2>6
    <2>7. CASE regs[n + 1] \notin S
      BY <2>1, <2>2, <2>3, <2>4, <2>5, <2>7
    <2>8. QED BY <2>6, <2>7
  <1> HIDE DEF Z
  <1>7. \A n \in Nat : n \in Z
    BY <1>5, <1>6, InductiveSet
  <1>8. N \in Z
    BY <1>1, <1>7
  <1>9. kept[N] \in Seq(Nat) /\ Range(kept[N]) = {regs[i] : i \in 1..N} \ S
    BY <1>1, <1>8 DEF Z
  <1>10. Range(regs) = {regs[i] : i \in 1..N}
    BY DEF Range
  <1>11. QED BY <1>4, <1>9, <1>10

LEMMA ToFrontFacts ==
  ASSUME NEW regs \in Seq(Nat), NEW r \in Nat
  PROVE  ToFront(regs, r) \in Seq(Nat) /\ Range(ToFront(regs, r)) = Range(regs)
  <1> SUFFICES ASSUME r \in Range(regs) PROVE ToFront(regs, r) \in Seq(Nat) /\ Range(ToFront(regs, r)) = Range(regs)
    BY DEF ToFront
  <1> DEFINE w == Without(regs, {r})
             c == <<r>> \o w
             m == Len(w)
  <1>1. w \in Seq(Nat) /\ Range(w) = Range(regs) \ {r}
    BY WithoutFacts
  <1>2. ToFront(regs, r) = c
    BY DEF ToFront
  <1> HIDE DEF w
  <1>3. /\ c \in Seq(Nat) /\ m \in Nat /\ DOMAIN c = 1..(m + 1) /\ DOMAIN w = 1..m /\ c[1] = r
        /\ \A i \in 1..m : c[i + 1] = w[i]
        /\ \A i \in 2..(m + 1) : c[i] = w[i - 1]
    BY <1>1
  <1> HIDE DEF c, m
  <1>4. /\ \A i \in 1..m : i + 1 \in 1..(m + 1)
        /\ 1 \in 1..(m + 1)
        /\ \A i \in 1..(m + 1) : i = 1 \/ (i \in 2..(m + 1) /\ i - 1 \in 1..m)
    BY <1>3
  <1>5. Range(c) = Range(w) \union {r}
    <2>1. Range(c) = {c[i] : i \in 1..(m + 1)} /\ Range(w) = {w[i] : i \in 1..m}
      BY <1>3 DEF Range
    <2>2. \A x \in Range(w) : \E i \in 1..(m + 1) : c[i] = x
      <3>1. SUFFICES ASSUME NEW i \in 1..m PROVE \E j \in 1..(m + 1) : c[j] = w[i]
        BY <2>1
      <3>2. i + 1 \in 1..(m + 1) /\ c[i + 1] = w[i]
        BY <1>3, <1>4
      <3>3. QED BY <3>2
    <2>3. \A i \in 1..(m + 1) : c[i] = r \/ c[i] \in Range(w)
      BY <1>3, <1>4, <2>1
    <2>4. \E i \in 1..(m + 1) : c[i] = r
      BY <1>3, <1>4
    <2>5. QED BY <2>1, <2>2, <2>3, <2>4
  <1>6. QED BY <1>1, <1>2, <1>3, <1>5

LEMMA optimizeRegisterSetFacts ==
  ASSUME NEW regs \in Seq(Nat), NEW pref \in Seq(Nat)
  PROVE  optimizeRegisterSet(regs, pref) \in Seq(Nat) /\ Range(optimizeRegisterSet(regs, pref)) = Range(regs)
  <1> DEFINE N == Len(pref)
             G == [n \in 1..N |-> [s \in Seq(Nat) |-> ToFront(s, pref[n])]]
             After(f) == f = [n \in 0..N |-> IF n = 0 THEN regs ELSE ToFront(f[n - 1], pref[n])]
  <1>1. N \in Nat /\ \A n \in 1..N : pref[n] \in Nat
    OBVIOUS
  <1>2. \E f : After(f)
    <2>1. G \in [1..N -> [Seq(Nat) -> Seq(Nat)]]
      <3> HIDE DEF N
      <3>1. QED BY <1>1, ToFrontFacts
    <2>2. PICK f \in [0..N -> Seq(Nat)] : Iterates(f, regs, G, N)
      <3> DEFINE L == Seq(Nat)
      <3>1. regs \in L /\ G \in [1..N -> [L -> L]]
        BY <2>1
      <3> HIDE DEF G, N, L
      <3>2. \E f \in [0..N -> L] : Iterates(f, regs, G, N)
        BY <1>1, <3>1, IterationExists, Zenon
      <3>3. QED BY <3>2 DEF L
    <2>3. \A n \in 1..N : G[n][f[n - 1]] = ToFront(f[n - 1], pref[n])
      <3>1. \A n \in 1..N : \A s \in Seq(Nat) : G[n][s] = ToFront(s, pref[n])
        OBVIOUS
      <3> HIDE DEF N, G
      <3>2. \A n \in 1..N : n - 1 \in 0..N
        BY <1>1
      <3>3. QED BY <3>1, <3>2, <2>2
    <2>4. f = [n \in 0..N |-> IF n = 0 THEN regs ELSE ToFront(f[n - 1], pref[n])]
      <3> HIDE DEF G, N
      <3>1. f = [n \in 0..N |-> IF n = 0 THEN regs ELSE G[n][f[n - 1]]]
        BY <2>2 DEF Iterates
      <3>2. \A n \in 0..N : (IF n = 0 THEN regs ELSE G[n][f[n - 1]]) = IF n = 0 THEN regs ELSE ToFront(f[n - 1], pref[n])
        <4>1. \A n \in 0..N : n = 0 \/ n \in 1..N
          BY <1>1
        <4>2. QED BY <4>1, <2>3
      <3>3. QED BY <3>1, <3>2, Zenon
    <2>5. After(f)
      BY <2>4
    <2>6. QED BY <2>5
  <1> DEFINE after == CHOOSE f : After(f)
  <1>3. After(after)
    BY <1>2
  <1>4. optimizeRegisterSet(regs, pref) = after[N]
    BY DEF optimizeRegisterSet
  <1> HIDE DEF after
  <1> DEFINE Z == {n \in Nat : n <= N => after[n] \in Seq(Nat) /\ Range(after[n]) = Range(regs)}
  <1>5. 0 \in Z
    BY <1>1, <1>3
  <1>6. ASSUME NEW n \in Nat, n \in Z
        PROVE  n + 1 \in Z
    <2> SUFFICES ASSUME n + 1 <= N
                 PROVE  after[n + 1] \in Seq(Nat) /\ Range(after[n + 1]) = Range(regs)
      OBVIOUS
    <2>1. after[n] \in Seq(Nat) /\ Range(after[n]) = Range(regs) /\ pref[n + 1] \in Nat
      BY <1>1, <1>6
    <2>2. after[n + 1] = ToFront(after[n], pref[n + 1])
      BY <1>1, <1>3
    <2>3. QED BY <2>1, <2>2, ToFrontFacts
  <1> HIDE DEF Z
  <1>7. \A n \in Nat : n \in Z
    BY <1>5, <1>6, InductiveSet
  <1>8. N \in Z
    BY <1>1, <1>7
  <1>9. QED BY <1>1, <1>4, <1>8 DEF Z

-----------------------------------------------------------------------------
(* The registers the occurrences of a temporary allow it *)

\* Argument arg is an occurrence of t that must be in given registers.
Asks(arg, t) == arg.ID = t /\ arg.mcRegWhitelist # <<>>

GeneralRegs == Range(GpRegs)

LEMMA GpRegsFacts == Temps \subseteq Nat /\ GeneralRegs \subseteq Nat \ {REG_0} /\ GpRegs \in Seq(Nat)
  <1>1. \A i \in DOMAIN GpRegs : GpRegs[i] \in Nat \ {REG_0}
    BY GpRegsAssumption
  <1>2. GpRegs \in Seq(Nat)
    BY GpRegsAssumption
  <1>3. QED BY <1>1, <1>2, TempsAssumption DEF Range, GeneralRegs

LEMMA ListsOfRegs ==
  ASSUME NEW s
  PROVE  s \in Seq(GeneralRegs) <=> s \in Seq(Nat) /\ Range(s) \subseteq GeneralRegs
  <1>1. s \in Seq(GeneralRegs) => s \in Seq(Nat) /\ Range(s) \subseteq GeneralRegs
    <2> SUFFICES ASSUME s \in Seq(GeneralRegs) PROVE s \in Seq(Nat) /\ Range(s) \subseteq GeneralRegs
      OBVIOUS
    <2>1. \A i \in DOMAIN s : s[i] \in GeneralRegs
      OBVIOUS
    <2>2. s \in Seq(Nat)
      <3>1. \A i \in DOMAIN s : s[i] \in Nat
        BY <2>1, GpRegsFacts
      <3>2. Len(s) \in Nat /\ DOMAIN s = 1..Len(s) /\ s = [i \in 1..Len(s) |-> s[i]]
        OBVIOUS
      <3>3. QED BY <3>1, <3>2
    <2>3. QED BY <2>1, <2>2 DEF Range
  <1>2. QED BY <1>1, ListWithin

\* An occurrence that asks nothing changes nothing, the first that asks sets the list,
\* and the others narrow it.
LEMMA NarrowedByFacts ==
  ASSUME NEW regs \in Seq(Nat), NEW arg, NEW t, Asks(arg, t) => arg.mcRegWhitelist \in Seq(Nat)
  PROVE  /\ NarrowedBy(regs, arg, t) \in Seq(Nat)
         /\ ~Asks(arg, t) => NarrowedBy(regs, arg, t) = regs
         /\ Asks(arg, t) /\ regs = <<>> => NarrowedBy(regs, arg, t) = arg.mcRegWhitelist
         /\ Asks(arg, t) /\ regs # <<>> =>
              Range(NarrowedBy(regs, arg, t)) = Range(regs) \intersect Range(arg.mcRegWhitelist)
  <1> DEFINE w == Without(regs, Range(regs) \ Range(arg.mcRegWhitelist))
  <1>1. w \in Seq(Nat) /\ Range(w) = Range(regs) \ (Range(regs) \ Range(arg.mcRegWhitelist))
    BY WithoutFacts
  <1>2. NarrowedBy(regs, arg, t) = IF ~Asks(arg, t) THEN regs ELSE IF regs = <<>> THEN arg.mcRegWhitelist ELSE w
    BY DEF NarrowedBy, Asks
  <1> HIDE DEF w
  <1>3. QED BY <1>1, <1>2

\* What is left after the arguments of one instruction.
NarrowedByAll(regs, i, t) == NarrowedBy(NarrowedBy(NarrowedBy(regs, i.rDest, t), i.rSrc1, t), i.rSrc2, t)

LEMMA ArgsOfProgram ==
  ASSUME NEW p \in Programs
  PROVE  /\ Len(p) \in Nat /\ DOMAIN p = 1..Len(p)
         /\ \A k \in DOMAIN p : \A a \in 1..3 :
              /\ Args(p[k])[a].mcRegWhitelist \in Seq(Nat)
              /\ Range(Args(p[k])[a].mcRegWhitelist) \subseteq GeneralRegs
         /\ \A k \in DOMAIN p : /\ Args(p[k])[1] = p[k].rDest
                                /\ Args(p[k])[2] = p[k].rSrc1
                                /\ Args(p[k])[3] = p[k].rSrc2
  <1>1. p \in Seq(Instructions)
    BY ProgramsAssumption
  <1>2. \A k \in DOMAIN p : \A a \in 1..3 : Args(p[k])[a].mcRegWhitelist \in Seq(GeneralRegs)
    BY WhitelistsAssumption DEF GeneralRegs
  <1>3. QED BY <1>1, <1>2, ListsOfRegs DEF Args

LEMMA WhitelistUnfolds ==
  ASSUME NEW p \in Programs, NEW t
  PROVE  \E f : /\ f[0] = <<>> /\ f[Len(p)] = mcRegWhitelist(p, t)
                /\ \A n \in 1..Len(p) : f[n] = NarrowedByAll(f[n - 1], p[n], t)
                /\ \A n \in 0..Len(p) : f[n] \in Seq(Nat)
  <1> DEFINE N == Len(p)
             L == Seq(Nat)
             G == [n \in 1..N |-> [s \in L |-> NarrowedByAll(s, p[n], t)]]
             After(f) == f = [k \in 0..N |->
                                IF k = 0 THEN <<>>
                                ELSE NarrowedBy(NarrowedBy(NarrowedBy(f[k - 1], p[k].rDest, t), p[k].rSrc1, t), p[k].rSrc2, t)]
  <1>1. N \in Nat /\ \A n \in 1..N : n - 1 \in 0..N /\ n \in 0..N /\ n # 0
    BY ArgsOfProgram
  <1>2. \A n \in 1..N : \A s \in L : NarrowedByAll(s, p[n], t) \in L
    <2> SUFFICES ASSUME NEW n \in 1..N, NEW s \in L PROVE NarrowedByAll(s, p[n], t) \in L
      OBVIOUS
    <2>1. /\ p[n].rDest.mcRegWhitelist \in Seq(Nat)
          /\ p[n].rSrc1.mcRegWhitelist \in Seq(Nat)
          /\ p[n].rSrc2.mcRegWhitelist \in Seq(Nat)
      BY ArgsOfProgram
    <2>2. NarrowedBy(s, p[n].rDest, t) \in Seq(Nat)
      BY <2>1, NarrowedByFacts
    <2>3. NarrowedBy(NarrowedBy(s, p[n].rDest, t), p[n].rSrc1, t) \in Seq(Nat)
      BY <2>1, <2>2, NarrowedByFacts
    <2>4. QED BY <2>1, <2>3, NarrowedByFacts DEF NarrowedByAll
  <1>3. <<>> \in L
    OBVIOUS
  <1>4. \E f : After(f)
    <2>1. G \in [1..N -> [L -> L]] /\ \A n \in 1..N : \A s \in L : G[n][s] = NarrowedByAll(s, p[n], t)
      <3> HIDE DEF N, L
      <3>1. QED BY <1>2
    <2>2. PICK f \in [0..N -> L] : Iterates(f, <<>>, G, N)
      <3> DEFINE empty == <<>>
      <3>1. empty \in L
        BY <1>3
      <3> HIDE DEF G, N, L, empty
      <3>2. \E f \in [0..N -> L] : Iterates(f, empty, G, N)
        BY <1>1, <2>1, <3>1, IterationExists, Zenon
      <3>3. QED BY <3>2 DEF empty
    <2> HIDE DEF G, N, L
    <2>3. \A n \in 1..N : G[n][f[n - 1]] = NarrowedByAll(f[n - 1], p[n], t)
      BY <1>1, <2>1, <2>2
    <2>4. f = [n \in 0..N |-> IF n = 0 THEN <<>> ELSE NarrowedByAll(f[n - 1], p[n], t)]
      <3>1. f = [n \in 0..N |-> IF n = 0 THEN <<>> ELSE G[n][f[n - 1]]]
        BY <2>2 DEF Iterates
      <3>2. \A n \in 0..N : (IF n = 0 THEN <<>> ELSE G[n][f[n - 1]]) = IF n = 0 THEN <<>> ELSE NarrowedByAll(f[n - 1], p[n], t)
        <4>1. \A n \in 0..N : n = 0 \/ n \in 1..N
          BY <1>1
        <4>2. QED BY <4>1, <2>3
      <3>3. QED BY <3>1, <3>2, Zenon
    <2>5. After(f)
      BY <2>4 DEF NarrowedByAll
    <2>6. QED BY <2>5
  <1> DEFINE f == CHOOSE f : After(f)
  <1>5. After(f)
    BY <1>4
  <1>6. mcRegWhitelist(p, t) = f[N]
    BY DEF mcRegWhitelist
  <1> HIDE DEF f, N, L
  <1>7. f[0] = <<>> /\ \A n \in 1..N : f[n] = NarrowedByAll(f[n - 1], p[n], t)
    BY <1>1, <1>5 DEF NarrowedByAll
  <1> DEFINE Z == {n \in Nat : n <= N => f[n] \in L}
  <1>8. 0 \in Z
    BY <1>3, <1>7
  <1>9. ASSUME NEW n \in Nat, n \in Z
        PROVE  n + 1 \in Z
    <2> SUFFICES ASSUME n + 1 <= N PROVE f[n + 1] \in L
      OBVIOUS
    <2>1. n <= N /\ n + 1 \in 1..N /\ (n + 1) - 1 = n
      BY <1>1
    <2>2. f[n] \in L
      BY <1>9, <2>1
    <2>3. QED BY <1>2, <1>7, <2>1, <2>2
  <1> HIDE DEF Z
  <1>10. \A n \in Nat : n \in Z
    BY <1>8, <1>9, InductiveSet
  <1>11. \A n \in 0..N : f[n] \in L
    BY <1>1, <1>10 DEF Z
  <1>12. QED BY <1>6, <1>7, <1>11 DEF N, L

LEMMA WhitelistTyped ==
  ASSUME NEW p \in Programs, NEW t
  PROVE  mcRegWhitelist(p, t) \in Seq(GeneralRegs)
  <1> DEFINE N == Len(p)
  <1>1. PICK f : /\ f[0] = <<>> /\ f[N] = mcRegWhitelist(p, t)
                 /\ \A n \in 1..N : f[n] = NarrowedByAll(f[n - 1], p[n], t)
                 /\ \A n \in 0..N : f[n] \in Seq(Nat)
    BY WhitelistUnfolds
  <1>2. N \in Nat
    BY ArgsOfProgram
  <1> HIDE DEF N
  <1> DEFINE Z == {n \in Nat : n <= N => Range(f[n]) \subseteq GeneralRegs}
  <1>3. 0 \in Z
    BY <1>1 DEF Range
  <1>4. ASSUME NEW n \in Nat, n \in Z
        PROVE  n + 1 \in Z
    <2> SUFFICES ASSUME n + 1 <= N PROVE Range(f[n + 1]) \subseteq GeneralRegs
      OBVIOUS
    <2>1. n \in 0..N /\ n + 1 \in 1..N /\ (n + 1) - 1 = n /\ n + 1 \in DOMAIN p
      BY <1>2, ArgsOfProgram DEF N
    <2>2. f[n] \in Seq(Nat) /\ Range(f[n]) \subseteq GeneralRegs
      BY <1>1, <1>4, <2>1
    <2>3. ASSUME NEW s \in Seq(Nat), Range(s) \subseteq GeneralRegs, NEW a \in 1..3
          PROVE  NarrowedBy(s, Args(p[n + 1])[a], t) \in Seq(Nat) /\ Range(NarrowedBy(s, Args(p[n + 1])[a], t)) \subseteq GeneralRegs
      <3> DEFINE arg == Args(p[n + 1])[a]
                 w == NarrowedBy(s, arg, t)
      <3>1. arg.mcRegWhitelist \in Seq(Nat) /\ Range(arg.mcRegWhitelist) \subseteq GeneralRegs
        BY <2>1, ArgsOfProgram
      <3> HIDE DEF arg
      <3>2. /\ w \in Seq(Nat)
            /\ w = s \/ w = arg.mcRegWhitelist \/ Range(w) = Range(s) \intersect Range(arg.mcRegWhitelist)
        BY <3>1, NarrowedByFacts
      <3> HIDE DEF w
      <3>3. w \in Seq(Nat) /\ Range(w) \subseteq GeneralRegs
        BY <2>3, <3>1, <3>2
      <3>4. QED BY <3>3 DEF w, arg
    <2>4. /\ Args(p[n + 1])[1] = p[n + 1].rDest
          /\ Args(p[n + 1])[2] = p[n + 1].rSrc1
          /\ Args(p[n + 1])[3] = p[n + 1].rSrc2
      BY <2>1, ArgsOfProgram
    <2> DEFINE s1 == NarrowedBy(f[n], p[n + 1].rDest, t)
               s2 == NarrowedBy(s1, p[n + 1].rSrc1, t)
               s3 == NarrowedBy(s2, p[n + 1].rSrc2, t)
    <2>5. f[n + 1] = s3
      BY <1>1, <2>1 DEF NarrowedByAll
    <2>6. s1 \in Seq(Nat) /\ Range(s1) \subseteq GeneralRegs
      BY <2>2, <2>3, <2>4
    <2> HIDE DEF s1
    <2>7. s2 \in Seq(Nat) /\ Range(s2) \subseteq GeneralRegs
      BY <2>3, <2>4, <2>6
    <2> HIDE DEF s2
    <2>8. Range(s3) \subseteq GeneralRegs
      BY <2>3, <2>4, <2>7
    <2>9. QED BY <2>5, <2>8
  <1> HIDE DEF Z
  <1>5. \A n \in Nat : n \in Z
    BY <1>3, <1>4, InductiveSet
  <1>6. Range(f[N]) \subseteq GeneralRegs /\ f[N] \in Seq(Nat)
    BY <1>1, <1>2, <1>5 DEF Z
  <1>7. QED BY <1>1, <1>6, ListsOfRegs

\* Of a temporary whose constrained occurrences all ask for the registers R, the
\* whitelist holds R; without such an occurrence it is empty.
LEMMA WhitelistIs ==
  ASSUME NEW p \in Programs, NEW t, NEW R, R # {},
         \A k \in DOMAIN p : \A a \in 1..3 :
           Asks(Args(p[k])[a], t) => Range(Args(p[k])[a].mcRegWhitelist) = R
  PROVE  IF \E k \in DOMAIN p : \E a \in 1..3 : Asks(Args(p[k])[a], t)
           THEN Range(mcRegWhitelist(p, t)) = R
           ELSE mcRegWhitelist(p, t) = <<>>
  <1> DEFINE N == Len(p)
             Asked(k) == \E a \in 1..3 : Asks(Args(p[k])[a], t)
             Narrow(s, some) == IF some THEN Range(s) = R ELSE s = <<>>
  <1>1. PICK f : /\ f[0] = <<>> /\ f[N] = mcRegWhitelist(p, t)
                 /\ \A n \in 1..N : f[n] = NarrowedByAll(f[n - 1], p[n], t)
                 /\ \A n \in 0..N : f[n] \in Seq(Nat)
    BY WhitelistUnfolds
  <1>2. N \in Nat /\ DOMAIN p = 1..N
    BY ArgsOfProgram
  <1>3. Range(<<>>) = {}
    BY DEF Range
  <1> DEFINE Z == {n \in Nat : n <= N => Narrow(f[n], \E k \in 1..n : Asked(k))}
  <1>4. 0 \in Z
    BY <1>1
  <1>5. ASSUME NEW n \in Nat, n \in Z
        PROVE  n + 1 \in Z
    <2> DEFINE m == n + 1
               some == \E k \in 1..n : Asked(k)
    <2> SUFFICES ASSUME m <= N PROVE Narrow(f[m], \E k \in 1..m : Asked(k))
      OBVIOUS
    <2>1. n \in 0..N /\ m \in 1..N /\ m - 1 = n /\ m \in DOMAIN p
      BY <1>2
    <2>2. f[n] \in Seq(Nat) /\ Narrow(f[n], some)
      BY <1>1, <1>5, <2>1
    <2>3. (\E k \in 1..m : Asked(k)) <=> some \/ Asked(m)
      <3>1. \A k : k \in 1..m <=> k \in 1..n \/ k = m
        OBVIOUS
      <3> HIDE DEF Asked, m
      <3>2. QED BY <3>1
    <2>4. ASSUME NEW s \in Seq(Nat), NEW b, Narrow(s, b), NEW a \in 1..3,
                 NEW c, c <=> b \/ Asks(Args(p[m])[a], t)
          PROVE  /\ NarrowedBy(s, Args(p[m])[a], t) \in Seq(Nat)
                 /\ Narrow(NarrowedBy(s, Args(p[m])[a], t), c)
      <3> DEFINE arg == Args(p[m])[a]
                 w == NarrowedBy(s, arg, t)
      <3>1. arg.mcRegWhitelist \in Seq(Nat) /\ (Asks(arg, t) => Range(arg.mcRegWhitelist) = R)
        BY <2>1, ArgsOfProgram
      <3>2. /\ w \in Seq(Nat)
            /\ ~Asks(arg, t) => w = s
            /\ Asks(arg, t) /\ s = <<>> => w = arg.mcRegWhitelist
            /\ Asks(arg, t) /\ s # <<>> => Range(w) = Range(s) \intersect Range(arg.mcRegWhitelist)
        BY <3>1, NarrowedByFacts
      <3> HIDE DEF arg, w
      <3>3. Narrow(w, c)
        <4> c <=> b \/ Asks(arg, t)
          BY <2>4 DEF arg
        <4>1. CASE ~Asks(arg, t)
          BY <2>4, <3>2, <4>1
        <4>2. CASE Asks(arg, t) /\ b
          <5>1. Range(s) = R /\ s # <<>>
            BY <2>4, <4>2, <1>3
          <5>2. QED BY <5>1, <3>1, <3>2, <4>2
        <4>3. CASE Asks(arg, t) /\ ~b
          BY <2>4, <3>1, <3>2, <4>3
        <4>4. QED BY <4>1, <4>2, <4>3
      <3>4. QED BY <3>2, <3>3 DEF arg, w
    <2>5. /\ Args(p[m])[1] = p[m].rDest
          /\ Args(p[m])[2] = p[m].rSrc1
          /\ Args(p[m])[3] = p[m].rSrc2
      BY <2>1, ArgsOfProgram
    <2> DEFINE a1 == Asks(Args(p[m])[1], t)
               a2 == Asks(Args(p[m])[2], t)
               a3 == Asks(Args(p[m])[3], t)
               s1 == NarrowedBy(f[n], Args(p[m])[1], t)
               s2 == NarrowedBy(s1, Args(p[m])[2], t)
               s3 == NarrowedBy(s2, Args(p[m])[3], t)
    <2>6. f[m] = s3
      BY <1>1, <2>1, <2>5 DEF NarrowedByAll
    <2>7. Asked(m) <=> a1 \/ a2 \/ a3
      OBVIOUS
    <2> DEFINE b1 == some \/ a1
               b2 == b1 \/ a2
               b3 == b2 \/ a3
    <2> HIDE DEF Narrow, some, Asked, m
    <2>8. s1 \in Seq(Nat) /\ Narrow(s1, b1)
      <3>1. b1 <=> some \/ Asks(Args(p[m])[1], t)
        OBVIOUS
      <3> HIDE DEF b1
      <3>2. QED BY <2>2, <2>4, <3>1
    <2>9. s2 \in Seq(Nat) /\ Narrow(s2, b2)
      <3>1. b2 <=> b1 \/ Asks(Args(p[m])[2], t)
        OBVIOUS
      <3> HIDE DEF b1, b2, s1
      <3>2. QED BY <2>8, <2>4, <3>1
    <2>10. Narrow(s3, b3)
      <3>1. b3 <=> b2 \/ Asks(Args(p[m])[3], t)
        OBVIOUS
      <3> HIDE DEF b2, b3, s2
      <3>2. QED BY <2>9, <2>4, <3>1
    <2>11. b3 <=> (\E k \in 1..m : Asked(k))
      BY <2>3, <2>7
    <2> HIDE DEF s3, b3
    <2>12. QED BY <2>6, <2>10, <2>11 DEF Narrow
  <1> HIDE DEF Z
  <1>6. \A n \in Nat : n \in Z
    BY <1>4, <1>5, InductiveSet
  <1>7. Narrow(f[N], \E k \in 1..N : Asked(k))
    BY <1>2, <1>6 DEF Z
  <1>8. QED BY <1>1, <1>2, <1>7

-----------------------------------------------------------------------------
(* The registers left to an unconstrained interval *)

\* The registers of a later interval that starts before t ends are left out.
LEMMA LeftBesideFacts ==
  ASSUME live.mcRegs \in [Temps -> Seq(GeneralRegs)],
         live.startPoint \in [Temps -> Nat], live.endPoint \in [Temps -> Nat],
         NEW regs \in Seq(Nat), NEW t \in Temps, NEW u \in Temps
  PROVE  /\ LeftBeside(regs, t, u) \in Seq(Nat)
         /\ Range(LeftBeside(regs, t, u)) \subseteq Range(regs)
         /\ live.startPoint[u] < live.endPoint[t] =>
              Range(LeftBeside(regs, t, u)) \intersect Range(live.mcRegs[u]) = {}
  <1>1. live.mcRegs[u] \in Seq(Nat) /\ live.startPoint[u] \in Nat /\ live.endPoint[t] \in Nat
    BY ListsOfRegs
  <1>2. CASE live.startPoint[u] > live.endPoint[t]
    BY <1>1, <1>2 DEF LeftBeside
  <1>3. CASE live.startPoint[u] = live.endPoint[t]
    <2>1. LeftBeside(regs, t, u) = optimizeRegisterSet(regs, live.mcRegs[u])
      BY <1>1, <1>3 DEF LeftBeside
    <2>2. QED BY <2>1, <1>1, <1>3, optimizeRegisterSetFacts
  <1>4. CASE live.startPoint[u] < live.endPoint[t]
    <2>1. LeftBeside(regs, t, u) = Without(regs, Range(live.mcRegs[u]))
      BY <1>1, <1>4 DEF LeftBeside
    <2>2. /\ Without(regs, Range(live.mcRegs[u])) \in Seq(Nat)
          /\ Range(Without(regs, Range(live.mcRegs[u]))) = Range(regs) \ Range(live.mcRegs[u])
      BY WithoutFacts
    <2>3. QED BY <2>1, <2>2
  <1>5. QED BY <1>1, <1>2, <1>3, <1>4

\* The positions i to N, counted from i.
LEMMA Shifted ==
  ASSUME NEW N \in Nat, NEW i \in 1..N
  PROVE  /\ i \in Nat /\ N - i \in Nat /\ 0 \in 0..(N - i)
         /\ \A n \in 1..(N - i) : n - 1 \in 0..(N - i) /\ n \in 0..(N - i) /\ n # 0 /\ i + n \in 1..N
         /\ \A n \in i..N : n - i \in 0..(N - i)
         /\ \A n \in i..N : n # i =>
              n - i \in 1..(N - i) /\ i + (n - i) = n /\ n - 1 \in i..N /\ (n - i) - 1 = (n - 1) - i
         /\ \A n \in (i + 1)..N : n \in i..N /\ n # i
         /\ i \in i..N /\ N \in i..N
  <1>1. i \in Nat /\ N - i \in Nat /\ 0 \in 0..(N - i) /\ i \in i..N /\ N \in i..N
    OBVIOUS
  <1>2. \A n \in 1..(N - i) : n - 1 \in 0..(N - i) /\ n \in 0..(N - i) /\ n # 0 /\ i + n \in 1..N
    OBVIOUS
  <1>3. \A n \in i..N : n - i \in 0..(N - i)
    OBVIOUS
  <1>4. \A n \in i..N : n # i =>
          n - i \in 1..(N - i) /\ i + (n - i) = n /\ n - 1 \in i..N /\ (n - i) - 1 = (n - 1) - i
    OBVIOUS
  <1>5. \A n \in (i + 1)..N : n \in i..N /\ n # i
    OBVIOUS
  <1>6. QED BY <1>1, <1>2, <1>3, <1>4, <1>5

LEMMA PermittedUnfolds ==
  ASSUME live.mcRegs \in [Temps -> Seq(GeneralRegs)], live.order \in Seq(Temps),
         live.startPoint \in [Temps -> Nat], live.endPoint \in [Temps -> Nat],
         NEW i \in DOMAIN live.order
  PROVE  \E f : /\ f[i] = GpRegs /\ f[Len(live.order)] = PermittedRegs(i)
                /\ \A n \in (i + 1)..Len(live.order) :
                     f[n] = LeftBeside(f[n - 1], live.order[i], live.order[n])
  <1> DEFINE N == Len(live.order)
             M == N - i
             L == Seq(Nat)
             G == [n \in 1..M |-> [s \in L |-> LeftBeside(s, live.order[i], live.order[i + n])]]
             After(f) == f = [n \in i..N |->
                                IF n = i THEN GpRegs
                                ELSE LeftBeside(f[n - 1], live.order[i], live.order[n])]
  <1>1. /\ N \in Nat /\ i \in Nat /\ M \in Nat /\ 0 \in 0..M /\ i \in 1..N
        /\ \A n \in 1..M : n - 1 \in 0..M /\ n \in 0..M /\ n # 0 /\ i + n \in 1..N
        /\ \A n \in i..N : n - i \in 0..M
        /\ \A n \in i..N : n # i =>
             n - i \in 1..M /\ i + (n - i) = n /\ n - 1 \in i..N /\ (n - i) - 1 = (n - 1) - i
        /\ \A n \in (i + 1)..N : n \in i..N /\ n # i
        /\ i \in i..N /\ N \in i..N
    <2>1. N \in Nat /\ i \in 1..N
      OBVIOUS
    <2> HIDE DEF N
    <2>2. QED BY <2>1, Shifted
  <1>2. \A n \in 1..N : live.order[n] \in Temps
    OBVIOUS
  <1>3. GpRegs \in L
    BY GpRegsFacts
  <1>4. \E f : After(f)
    <2>1. \A n \in 1..M : \A s \in L : LeftBeside(s, live.order[i], live.order[i + n]) \in L
      <3>1. live.order[i] \in Temps /\ \A n \in 1..M : live.order[i + n] \in Temps
        BY <1>1, <1>2
      <3>2. QED BY <3>1, LeftBesideFacts
    <2>2. /\ G \in [1..M -> [L -> L]]
          /\ \A n \in 1..M : \A s \in L : G[n][s] = LeftBeside(s, live.order[i], live.order[i + n])
      <3> HIDE DEF M, L
      <3>1. QED BY <2>1
    <2> HIDE DEF G, L, M, N
    <2>3. PICK g \in [0..M -> L] : Iterates(g, GpRegs, G, M)
      BY <1>1, <1>3, <2>2, IterationExists, Zenon
    <2>4. g[0] = GpRegs /\ \A n \in 1..M : g[n] = G[n][g[n - 1]]
      <3>1. \A n \in 0..M : g[n] = IF n = 0 THEN GpRegs ELSE G[n][g[n - 1]]
        BY <2>3 DEF Iterates
      <3>2. QED BY <1>1, <3>1
    <2>5. \A n \in 1..M : g[n] = LeftBeside(g[n - 1], live.order[i], live.order[i + n])
      BY <1>1, <2>2, <2>3, <2>4
    <2> DEFINE f == [n \in i..N |-> g[n - i]]
    <2>6. \A n \in i..N : f[n] = IF n = i THEN GpRegs ELSE LeftBeside(f[n - 1], live.order[i], live.order[n])
      <3> SUFFICES ASSUME NEW n \in i..N
                   PROVE  f[n] = IF n = i THEN GpRegs ELSE LeftBeside(f[n - 1], live.order[i], live.order[n])
        OBVIOUS
      <3>1. CASE n = i
        <4>1. f[n] = g[0]
          BY <1>1, <3>1
        <4>2. QED BY <4>1, <3>1, <2>4
      <3>2. CASE n # i
        <4>1. n - i \in 1..M /\ i + (n - i) = n /\ n - 1 \in i..N /\ (n - i) - 1 = (n - 1) - i
          BY <1>1, <3>2
        <4>2. f[n] = g[n - i] /\ f[n - 1] = g[(n - i) - 1]
          BY <4>1
        <4> HIDE DEF f
        <4>3. g[n - i] = LeftBeside(g[(n - i) - 1], live.order[i], live.order[n])
          BY <2>5, <4>1
        <4>4. QED BY <3>2, <4>2, <4>3
      <3>3. QED BY <3>1, <3>2
    <2>7. After(f)
      <3>1. f = [n \in i..N |-> f[n]]
        OBVIOUS
      <3> HIDE DEF f
      <3>2. QED BY <3>1, <2>6, Zenon
    <2>8. QED BY <2>7
  <1> DEFINE f == CHOOSE f : After(f)
  <1>5. After(f)
    BY <1>4
  <1>6. PermittedRegs(i) = f[N]
    BY DEF PermittedRegs
  <1> HIDE DEF f, M
  <1>7. f[i] = GpRegs /\ \A n \in (i + 1)..N : f[n] = LeftBeside(f[n - 1], live.order[i], live.order[n])
    <2> HIDE DEF N
    <2>1. QED BY <1>1, <1>5
  <1>8. QED BY <1>6, <1>7

LEMMA PermittedRegsFacts ==
  ASSUME live.mcRegs \in [Temps -> Seq(GeneralRegs)], live.order \in Seq(Temps),
         live.startPoint \in [Temps -> Nat], live.endPoint \in [Temps -> Nat],
         NEW i \in DOMAIN live.order
  PROVE  /\ PermittedRegs(i) \in Seq(GeneralRegs)
         /\ \A j \in DOMAIN live.order :
              i < j /\ live.startPoint[live.order[j]] < live.endPoint[live.order[i]]
                => Range(PermittedRegs(i)) \intersect Range(live.mcRegs[live.order[j]]) = {}
  <1> DEFINE N == Len(live.order)
             Beside(n) == live.startPoint[live.order[n]] < live.endPoint[live.order[i]]
             R(n) == Range(live.mcRegs[live.order[n]])
  <1>1. PICK f : /\ f[i] = GpRegs /\ f[N] = PermittedRegs(i)
                 /\ \A n \in (i + 1)..N : f[n] = LeftBeside(f[n - 1], live.order[i], live.order[n])
    BY PermittedUnfolds
  <1>2. /\ N \in Nat /\ i \in Nat /\ i <= N /\ 1 <= i /\ DOMAIN live.order = 1..N
        /\ \A n \in 1..N : live.order[n] \in Temps
    OBVIOUS
  <1> DEFINE Good(n) == /\ f[n] \in Seq(Nat)
                        /\ Range(f[n]) \subseteq GeneralRegs
                        /\ \A j \in (i + 1)..n : Beside(j) => Range(f[n]) \intersect R(j) = {}
             Z == {n \in Nat : i <= n /\ n <= N => Good(n)}
  <1>3. Good(i)
    BY <1>1, <1>2, GpRegsFacts DEF GeneralRegs
  <1> HIDE DEF Good
  <1>4. 0 \in Z
    <2>1. i # 0
      BY <1>2
    <2>2. QED BY <2>1, <1>2
  <1>5. ASSUME NEW n \in Nat, n \in Z
        PROVE  n + 1 \in Z
    <2> SUFFICES ASSUME i <= n + 1, n + 1 <= N PROVE Good(n + 1)
      OBVIOUS
    <2> DEFINE m == n + 1
    <2>1. CASE m = i
      BY <2>1, <1>3
    <2>2. CASE m # i
      <3>1. i <= n /\ n <= N /\ m \in (i + 1)..N /\ m \in 1..N /\ m - 1 = n
        <4> HIDE DEF N
        <4>1. QED BY <2>2, <1>2
      <3>2. Good(n)
        BY <1>5, <3>1
      <3> USE DEF Good
      <3>3. f[m] = LeftBeside(f[n], live.order[i], live.order[m]) /\ live.order[m] \in Temps
        BY <1>1, <1>2, <3>1
      <3> DEFINE w == LeftBeside(f[n], live.order[i], live.order[m])
      <3>4. w \in Seq(Nat) /\ Range(w) \subseteq Range(f[n]) /\ (Beside(m) => Range(w) \intersect R(m) = {})
        BY <1>2, <3>2, <3>3, LeftBesideFacts
      <3>5. \A j \in (i + 1)..m : j \in (i + 1)..n \/ j = m
        BY <1>2
      <3> HIDE DEF w, Beside, R, m
      <3>6. \A j \in (i + 1)..m : Beside(j) => Range(w) \intersect R(j) = {}
        BY <3>2, <3>4, <3>5
      <3>7. f[m] = w
        BY <3>3 DEF w
      <3>8. Good(m)
        BY <3>2, <3>4, <3>6, <3>7
      <3> HIDE DEF Good
      <3>9. QED BY <3>8 DEF m
    <2>3. QED BY <2>1, <2>2
  <1> HIDE DEF Z
  <1>6. \A n \in Nat : n \in Z
    BY <1>4, <1>5, InductiveSet
  <1>7. Good(N)
    BY <1>2, <1>6 DEF Z
  <1> USE DEF Good
  <1>8. PermittedRegs(i) \in Seq(GeneralRegs)
    BY <1>1, <1>7, ListsOfRegs
  <1>9. ASSUME NEW j \in DOMAIN live.order, i < j, Beside(j)
        PROVE  Range(PermittedRegs(i)) \intersect R(j) = {}
    <2>1. j \in (i + 1)..N
      BY <1>2, <1>9
    <2> HIDE DEF Beside, R
    <2>2. QED BY <1>1, <1>7, <1>9, <2>1
  <1>10. QED BY <1>8, <1>9

-----------------------------------------------------------------------------
(* The intervals *)

\* After the first n instructions, the list has an interval for each temporary live
\* at one of them, and it is the shortest that covers them all.
IntervalsUpTo(n) ==
  /\ ScanP!ListTyped
  /\ \A i, j \in DOMAIN live.order : live.order[i] = live.order[j] => i = j
  /\ \A k \in 1..n : \A t \in LiveAt(k) :
       t \in Range(live.order) /\ live.startPoint[t] <= k /\ k <= live.endPoint[t]
  /\ \A t \in Range(live.order) :
       /\ live.startPoint[t] \in 1..n /\ t \in LiveAt(live.startPoint[t])
       /\ live.endPoint[t] \in 1..n /\ t \in LiveAt(live.endPoint[t])
  /\ \A t \in Temps \ Range(live.order) : live.startPoint[t] = 0 /\ live.endPoint[t] = 0

IntervalsInv ==
  /\ stage \in {"blocks", "edges", "sweep"} => live = NoIntervals
  /\ stage = "intervals" => cursor \in 1..(Len(prog) + 1) /\ IntervalsUpTo(cursor - 1)
  /\ stage \in {"constraints", "calls", "scan"} => IntervalsUpTo(Len(prog))
  /\ stage \in {"constraints", "calls"} => cursor \in Nat

\* What is collected at an instruction is finite and made of temporaries.
LEMMA LiveAtTyped ==
  ASSUME GraphInv, SweepInv, NEW k \in DOMAIN prog
  PROVE  LiveAt(k) \subseteq TempsOf(prog) /\ LiveAt(k) \subseteq Temps /\ IsFiniteSet(TempsOf(prog))
  <1>1. prog \in Programs /\ prog \in Seq(Instructions) /\ IsFiniteSet(TempsOf(prog))
    BY ProgFacts, TempsFinite DEF GraphInv
  <1>2. in[k] \subseteq TempsOf(prog) /\ out[k] \subseteq TempsOf(prog)
    BY DEF SweepInv, Live
  <1>3. Defs(prog[k]) \subseteq TempsOf(prog)
    BY DEF TempsOf
  <1>4. TempsOf(prog) \subseteq Temps
    BY <1>1, TempsAssumption
  <1>5. QED BY <1>1, <1>2, <1>3, <1>4 DEF LiveAt

LEMMA NoIntervalsUpTo ==
  ASSUME live = NoIntervals
  PROVE  IntervalsUpTo(0)
  <1>1. live.order = <<>> /\ live.startPoint = [t \in Temps |-> 0] /\ live.endPoint = [t \in Temps |-> 0]
    BY DEF NoIntervals
  <1>2. Range(live.order) = {}
    BY <1>1 DEF Range
  <1>3. ScanP!ListTyped
    BY <1>1 DEF ScanP!ListTyped, ScanP!Ordered
  <1>4. QED BY <1>1, <1>2, <1>3 DEF IntervalsUpTo

\* The list once the temporaries met for the first time have been added at its end.
LEMMA CollectGrows ==
  ASSUME GraphInv, SweepInv, IntervalsInv, CollectIntervals
  PROVE  LET fresh == LiveAt(cursor) \ Range(live.order)
         IN /\ \E new : Lists(new, fresh) /\ live'.order = live.order \o new
            /\ live'.startPoint = [t \in Temps |-> IF t \in fresh THEN cursor ELSE live.startPoint[t]]
            /\ live'.endPoint = [t \in Temps |-> IF t \in LiveAt(cursor) THEN cursor ELSE live.endPoint[t]]
  <1> DEFINE fresh == LiveAt(cursor) \ Range(live.order)
             A == fresh \intersect in[cursor]
             B == (fresh \intersect out[cursor]) \ in[cursor]
             C == fresh \ (in[cursor] \union out[cursor])
  <1>1. cursor \in DOMAIN prog
    BY ProgFacts DEF GraphInv, IntervalsInv, CollectIntervals
  <1>2. IsFiniteSet(TempsOf(prog)) /\ fresh \subseteq TempsOf(prog)
    BY <1>1, LiveAtTyped
  <1>3. IsFiniteSet(A) /\ IsFiniteSet(B) /\ IsFiniteSet(C)
    <2>1. A \in SUBSET TempsOf(prog) /\ B \in SUBSET TempsOf(prog) /\ C \in SUBSET TempsOf(prog)
      BY <1>2
    <2> HIDE DEF A, B, C
    <2>2. QED BY <2>1, <1>2, FS_Subset
  <1>4. PICK first \in SetToSeqs(A), second \in SetToSeqs(B), third \in SetToSeqs(C) :
          live' = [ order      |-> Appended(first \o second \o third),
                    startPoint |-> [t \in Temps |-> IF t \in fresh THEN cursor ELSE live.startPoint[t]],
                    endPoint   |-> [t \in Temps |-> IF t \in LiveAt(cursor) THEN cursor ELSE live.endPoint[t]],
                    mcRegs     |-> [t \in Temps |-> IF t \in fresh THEN mcRegWhitelist(prog, t) ELSE live.mcRegs[t]] ]
    BY DEF CollectIntervals
  <1>5. Lists(first, A) /\ Lists(second, B) /\ Lists(third, C)
    <2> HIDE DEF A, B, C
    <2>1. QED BY <1>3, <1>4, SetToSeqsLists
  <1>6. Lists(first \o second \o third, fresh)
    <2>1. A \intersect B = {} /\ (A \union B) \intersect C = {} /\ (A \union B) \union C = fresh
      OBVIOUS
    <2> HIDE DEF A, B, C, fresh
    <2>2. Lists(first \o second, A \union B)
      BY <2>1, <1>5, ConcatLists
    <2>3. Lists((first \o second) \o third, (A \union B) \union C)
      BY <2>1, <2>2, <1>5, ConcatLists
    <2>4. QED BY <2>1, <2>3
  <1>7. live'.order = live.order \o (first \o second \o third)
    BY <1>4 DEF Appended
  <1>8. /\ live'.startPoint = [t \in Temps |-> IF t \in fresh THEN cursor ELSE live.startPoint[t]]
        /\ live'.endPoint = [t \in Temps |-> IF t \in LiveAt(cursor) THEN cursor ELSE live.endPoint[t]]
    BY <1>4
  <1> HIDE DEF fresh
  <1>9. \E new : Lists(new, fresh) /\ live'.order = live.order \o new
    BY <1>6, <1>7
  <1>10. QED BY <1>8, <1>9 DEF fresh

LEMMA CollectKeeps ==
  ASSUME GraphInv, SweepInv, IntervalsInv, CollectIntervals
  PROVE  IntervalsUpTo(cursor - 1)'
  <1> DEFINE n     == cursor
             fresh == LiveAt(n) \ Range(live.order)
             order == live.order
             grown == live'.order
             old   == Len(live.order)
  <1>1. /\ n \in DOMAIN prog /\ n \in Nat /\ n \in 1..n /\ IntervalsUpTo(n - 1) /\ cursor' = n + 1
        /\ UNCHANGED <<prog, in, out>>
    BY ProgFacts DEF GraphInv, IntervalsInv, CollectIntervals, liveVars
  <1>2. fresh \subseteq Temps /\ LiveAt(n) \subseteq Temps
    BY <1>1, LiveAtTyped
  <1>3. /\ order \in Seq(Temps) /\ old \in Nat /\ DOMAIN order = 1..old
        /\ live.startPoint \in [Temps -> Nat] /\ live.endPoint \in [Temps -> Nat]
        /\ \A i \in DOMAIN order : order[i] \in Temps /\ order[i] \in Range(order)
        /\ \A i, j \in DOMAIN order : order[i] = order[j] => i = j
        /\ \A i, j \in DOMAIN order : i < j => live.startPoint[order[i]] <= live.startPoint[order[j]]
        /\ \A t \in Temps : live.startPoint[t] <= live.endPoint[t]
    BY <1>1 DEF IntervalsUpTo, ScanP!ListTyped, ScanP!Ordered, Range
  <1>4. PICK new : Lists(new, fresh) /\ grown = order \o new
    BY CollectGrows
  <1>5. /\ live'.startPoint = [t \in Temps |-> IF t \in fresh THEN n ELSE live.startPoint[t]]
        /\ live'.endPoint = [t \in Temps |-> IF t \in LiveAt(n) THEN n ELSE live.endPoint[t]]
    BY CollectGrows
  <1>6. Lists(grown, Range(order) \union LiveAt(n))
    <2>1. Lists(order, Range(order))
      <3> HIDE DEF order
      <3>1. order \in Seq(Range(order))
        BY <1>3
      <3>2. QED BY <3>1, <1>3 DEF Lists
    <2>2. Range(order) \intersect fresh = {} /\ Range(order) \union fresh = Range(order) \union LiveAt(n)
      OBVIOUS
    <2> HIDE DEF order, fresh, grown
    <2>3. QED BY <2>1, <2>2, <1>4, ConcatLists
  <1>7. /\ Range(grown) = Range(order) \union LiveAt(n)
        /\ \A i, j \in DOMAIN grown : grown[i] = grown[j] => i = j
        /\ grown \in Seq(Range(order) \union LiveAt(n))
    BY <1>6 DEF Lists
  <1>8. Range(order) \subseteq Temps
    BY <1>3 DEF Range
  <1>9. grown \in Seq(Temps)
    <2> HIDE DEF grown, order
    <2>1. QED BY <1>2, <1>7, <1>8
  <1>10. /\ \A i \in DOMAIN grown :
              \/ i \in 1..old /\ grown[i] = order[i]
              \/ i > old /\ grown[i] \in fresh
         /\ DOMAIN grown \subseteq Nat
    <2>1. new \in Seq(fresh)
      BY <1>4 DEF Lists
    <2>2. order \in Seq(Temps \union fresh) /\ new \in Seq(Temps \union fresh)
      BY <2>1, <1>3
    <2> HIDE DEF fresh
    <2>3. QED BY <2>1, <2>2, <1>3, <1>4
  <1>11. \A t \in Range(order) : live.startPoint[t] \in 1..(n - 1) /\ live.endPoint[t] \in 1..(n - 1)
    BY <1>1 DEF IntervalsUpTo
  <1> DEFINE s == live'.startPoint
             e == live'.endPoint
  <1>12. /\ s \in [Temps -> Nat] /\ e \in [Temps -> Nat]
         /\ \A t \in Temps : s[t] = IF t \in fresh THEN n ELSE live.startPoint[t]
         /\ \A t \in Temps : e[t] = IF t \in LiveAt(n) THEN n ELSE live.endPoint[t]
    <2> HIDE DEF fresh
    <2>1. QED BY <1>1, <1>3, <1>5
  <1> HIDE DEF s, e
  <1>13. \A t \in Temps : s[t] <= e[t]
    <2> SUFFICES ASSUME NEW t \in Temps PROVE s[t] <= e[t]
      OBVIOUS
    <2>1. CASE t \in fresh
      BY <2>1, <1>1, <1>12
    <2>2. CASE t \in LiveAt(n) \ fresh
      <3>1. t \in Range(order)
        BY <2>2
      <3>2. QED BY <2>2, <3>1, <1>1, <1>11, <1>12
    <2>3. CASE t \notin LiveAt(n)
      BY <2>3, <1>3, <1>12
    <2>4. QED BY <2>1, <2>2, <2>3
  <1>14. \A i, j \in DOMAIN grown : i < j => s[grown[i]] <= s[grown[j]]
    <2> SUFFICES ASSUME NEW i \in DOMAIN grown, NEW j \in DOMAIN grown, i < j
                 PROVE  s[grown[i]] <= s[grown[j]]
      OBVIOUS
    <2>1. /\ i \in Nat /\ j \in Nat
          /\ (i \in 1..old /\ grown[i] = order[i]) \/ (i > old /\ grown[i] \in fresh)
          /\ (j \in 1..old /\ grown[j] = order[j]) \/ (j > old /\ grown[j] \in fresh)
      BY <1>10
    <2>2. \A l \in 1..old : s[order[l]] = live.startPoint[order[l]] /\ s[order[l]] \in 1..(n - 1)
      BY <1>3, <1>11, <1>12
    <2>3. \A t \in fresh : s[t] = n
      BY <1>2, <1>12
    <2> HIDE DEF grown, order, fresh
    <2>4. CASE j \in 1..old
      <3>1. i \in 1..old /\ grown[i] = order[i] /\ grown[j] = order[j]
        <4>1. j <= old /\ old \in Nat /\ (j > old => FALSE)
          BY <2>4, <1>3
        <4>2. i \in 1..old /\ (i > old => FALSE)
          BY <4>1, <2>1
        <4>3. QED BY <4>1, <4>2, <2>1
      <3>2. /\ s[order[i]] = live.startPoint[order[i]] /\ s[order[j]] = live.startPoint[order[j]]
            /\ live.startPoint[order[i]] <= live.startPoint[order[j]]
        BY <3>1, <2>2, <2>4, <1>3
      <3>3. QED BY <3>1, <3>2
    <2>5. CASE j > old /\ grown[j] \in fresh
      <3>1. s[grown[j]] = n
        BY <2>3, <2>5
      <3>2. s[grown[i]] <= n
        BY <2>1, <2>2, <2>3, <1>1
      <3>3. QED BY <3>1, <3>2
    <2>6. QED BY <2>1, <2>4, <2>5
  <1>15. ScanP!ListTyped'
    <2>1. \A i, j \in DOMAIN grown : i < j => grown[i] # grown[j]
      BY <1>7, <1>10
    <2>2. QED BY <2>1, <1>9, <1>12, <1>13, <1>14 DEF ScanP!ListTyped, ScanP!Ordered, s, e
  <1>16. \A k \in 1..n : \A t \in LiveAt(k) : t \in Range(grown) /\ s[t] <= k /\ k <= e[t]
    <2> SUFFICES ASSUME NEW k \in 1..n, NEW t \in LiveAt(k)
                 PROVE  t \in Range(grown) /\ s[t] <= k /\ k <= e[t]
      OBVIOUS
    <2>1. CASE k = n
      <3>1. t \in LiveAt(n) /\ t \in Temps /\ t \in Range(grown) /\ e[t] = n
        BY <2>1, <1>2, <1>7, <1>12
      <3>2. s[t] <= n
        <4>1. CASE t \in fresh
          BY <4>1, <3>1, <1>1, <1>12
        <4>2. CASE t \notin fresh
          <5>1. t \in Range(order) /\ s[t] = live.startPoint[t]
            BY <4>2, <3>1, <1>12
          <5>2. QED BY <5>1, <1>1, <1>11
        <4>3. QED BY <4>1, <4>2
      <3>3. QED BY <3>1, <3>2, <2>1, <1>1
    <2>2. CASE k # n
      <3>1. k \in 1..(n - 1)
        BY <2>2, <1>1
      <3>2. t \in Range(order) /\ live.startPoint[t] <= k /\ k <= live.endPoint[t]
        BY <3>1, <1>1 DEF IntervalsUpTo
      <3>3. s[t] = live.startPoint[t] /\ t \in Temps
        BY <3>2, <1>8, <1>12
      <3>4. e[t] = live.endPoint[t] \/ e[t] = n
        BY <3>3, <1>12
      <3>5. QED BY <3>1, <3>2, <3>3, <3>4, <1>1, <1>7
    <2>3. QED BY <2>1, <2>2
  <1>17. \A t \in Range(grown) : /\ s[t] \in 1..n /\ t \in LiveAt(s[t])
                                 /\ e[t] \in 1..n /\ t \in LiveAt(e[t])
    <2> SUFFICES ASSUME NEW t \in Range(grown)
                 PROVE  /\ s[t] \in 1..n /\ t \in LiveAt(s[t])
                        /\ e[t] \in 1..n /\ t \in LiveAt(e[t])
      OBVIOUS
    <2>1. t \in Temps /\ (t \in Range(order) \/ t \in fresh)
      BY <1>2, <1>7, <1>8
    <2>2. s[t] \in 1..n /\ t \in LiveAt(s[t])
      <3>1. CASE t \in fresh
        BY <3>1, <2>1, <1>1, <1>12
      <3>2. CASE t \in Range(order)
        <4>1. s[t] = live.startPoint[t]
          BY <3>2, <2>1, <1>12
        <4>2. live.startPoint[t] \in 1..(n - 1) /\ t \in LiveAt(live.startPoint[t])
          BY <3>2, <1>1 DEF IntervalsUpTo
        <4>3. QED BY <4>1, <4>2, <1>1
      <3>3. QED BY <2>1, <3>1, <3>2
    <2>3. e[t] \in 1..n /\ t \in LiveAt(e[t])
      <3>1. CASE t \in LiveAt(n)
        BY <3>1, <2>1, <1>1, <1>12
      <3>2. CASE t \notin LiveAt(n)
        <4>1. e[t] = live.endPoint[t] /\ t \in Range(order)
          BY <3>2, <2>1, <1>12
        <4>2. live.endPoint[t] \in 1..(n - 1) /\ t \in LiveAt(live.endPoint[t])
          BY <4>1, <1>1 DEF IntervalsUpTo
        <4>3. QED BY <4>1, <4>2, <1>1
      <3>3. QED BY <3>1, <3>2
    <2>4. QED BY <2>2, <2>3
  <1>18. \A t \in Temps \ Range(grown) : s[t] = 0 /\ e[t] = 0
    BY <1>1, <1>7, <1>12 DEF IntervalsUpTo
  <1>19. \A k : LiveAt(k)' = LiveAt(k)
    BY <1>1 DEF LiveAt
  <1>20. cursor' - 1 = n /\ s = live'.startPoint /\ e = live'.endPoint
    BY <1>1 DEF s, e
  <1>21. QED BY <1>7, <1>15, <1>16, <1>17, <1>18, <1>19, <1>20 DEF IntervalsUpTo

\* The intervals are what they were when only the constraints on them change.
LEMMA IntervalsStay ==
  ASSUME UNCHANGED <<prog, in, out>>, live'.order = live.order,
         live'.startPoint = live.startPoint, live'.endPoint = live.endPoint
  PROVE  /\ IntervalsUpTo(Len(prog)) => IntervalsUpTo(Len(prog))'
         /\ IntervalsUpTo(cursor - 1) /\ UNCHANGED cursor => IntervalsUpTo(cursor - 1)'
         /\ ScanP!ListTyped' <=> ScanP!ListTyped
  <1>1. \A k : LiveAt(k)' = LiveAt(k)
    BY DEF LiveAt
  <1>2. ScanP!ListTyped' <=> ScanP!ListTyped
    BY DEF ScanP!ListTyped, ScanP!Ordered
  <1>3. QED BY <1>1, <1>2 DEF IntervalsUpTo

\* Each step of the analyses keeps what is known of the graph, the sets and the
\* intervals.
LEMMA IntervalsStep ==
  ASSUME GraphInv, SweepInv, IntervalsInv, IntervalsNext
  PROVE  GraphInv' /\ SweepInv' /\ IntervalsInv' /\ stage' # "scan"
  <1>1. CASE LivenessNext /\ UNCHANGED live
    <2>1. stage \in {"blocks", "edges", "sweep"}
      BY <1>1 DEF LivenessNext, CfgNext, AddInstruction, BlocksDone, AddTransitions, StartSweeps,
                  CfgReady, UpdateLiveness, SweepAgain
    <2>2. GraphInv' /\ SweepInv' /\ stage' \in {"blocks", "edges", "sweep"}
      BY <1>1, LivenessStep
    <2>3. live' = NoIntervals
      BY <1>1, <2>1 DEF IntervalsInv
    <2>4. NoIntervals' = NoIntervals
      BY DEF NoIntervals
    <2>5. QED BY <2>2, <2>3, <2>4 DEF IntervalsInv
  <1>2. CASE StartIntervals
    <2>1. /\ stage = "sweep" /\ LivenessReady /\ stage' = "intervals" /\ cursor' = 1
          /\ UNCHANGED <<prog, blocks, open, succ, in, out, successorsLiveIn, modified, live>>
      BY <1>2 DEF StartIntervals, LivenessReady, liveVars
    <2>2. GraphInv'
      BY <2>1, GraphStays DEF GraphBuilt, Stages
    <2>3. SweepInv'
      BY <2>1, SweepStays DEF SweepInv, GraphInv
    <2>4. IntervalsUpTo(cursor - 1)'
      <3>1. live = NoIntervals /\ IntervalsUpTo(0)
        BY <2>1, NoIntervalsUpTo DEF IntervalsInv
      <3>2. \A k : LiveAt(k)' = LiveAt(k)
        BY <2>1 DEF LiveAt
      <3>3. ScanP!ListTyped'
        BY <3>1, <2>1 DEF IntervalsUpTo, ScanP!ListTyped, ScanP!Ordered
      <3>4. cursor' - 1 = 0
        BY <2>1
      <3>5. QED BY <3>1, <3>2, <3>3, <3>4, <2>1 DEF IntervalsUpTo
    <2>5. cursor' \in 1..(Len(prog') + 1)
      BY <2>1, ProgFacts DEF GraphInv
    <2>6. QED BY <2>1, <2>2, <2>3, <2>4, <2>5 DEF IntervalsInv
  <1>3. ASSUME stage \notin {"blocks", "edges", "sweep"}, stage' \in {"intervals", "constraints", "calls"},
               UNCHANGED <<prog, blocks, open, succ, in, out, successorsLiveIn, modified>>
        PROVE  GraphInv' /\ SweepInv'
    <2>1. GraphInv'
      BY <1>3, GraphStays DEF GraphBuilt, Stages
    <2>2. SweepInv'
      BY <1>3, SweepStays DEF SweepInv, GraphInv
    <2>3. QED BY <2>1, <2>2
  <1>4. CASE CollectIntervals
    <2>1. /\ stage = "intervals" /\ stage' = "intervals" /\ cursor' = cursor + 1 /\ cursor <= Len(prog)
          /\ UNCHANGED <<prog, blocks, open, succ, in, out, successorsLiveIn, modified>>
      BY <1>4 DEF CollectIntervals, liveVars
    <2>2. IntervalsUpTo(cursor - 1)'
      BY <1>4, CollectKeeps
    <2>3. cursor' \in 1..(Len(prog') + 1)
      BY <2>1, ProgFacts DEF IntervalsInv, GraphInv
    <2>4. QED BY <1>3, <2>1, <2>2, <2>3 DEF IntervalsInv
  <1>5. CASE StartConstraints
    <2>1. /\ stage = "intervals" /\ stage' = "constraints" /\ cursor' = 1 /\ cursor > Len(prog)
          /\ UNCHANGED <<prog, blocks, open, succ, in, out, successorsLiveIn, modified, live>>
      BY <1>5 DEF StartConstraints, liveVars
    <2>2. cursor - 1 = Len(prog)
      BY <2>1, ProgFacts DEF IntervalsInv, GraphInv
    <2>3. IntervalsUpTo(Len(prog))
      BY <2>1, <2>2 DEF IntervalsInv
    <2>4. IntervalsUpTo(Len(prog))'
      BY <2>1, <2>3, IntervalsStay
    <2>5. QED BY <1>3, <2>1, <2>4 DEF IntervalsInv
  <1>6. CASE ConstrainInterval \/ StartCalls \/ HandleCall
    <2>1. /\ stage \in {"constraints", "calls"} /\ stage' \in {"constraints", "calls"}
          /\ UNCHANGED <<prog, blocks, open, succ, in, out, successorsLiveIn, modified>>
      BY <1>6 DEF ConstrainInterval, StartCalls, HandleCall, liveVars
    <2>2. cursor' \in Nat
      BY <1>6 DEF ConstrainInterval, StartCalls, HandleCall, IntervalsInv
    <2>3. live' = live \/ \E regs : live' = WithRegs(regs)
      BY <1>6 DEF ConstrainInterval, StartCalls, HandleCall
    <2>4. /\ live'.order = live.order
          /\ live'.startPoint = live.startPoint /\ live'.endPoint = live.endPoint
      BY <2>3 DEF WithRegs
    <2>5. IntervalsUpTo(Len(prog))'
      BY <2>1, <2>4, IntervalsStay DEF IntervalsInv
    <2>6. QED BY <1>3, <2>1, <2>2, <2>5 DEF IntervalsInv
  <1>7. QED BY <1>1, <1>2, <1>4, <1>5, <1>6 DEF IntervalsNext

-----------------------------------------------------------------------------
(* The scan *)

\* The scan is not begun before the analyses are over, and keeps its own invariant.
ScanInv ==
  /\ stage # "scan" =>
       bindings = [t \in Temps |-> IF t = REG_0 THEN REG_0 ELSE Scan!RA_REGISTER_INVALID]
  /\ stage = "scan" => ScanP!IInv

RegAllocInv == GraphInv /\ SweepInv /\ IntervalsInv /\ ScanInv

LEMMA StartScanKeeps ==
  ASSUME RegAllocInv, StartScan
  PROVE  RegAllocInv'
  <1>1. /\ stage = "calls" /\ stage' = "scan" /\ next' = 1 /\ active' = <<>>
        /\ freeRegs' = Range(GpRegs)
        /\ UNCHANGED <<prog, cursor, blocks, open, succ, in, out, successorsLiveIn, modified, live, bindings>>
    BY DEF StartScan, IntervalsReady, liveVars
  <1>2. GraphInv'
    BY <1>1, GraphStays DEF RegAllocInv, GraphBuilt, Stages
  <1>3. SweepInv'
    BY <1>1, SweepStays DEF RegAllocInv, SweepInv, GraphInv
  <1>4. IntervalsUpTo(Len(prog)) /\ IntervalsUpTo(Len(prog))'
    BY <1>1, IntervalsStay DEF RegAllocInv, IntervalsInv
  <1>5. bindings' = [t \in Temps |-> IF t = REG_0 THEN REG_0 ELSE ScanP!RA_REGISTER_INVALID]
    BY <1>1 DEF RegAllocInv, ScanInv, Scan!RA_REGISTER_INVALID, ScanP!RA_REGISTER_INVALID
  <1>6. ScanP!ListTyped'
    BY <1>4 DEF IntervalsUpTo
  <1>7. ScanP!ScanTyped'
    <2>1. live'.order \in Seq(Temps)
      BY <1>6 DEF ScanP!ListTyped
    <2>2. next' \in 1..(Len(live'.order) + 1)
      BY <2>1, <1>1
    <2>3. bindings' \in [Temps -> Range(GpRegs) \union {ScanP!REG_0, ScanP!RA_SPILL_REQUIRED, ScanP!RA_REGISTER_INVALID}]
      BY <1>5 DEF REG_0, ScanP!REG_0
    <2>4. QED BY <2>2, <2>3, <1>1, <1>6 DEF ScanP!ScanTyped
  <1>8. /\ ScanP!ActiveVisited' /\ ScanP!RegistersConserved' /\ ScanP!InactiveEnded'
        /\ ScanP!NoSharedRegister' /\ ScanP!VisitedDecided'
    BY <1>1 DEF ScanP!ActiveVisited, ScanP!RegistersConserved, ScanP!InactiveEnded,
                ScanP!NoSharedRegister, ScanP!VisitedDecided
  <1>9. ScanP!IInv'
    BY <1>7, <1>8 DEF ScanP!IInv
  <1>10. QED BY <1>1, <1>2, <1>3, <1>4, <1>9 DEF RegAllocInv, IntervalsInv, ScanInv

LEMMA ScanNextIsNext ==
  ASSUME Scan!Next
  PROVE  ScanP!Next
  BY DEF Scan!Next, ScanP!Next,
         Scan!ExpireOldInterval, ScanP!ExpireOldInterval, Scan!AssignRegister, ScanP!AssignRegister,
         Scan!SpillLast, ScanP!SpillLast, Scan!SpillCurrent, ScanP!SpillCurrent,
         Scan!Finished, ScanP!Finished, Scan!vars, ScanP!vars,
         Scan!Scanning, ScanP!Scanning, Scan!Current, ScanP!Current,
         Scan!Expired, ScanP!Expired, Scan!ExpiryDone, ScanP!ExpiryDone,
         Scan!EndOf, ScanP!EndOf, Scan!StartOf, ScanP!StartOf,
         Scan!PreferRegister, ScanP!PreferRegister, Scan!MoveToFront, ScanP!MoveToFront,
         Scan!FirstFree, ScanP!FirstFree, Scan!NoneFree, ScanP!NoneFree,
         Scan!CanTakeOver, ScanP!CanTakeOver, Scan!SortedPlace, ScanP!SortedPlace,
         Scan!Insert, ScanP!Insert, Scan!WithoutLast, ScanP!WithoutLast,
         Scan!RA_SPILL_REQUIRED, ScanP!RA_SPILL_REQUIRED

LEMMA RegsAreNaturals == Temps \subseteq Nat /\ Range(GpRegs) \subseteq Nat \ {ScanP!REG_0}
  <1>1. \A i \in DOMAIN GpRegs : GpRegs[i] \in Nat \ {REG_0}
    BY GpRegsAssumption
  <1>2. QED BY <1>1, TempsAssumption DEF Range, REG_0, ScanP!REG_0

LEMMA ScanStepKeeps ==
  ASSUME RegAllocInv, ScanStep
  PROVE  RegAllocInv'
  <1>1. stage = "scan" /\ stage' = "scan" /\ UNCHANGED <<cfgVars, liveVars>> /\ Scan!Next
    BY DEF ScanStep, cfgVars
  <1>2. GraphInv' /\ SweepInv'
    BY <1>1, LivenessStutter DEF RegAllocInv
  <1>3. ScanP!Next
    BY <1>1, ScanNextIsNext
  <1>4. UNCHANGED live
    BY <1>3 DEF ScanP!Next, ScanP!ExpireOldInterval, ScanP!AssignRegister, ScanP!SpillLast,
                ScanP!SpillCurrent, ScanP!Finished, ScanP!vars
  <1>5. IntervalsInv'
    <2>1. UNCHANGED <<prog, in, out>> /\ IntervalsUpTo(Len(prog))
      BY <1>1 DEF cfgVars, liveVars, RegAllocInv, IntervalsInv
    <2>2. IntervalsUpTo(Len(prog))'
      BY <2>1, <1>4, IntervalsStay
    <2>3. QED BY <1>1, <2>2 DEF IntervalsInv
  <1>6. ScanP!IInv'
    <2>1. ScanP!IInv
      BY <1>1 DEF RegAllocInv, ScanInv
    <2>2. QED BY <2>1, <1>3, RegsAreNaturals, ScanP!StepKeepsInvariant
  <1>7. QED BY <1>1, <1>2, <1>5, <1>6 DEF RegAllocInv, ScanInv

\* The graph, the sets, the intervals and the scan, together.
THEOREM RegAllocInvariant == RegAllocSpec => []RegAllocInv
  <1>1. RegAllocInit => RegAllocInv
    <2> SUFFICES ASSUME RegAllocInit PROVE RegAllocInv
      OBVIOUS
    <2>1. LivenessInit /\ CfgInit /\ stage = "blocks" /\ live = NoIntervals
      BY DEF RegAllocInit, IntervalsInit, LivenessInit, CfgInit
    <2>2. GraphInv /\ SweepInv
      BY <2>1, GraphInit, SweepInit
    <2>3. QED BY <2>1, <2>2 DEF RegAllocInv, IntervalsInv, ScanInv, RegAllocInit
  <1>2. RegAllocInv /\ [RegAllocNext]_allVars => RegAllocInv'
    <2>1. ASSUME RegAllocInv, IntervalsNext, UNCHANGED scanVars
          PROVE  RegAllocInv'
      <3>1. GraphInv' /\ SweepInv' /\ IntervalsInv' /\ stage' # "scan"
        BY <2>1, IntervalsStep DEF RegAllocInv
      <3>2. stage # "scan"
        BY <2>1 DEF IntervalsNext, LivenessNext, CfgNext, AddInstruction, BlocksDone, AddTransitions,
                    StartSweeps, CfgReady, UpdateLiveness, SweepAgain, StartIntervals, LivenessReady,
                    CollectIntervals, StartConstraints, ConstrainInterval, StartCalls, HandleCall
      <3>3. QED BY <2>1, <3>1, <3>2 DEF RegAllocInv, ScanInv, scanVars
    <2>2. ASSUME RegAllocInv, UNCHANGED allVars
          PROVE  RegAllocInv'
      <3>1. /\ UNCHANGED <<cfgVars, liveVars>> /\ UNCHANGED live /\ UNCHANGED ScanP!vars
            /\ UNCHANGED <<prog, stage, cursor, in, out, bindings>>
        BY <2>2 DEF allVars, scanVars, cfgVars, liveVars, ScanP!vars
      <3>2. GraphInv' /\ SweepInv'
        BY <2>2, <3>1, LivenessStutter DEF RegAllocInv
      <3>3. IntervalsInv'
        <4>1. NoIntervals' = NoIntervals
          BY DEF NoIntervals
        <4>2. QED BY <2>2, <3>1, <4>1, IntervalsStay DEF RegAllocInv, IntervalsInv
      <3>4. stage = "scan" => ScanP!IInv'
        BY <2>2, <3>1, RegsAreNaturals, ScanP!StutterKeepsInvariant DEF RegAllocInv, ScanInv
      <3>5. QED BY <2>2, <3>1, <3>2, <3>3, <3>4 DEF RegAllocInv, ScanInv
    <2>3. QED BY <2>1, <2>2, StartScanKeeps, ScanStepKeeps DEF RegAllocNext
  <1>3. QED BY <1>1, <1>2, PTL DEF RegAllocSpec

-----------------------------------------------------------------------------
(* What the allocation gives *)

\* Once the sweeps are over the sets are what is live.
LEMMA SetsAreLive ==
  ASSUME GraphInv, SweepInv, stage \notin {"blocks", "edges", "sweep"}, NEW k \in DOMAIN prog
  PROVE  /\ in[k] = LiveTable(prog)[k]
         /\ out[k] = LiveAfter(prog, LiveTable(prog), k)
         /\ in[k] \subseteq LiveBefore(k, out[k]) /\ LiveBefore(k, out[k]) \subseteq in[k]
         /\ \A t \in out[k] : \E m \in Flow(prog, k) \intersect DOMAIN prog : t \in in[m]
         /\ \A m \in Flow(prog, k) \intersect DOMAIN prog : in[m] \subseteq out[k]
  <1>1. prog \in Programs /\ \A j \in DOMAIN prog : Settled(j)
    BY DEF GraphInv, SweepInv
  <1>2. \A j \in DOMAIN prog : LiveTable(prog)[j] \subseteq in[j] /\ LiveAfter(prog, LiveTable(prog), j) \subseteq out[j]
    BY <1>1, SetsHoldWhatIsLive
  <1>3. \A j \in DOMAIN prog : in[j] \subseteq LiveTable(prog)[j]
    BY <1>1, InWithinTable DEF GraphInv
  <1>4. \A j \in DOMAIN prog : in[j] = LiveTable(prog)[j]
    BY <1>2, <1>3
  <1>5. out[k] = LiveAfter(prog, LiveTable(prog), k)
    BY <1>2 DEF SweepInv
  <1>6. Flow(prog, k) \ {End(prog)} = Flow(prog, k) \intersect DOMAIN prog
    <2>1. Flow(prog, k) \subseteq DOMAIN prog \union {End(prog)} /\ End(prog) \notin DOMAIN prog
      BY <1>1, ProgFacts DEF End
    <2>2. QED BY <2>1
  <1>7. \A t \in out[k] : \E m \in Flow(prog, k) \intersect DOMAIN prog : t \in in[m]
    BY <1>4, <1>5, <1>6 DEF LiveAfter
  <1>8. \A m \in Flow(prog, k) \intersect DOMAIN prog : in[m] \subseteq out[k]
    BY <1>4, <1>5, <1>6 DEF LiveAfter
  <1>9. QED BY <1>1, <1>4, <1>5, <1>7, <1>8 DEF SweepInv, Settled

\* An instruction without a label to go to leads to the next one or to the end.
LEMMA FallsThrough ==
  ASSUME NEW prg, NEW k, ~isJumpInstruction(prg[k])
  PROVE  Flow(prg, k) \subseteq {k + 1, End(prg)}
  BY DEF Flow, End

\* Where the interval of u starts and the temporaries are written before they are
\* read, nothing needs u before the instruction: it writes u, and nothing else.
LEMMA StartsWithWrite ==
  ASSUME RegAllocInv, stage = "scan", EnteredFromAbove(prog),
         NEW u \in Range(live.order), NEW k, k = live.startPoint[u]
  PROVE  /\ k \in DOMAIN prog /\ u \notin in[k] /\ Defs(prog[k]) = {u}
         /\ ~isJumpInstruction(prog[k])
  <1>1. /\ GraphInv /\ SweepInv /\ prog \in Programs /\ Len(prog) \in Nat /\ DOMAIN prog = 1..Len(prog)
        /\ IntervalsUpTo(Len(prog))
    BY ProgFacts DEF RegAllocInv, IntervalsInv, GraphInv
  <1>2. k \in DOMAIN prog /\ u \in LiveAt(k)
    BY <1>1 DEF IntervalsUpTo
  <1>3. u \notin in[k]
    <2> SUFFICES ASSUME u \in in[k] PROVE FALSE
      OBVIOUS
    <2>1. u \in LiveTable(prog)[k]
      BY <1>1, <1>2, SetsAreLive
    <2>2. PICK j \in 1..(k - 1) : k \in Flow(prog, j)
      BY <2>1, <1>2 DEF EnteredFromAbove
    <2>3. j \in DOMAIN prog /\ j < k
      BY <2>2, <1>1, <1>2
    <2>4. u \in out[j]
      BY <2>2, <2>3, <1>1, <1>2, SetsAreLive
    <2>5. k <= j
      BY <2>3, <2>4, <1>1 DEF IntervalsUpTo, LiveAt
    <2>6. QED BY <2>3, <2>5, <1>1, <1>2
  <1>4. u \in Defs(prog[k])
    <2>1. out[k] \ Defs(prog[k]) \subseteq in[k]
      BY <1>1, <1>2, SetsAreLive DEF LiveBefore
    <2>2. QED BY <2>1, <1>2, <1>3 DEF LiveAt
  <1>5. Defs(prog[k]) = {u}
    BY <1>4 DEF Defs
  <1>6. ~isJumpInstruction(prog[k])
    BY <1>1, <1>2, <1>4, JumpsAssumption
  <1>7. QED BY <1>2, <1>3, <1>5, <1>6

\* An interval that ends where another starts is read there, and not needed after.
LEMMA EndsWithRead ==
  ASSUME RegAllocInv, stage = "scan", EnteredFromAbove(prog),
         NEW t \in Range(live.order), NEW u \in Range(live.order), t # u,
         NEW k, k = live.endPoint[t], k = live.startPoint[u]
  PROVE  t \in Uses(prog[k]) /\ t \notin out[k] /\ t \notin Defs(prog[k])
  <1>1. /\ GraphInv /\ SweepInv /\ prog \in Programs /\ Len(prog) \in Nat /\ DOMAIN prog = 1..Len(prog)
        /\ IntervalsUpTo(Len(prog))
    BY ProgFacts DEF RegAllocInv, IntervalsInv, GraphInv
  <1>2. k \in DOMAIN prog /\ Defs(prog[k]) = {u} /\ ~isJumpInstruction(prog[k])
    BY StartsWithWrite
  <1>3. t \in LiveAt(k) /\ t \notin Defs(prog[k])
    BY <1>1, <1>2 DEF IntervalsUpTo
  <1>4. t \notin out[k]
    <2> SUFFICES ASSUME t \in out[k] PROVE FALSE
      OBVIOUS
    <2>1. PICK m \in Flow(prog, k) \intersect DOMAIN prog : t \in in[m]
      BY <1>1, <1>2, SetsAreLive
    <2>2. m = k + 1
      BY <2>1, <1>1, <1>2, FallsThrough DEF End
    <2>3. m <= k
      <3>1. m \in 1..Len(prog) /\ t \in LiveAt(m)
        BY <2>1, <1>1 DEF LiveAt
      <3>2. QED BY <3>1, <1>1 DEF IntervalsUpTo
    <2>4. QED BY <2>2, <2>3, <1>1, <1>2
  <1>5. t \in in[k]
    BY <1>3, <1>4 DEF LiveAt
  <1>6. t \in Uses(prog[k])
    BY <1>1, <1>2, <1>4, <1>5, SetsAreLive DEF LiveBefore
  <1>7. QED BY <1>3, <1>4, <1>6

\* Of two intervals in one register the earlier in the list ends no later than the
\* other starts.
LEMMA SharersApart ==
  ASSUME RegAllocInv, Allocated,
         NEW i \in DOMAIN live.order, NEW j \in DOMAIN live.order, i < j,
         bindings[live.order[i]] \in Range(GpRegs),
         bindings[live.order[i]] = bindings[live.order[j]]
  PROVE  live.endPoint[live.order[i]] <= live.startPoint[live.order[j]]
  <1>1. ScanP!IInv /\ live.order \in Seq(Temps) /\ ~Scan!Scanning
    BY DEF RegAllocInv, ScanInv, Allocated, ScanP!IInv, ScanP!ScanTyped, ScanP!ListTyped
  <1>2. next = Len(live.order) + 1
    BY <1>1 DEF Scan!Scanning, ScanP!IInv, ScanP!ScanTyped
  <1>3. i \in 1..(next - 1) /\ j \in 1..(next - 1)
    BY <1>1, <1>2
  <1>4. QED BY <1>1, <1>3 DEF ScanP!IInv, ScanP!NoSharedRegister, ScanP!EndOf, ScanP!StartOf

\* Whatever the program, the intervals handed to the scan cover every instruction at
\* which their temporary is live or written (getLiveIntervals).
THEOREM IntervalsAlwaysCover == RegAllocSpec => []IntervalsCover
  <1>1. RegAllocInv => IntervalsCover
    <2>1. ASSUME RegAllocInv, IntervalsReady PROVE IntervalsUpTo(Len(prog)) /\ DOMAIN prog = 1..Len(prog)
      BY <2>1, ProgFacts DEF RegAllocInv, IntervalsInv, IntervalsReady, GraphInv
    <2>2. QED BY <2>1 DEF IntervalsUpTo, IntervalsCover, LiveAt
  <1>2. QED BY <1>1, RegAllocInvariant, PTL

\* In a program that writes each temporary before it reads it, two intervals share a
\* register only if they are apart, or from the source to the destination of one
\* instruction (the comparison of end and start points of expireOldIntervals).
THEOREM SharesOnlyFromSourceToDest ==
  RegAllocSpec => [](EnteredFromAbove(prog) => SharedOnlyFromSourceToDest)
  <1>1. RegAllocInv /\ EnteredFromAbove(prog) => SharedOnlyFromSourceToDest
    <2> SUFFICES ASSUME RegAllocInv, EnteredFromAbove(prog), Allocated,
                        NEW i \in DOMAIN live.order, NEW j \in DOMAIN live.order, i < j,
                        bindings[live.order[i]] \in Range(GpRegs),
                        bindings[live.order[i]] = bindings[live.order[j]],
                        live.startPoint[live.order[j]] <= live.endPoint[live.order[i]]
                 PROVE  /\ live.startPoint[live.order[j]] = live.endPoint[live.order[i]]
                        /\ live.order[i] \in Uses(prog[live.endPoint[live.order[i]]])
                        /\ live.order[j] \in Defs(prog[live.endPoint[live.order[i]]])
      BY DEF SharedOnlyFromSourceToDest
    <2> DEFINE t == live.order[i]
               u == live.order[j]
               k == live.endPoint[t]
    <2>1. stage = "scan" /\ IntervalsUpTo(Len(prog)) /\ t \in Range(live.order) /\ u \in Range(live.order)
      BY DEF RegAllocInv, IntervalsInv, Allocated, Range
    <2>2. /\ live.endPoint[t] \in 1..Len(prog) /\ live.startPoint[u] \in 1..Len(prog)
          /\ t # u /\ Len(prog) \in Nat
      <3>1. i # j /\ Len(prog) \in Nat
        BY <2>1, ProgFacts DEF RegAllocInv, GraphInv, IntervalsUpTo, ScanP!ListTyped
      <3>2. QED BY <2>1, <3>1 DEF IntervalsUpTo
    <2>3. live.startPoint[u] = k
      BY <2>2, SharersApart
    <2> HIDE DEF t, u, k
    <2>4. u \in Defs(prog[k])
      BY <2>1, <2>3, StartsWithWrite
    <2>5. t \in Uses(prog[k])
      BY <2>1, <2>2, <2>3, EndsWithRead DEF k
    <2>6. QED BY <2>3, <2>4, <2>5 DEF t, u, k
  <1>2. QED BY <1>1, RegAllocInvariant, PTL

LEMMA KeptApart ==
  ASSUME RegAllocInv, EnteredFromAbove(prog)
  PROVE  NoInterference
  <1> SUFFICES ASSUME RegAllocInv, EnteredFromAbove(prog), Allocated,
                      NEW k \in DOMAIN prog,
                      NEW S \in {LiveTable(prog)[k],
                                 LiveAfter(prog, LiveTable(prog), k) \union (Defs(prog[k]) \ {REG_0})},
                      NEW x \in S, NEW y \in S, x # y,
                      bindings[x] # RA_SPILL_REQUIRED, bindings[x] = bindings[y]
               PROVE  FALSE
    BY DEF NoInterference, InterferenceFree
  <1>1. /\ stage = "scan" /\ GraphInv /\ SweepInv /\ IntervalsUpTo(Len(prog)) /\ ScanP!IInv
        /\ DOMAIN prog = 1..Len(prog) /\ Len(prog) \in Nat
    BY ProgFacts DEF RegAllocInv, IntervalsInv, ScanInv, Allocated, GraphInv
  <1>2. S = in[k] \/ S \subseteq out[k] \union Defs(prog[k])
    BY <1>1, SetsAreLive
  <1>3. x \in LiveAt(k) /\ y \in LiveAt(k)
    BY <1>2 DEF LiveAt
  <1>4. ASSUME NEW i \in DOMAIN live.order, NEW j \in DOMAIN live.order, i < j,
               {live.order[i], live.order[j]} = {x, y}
        PROVE  FALSE
    <2> DEFINE t == live.order[i]
               u == live.order[j]
    <2>1. /\ t \in S /\ u \in S /\ t # u /\ bindings[t] = bindings[u]
          /\ bindings[t] # RA_SPILL_REQUIRED /\ t \in LiveAt(k) /\ u \in LiveAt(k)
      BY <1>3, <1>4
    <2>2. t \in Range(live.order) /\ u \in Range(live.order)
      BY DEF Range
    <2>3. bindings[t] \in Range(GpRegs)
      <3>1. live.order \in Seq(Temps) /\ ~Scan!Scanning
        BY <1>1 DEF Allocated, ScanP!IInv, ScanP!ScanTyped, ScanP!ListTyped
      <3>2. i \in 1..(next - 1)
        BY <3>1, <1>1 DEF Scan!Scanning, ScanP!IInv, ScanP!ScanTyped
      <3>3. bindings[t] \in Range(GpRegs) \union {ScanP!RA_SPILL_REQUIRED}
        BY <3>2, <1>1 DEF ScanP!IInv, ScanP!VisitedDecided
      <3>4. QED BY <2>1, <3>3 DEF RA_SPILL_REQUIRED, ScanP!RA_SPILL_REQUIRED
    <2>4. live.endPoint[t] <= live.startPoint[u]
      BY <2>1, <2>3, <1>4, SharersApart
    <2> HIDE DEF t, u
    <2>5. /\ live.startPoint[u] <= k /\ k <= live.endPoint[t]
          /\ live.startPoint[u] \in Nat /\ live.endPoint[t] \in Nat
      BY <2>1, <2>2, <1>1 DEF IntervalsUpTo
    <2>6. live.endPoint[t] = k /\ live.startPoint[u] = k
      BY <2>4, <2>5, <1>1
    <2>7. u \notin in[k] /\ t \notin out[k] /\ t \notin Defs(prog[k])
      BY <2>1, <2>2, <2>6, <1>1, StartsWithWrite, EndsWithRead
    <2>8. CASE S = in[k]
      BY <2>1, <2>7, <2>8
    <2>9. CASE S \subseteq out[k] \union Defs(prog[k])
      BY <2>1, <2>7, <2>9
    <2>10. QED BY <2>8, <2>9, <1>2
  <1>5. /\ x \in Range(live.order) /\ y \in Range(live.order)
    BY <1>1, <1>3 DEF IntervalsUpTo
  <1>6. PICK i \in DOMAIN live.order, j \in DOMAIN live.order : live.order[i] = x /\ live.order[j] = y
    BY <1>5 DEF Range
  <1>7. i < j \/ j < i
    <2>1. live.order \in Seq(Temps)
      BY <1>1 DEF IntervalsUpTo, ScanP!ListTyped
    <2>2. i \in Int /\ j \in Int
      BY <2>1
    <2>3. QED BY <1>6, <2>2
  <1>8. QED BY <1>4, <1>6, <1>7

\* No two of the temporaries needed together, or needed and written together, are in
\* one register: the sets, the intervals and the scan taken together do what the
\* register allocator is for (newRegAllocator, regallocRun).
THEOREM NeededTogetherKeptApart ==
  RegAllocSpec => [](EnteredFromAbove(prog) => NoInterference)
  <1>1. RegAllocInv /\ EnteredFromAbove(prog) => NoInterference
    BY KeptApart
  <1>2. QED BY <1>1, RegAllocInvariant, PTL

-----------------------------------------------------------------------------
(* The constraints *)

Constrained(t) == mcRegWhitelist(prog, t) # <<>>

\* u starts before t ends.
StartsWithin(t, u) == live.startPoint[u] < live.endPoint[t]

\* t leaves their registers to the constrained intervals that come after it in the
\* list and start before it ends.
MakesRoom(i) ==
  \A j \in DOMAIN live.order :
    i < j /\ StartsWithin(live.order[i], live.order[j])
      => Range(live.mcRegs[live.order[i]]) \intersect Range(mcRegWhitelist(prog, live.order[j])) = {}

\* The outer loop of initializeRegisterConstraints has come to c.
ConstrainedUpTo(c) ==
  \A i \in DOMAIN live.order :
    /\ i >= c \/ Constrained(live.order[i]) =>
         live.mcRegs[live.order[i]] = mcRegWhitelist(prog, live.order[i])
    /\ i < c /\ ~Constrained(live.order[i]) => MakesRoom(i)

\* Call k takes r from the interval of t.
TakenBy(k, t, r) ==
  k \in DOMAIN prog /\ isCallInstruction(prog[k]) /\ Crosses(t, k) /\ r \in ClobberedBy(k)

\* The calls before c have taken their registers from the intervals that cross them,
\* and nothing else has been taken from the constrained ones.
ProtectedUpTo(c) ==
  /\ \A i \in DOMAIN live.order :
       /\ Constrained(live.order[i]) =>
            Range(live.mcRegs[live.order[i]]) \subseteq Range(mcRegWhitelist(prog, live.order[i]))
       /\ ~Constrained(live.order[i]) => MakesRoom(i)
       /\ \A r \in Range(mcRegWhitelist(prog, live.order[i])) :
            r \in Range(live.mcRegs[live.order[i]]) \/ \E k : k < c /\ TakenBy(k, live.order[i], r)
  /\ \A k : k < c => \A t \in Temps : \A r \in Range(live.mcRegs[t]) : ~TakenBy(k, t, r)

ConstraintsInv ==
  /\ live \in ScanP!IntervalLists
  /\ stage = "intervals" =>
       \A t \in Range(live.order) : live.mcRegs[t] = mcRegWhitelist(prog, t)
  /\ stage \in {"constraints", "calls", "scan"} => cursor \in Nat \ {0}
  /\ stage = "constraints" => ConstrainedUpTo(cursor)
  /\ stage \in {"calls", "scan"} => ProtectedUpTo(cursor)
  /\ stage = "scan" => cursor > Len(prog)

LEMMA ListFields ==
  ASSUME live \in ScanP!IntervalLists
  PROVE  /\ live.order \in Seq(Temps)
         /\ live.startPoint \in [Temps -> Nat]
         /\ live.endPoint \in [Temps -> Nat]
         /\ live.mcRegs \in [Temps -> Seq(GeneralRegs)]
         /\ \A i \in DOMAIN live.order : live.order[i] \in Temps /\ i \in Nat
  <1>1. live.order \in Seq(Temps)
    BY DEF ScanP!IntervalLists
  <1>2. QED BY <1>1 DEF ScanP!IntervalLists, GeneralRegs

\* The constraints are what they were when neither the list nor the program changes.
LEMMA ConstraintsStay ==
  ASSUME UNCHANGED <<prog, live>>, NEW c
  PROVE  /\ ConstrainedUpTo(c) => ConstrainedUpTo(c)'
         /\ ProtectedUpTo(c) => ProtectedUpTo(c)'
  <1>1. \A t : Constrained(t)' <=> Constrained(t)
    BY DEF Constrained
  <1>2. \A i : MakesRoom(i)' <=> MakesRoom(i)
    BY DEF MakesRoom, StartsWithin
  <1>3. \A k, t, r : TakenBy(k, t, r)' <=> TakenBy(k, t, r)
    BY DEF TakenBy, Crosses, ClobberedBy
  <1>4. ConstrainedUpTo(c) => ConstrainedUpTo(c)'
    BY <1>1, <1>2 DEF ConstrainedUpTo
  <1>5. ProtectedUpTo(c) => ProtectedUpTo(c)'
    BY <1>1, <1>2, <1>3 DEF ProtectedUpTo
  <1>6. QED BY <1>4, <1>5

LEMMA CollectConstrains ==
  ASSUME RegAllocInv, ConstraintsInv, CollectIntervals
  PROVE  ConstraintsInv'
  <1> DEFINE fresh == LiveAt(cursor) \ Range(live.order)
  <1>1. /\ stage = "intervals" /\ stage' = "intervals" /\ UNCHANGED prog /\ prog \in Programs
        /\ GraphInv /\ SweepInv /\ IntervalsInv
    BY ProgFacts DEF CollectIntervals, RegAllocInv, GraphInv
  <1>2. \E new : live' = [ order      |-> Appended(new),
                    startPoint |-> [t \in Temps |-> IF t \in fresh THEN cursor ELSE live.startPoint[t]],
                    endPoint   |-> [t \in Temps |-> IF t \in LiveAt(cursor) THEN cursor ELSE live.endPoint[t]],
                    mcRegs     |-> [t \in Temps |-> IF t \in fresh THEN mcRegWhitelist(prog, t) ELSE live.mcRegs[t]] ]
    BY DEF CollectIntervals
  <1>3. PICK new : Lists(new, fresh) /\ live'.order = live.order \o new
    BY <1>1, CollectGrows
  <1> HIDE DEF fresh
  <1>4. /\ live' = [ order |-> live'.order, startPoint |-> live'.startPoint, endPoint |-> live'.endPoint, mcRegs |-> live'.mcRegs ]
        /\ live'.mcRegs = [t \in Temps |-> IF t \in fresh THEN mcRegWhitelist(prog, t) ELSE live.mcRegs[t]]
    BY <1>2
  <1>5. live'.mcRegs \in [Temps -> Seq(Range(GpRegs))]
    BY <1>1, <1>4, ListFields, WhitelistTyped DEF ConstraintsInv, GeneralRegs
  <1>6. ScanP!ListTyped'
    <2>1. GraphInv' /\ SweepInv' /\ IntervalsInv'
      BY <1>1, IntervalsStep DEF IntervalsNext
    <2>2. QED BY <1>1, <2>1 DEF IntervalsInv, IntervalsUpTo
  <1>7. live' \in ScanP!IntervalLists
    BY <1>4, <1>5, <1>6 DEF ScanP!ListTyped, ScanP!IntervalLists
  <1>8. \A t \in Range(live'.order) : live'.mcRegs[t] = mcRegWhitelist(prog, t)
    <2>1. Range(live'.order) \subseteq Range(live.order) \union fresh
      <3>1. live.order \in Seq(Temps) /\ new \in Seq(fresh) /\ Range(new) = fresh
        BY <1>3, ListFields DEF ConstraintsInv, Lists
      <3>2. \A i \in DOMAIN live'.order :
              \/ i \in DOMAIN live.order /\ live'.order[i] = live.order[i]
              \/ i - Len(live.order) \in DOMAIN new /\ live'.order[i] = new[i - Len(live.order)]
        BY <1>3, <3>1
      <3>3. QED BY <3>1, <3>2 DEF Range
    <2>2. Range(live'.order) \subseteq Temps
      BY <1>6 DEF ScanP!ListTyped, Range
    <2>3. \A t \in Range(live.order) : live.mcRegs[t] = mcRegWhitelist(prog, t)
      BY <1>1 DEF ConstraintsInv
    <2>4. QED BY <1>4, <2>1, <2>2, <2>3
  <1>9. QED BY <1>1, <1>7, <1>8 DEF ConstraintsInv

LEMMA ConstrainConstrains ==
  ASSUME RegAllocInv, ConstraintsInv, ConstrainInterval
  PROVE  ConstraintsInv'
  <1> DEFINE c == cursor
             t == live.order[c]
             P == PermittedRegs(c)
  <1>1. /\ stage = "constraints" /\ stage' = "constraints" /\ UNCHANGED prog /\ prog \in Programs
        /\ c \in Nat /\ 1 <= c /\ cursor' = c + 1 /\ c <= Len(live.order) /\ ConstrainedUpTo(c)
        /\ live' = IF live.mcRegs[t] # <<>> THEN live ELSE WithRegs([live.mcRegs EXCEPT ![t] = P])
    BY ProgFacts DEF ConstrainInterval, RegAllocInv, GraphInv, IntervalsInv, ConstraintsInv
  <1>2. /\ live.order \in Seq(Temps) /\ live.mcRegs \in [Temps -> Seq(GeneralRegs)]
        /\ live.startPoint \in [Temps -> Nat] /\ live.endPoint \in [Temps -> Nat]
        /\ \A i \in DOMAIN live.order : live.order[i] \in Temps /\ i \in Nat
        /\ live \in ScanP!IntervalLists
    BY ListFields DEF ConstraintsInv
  <1>3. \A i, j \in DOMAIN live.order : live.order[i] = live.order[j] => i = j
    BY <1>1 DEF RegAllocInv, IntervalsInv, IntervalsUpTo
  <1>4. c \in DOMAIN live.order /\ t \in Temps
    BY <1>1, <1>2
  <1> HIDE DEF c
  <1>5. /\ P \in Seq(GeneralRegs)
        /\ \A j \in DOMAIN live.order :
              c < j /\ StartsWithin(t, live.order[j]) => Range(P) \intersect Range(live.mcRegs[live.order[j]]) = {}
    BY <1>2, <1>4, PermittedRegsFacts DEF StartsWithin
  <1> HIDE DEF P
  <1>6. live.mcRegs[t] = mcRegWhitelist(prog, t)
    BY <1>1, <1>4 DEF ConstrainedUpTo
  <1> DEFINE mc == live'.mcRegs
  <1>7. /\ live' \in ScanP!IntervalLists
        /\ live'.order = live.order /\ live'.startPoint = live.startPoint /\ live'.endPoint = live.endPoint
        /\ \A u \in Temps : u # t \/ Constrained(t) => mc[u] = live.mcRegs[u]
        /\ ~Constrained(t) => mc[t] = P
    <2>1. CASE Constrained(t)
      <3>1. live' = live
        BY <1>1, <1>6, <2>1 DEF Constrained
      <3>2. QED BY <3>1, <2>1, <1>2
    <2>2. CASE ~Constrained(t)
      <3>1. live' = WithRegs([live.mcRegs EXCEPT ![t] = P])
        BY <1>1, <1>6, <2>2 DEF Constrained
      <3>2. [live.mcRegs EXCEPT ![t] = P] \in [Temps -> Seq(GeneralRegs)]
        BY <1>2, <1>4, <1>5
      <3> HIDE DEF t
      <3>3. WithRegs([live.mcRegs EXCEPT ![t] = P]) \in ScanP!IntervalLists
        BY <3>2, <1>2 DEF WithRegs, ScanP!IntervalLists, GeneralRegs
      <3>4. mc = [live.mcRegs EXCEPT ![t] = P]
        BY <3>1 DEF WithRegs
      <3>5. QED BY <3>1, <3>3, <3>4, <2>2, <1>2, <1>4 DEF WithRegs
    <2>3. QED BY <2>1, <2>2
  <1>8. \A u : Constrained(u)' <=> Constrained(u)
    BY <1>1 DEF Constrained
  <1>9. \A u, v : StartsWithin(u, v)' <=> StartsWithin(u, v)
    BY <1>7 DEF StartsWithin
  <1>10. ASSUME NEW i \in DOMAIN live.order, i >= c + 1 \/ Constrained(live.order[i])
         PROVE  mc[live.order[i]] = mcRegWhitelist(prog, live.order[i])
    <2>1. live.order[i] # t \/ Constrained(t)
      <3>1. CASE live.order[i] = t
        <4>1. i = c
          BY <3>1, <1>3, <1>4
        <4>2. QED BY <4>1, <1>1, <1>2, <1>10
      <3>2. QED BY <3>1
    <2>2. live.mcRegs[live.order[i]] = mcRegWhitelist(prog, live.order[i])
      BY <1>1, <1>2, <1>10 DEF ConstrainedUpTo
    <2>3. QED BY <2>1, <2>2, <1>2, <1>7
  <1>11. ASSUME NEW i \in DOMAIN live.order, i < c + 1, ~Constrained(live.order[i])
         PROVE  MakesRoom(i)'
    <2>1. CASE i = c
      <3> SUFFICES ASSUME NEW j \in DOMAIN live.order, c < j, StartsWithin(t, live.order[j])
                   PROVE  Range(mc[t]) \intersect Range(mcRegWhitelist(prog, live.order[j])) = {}
        BY <1>1, <1>7, <1>9, <2>1 DEF MakesRoom
      <3>1. mc[t] = P
        BY <1>7, <1>11, <2>1
      <3>2. live.mcRegs[live.order[j]] = mcRegWhitelist(prog, live.order[j])
        BY <1>1, <1>2, <1>4 DEF ConstrainedUpTo
      <3>3. QED BY <3>1, <3>2, <1>5
    <2>2. CASE i # c
      <3>1. i < c /\ live.order[i] # t
        BY <1>1, <1>2, <1>3, <1>4, <1>11, <2>2
      <3>2. mc[live.order[i]] = live.mcRegs[live.order[i]]
        BY <1>2, <1>7, <3>1
      <3>3. MakesRoom(i)
        BY <1>1, <1>11, <3>1 DEF ConstrainedUpTo
      <3>4. QED BY <1>1, <1>7, <1>9, <3>2, <3>3 DEF MakesRoom
    <2>3. QED BY <2>1, <2>2
  <1>12. ConstrainedUpTo(cursor)'
    BY <1>1, <1>7, <1>8, <1>10, <1>11 DEF ConstrainedUpTo
  <1>13. cursor' \in Nat \ {0}
    BY <1>1
  <1>14. QED BY <1>1, <1>7, <1>12, <1>13 DEF ConstraintsInv

\* Before the first call nothing has been taken.
LEMMA StartCallsConstrains ==
  ASSUME RegAllocInv, ConstraintsInv, StartCalls
  PROVE  ConstraintsInv'
  <1>1. /\ stage = "constraints" /\ stage' = "calls" /\ UNCHANGED <<prog, live>> /\ cursor' = 1
        /\ cursor > Len(live.order) /\ cursor \in Nat /\ ConstrainedUpTo(cursor)
        /\ live \in ScanP!IntervalLists
    BY DEF StartCalls, ConstraintsInv
  <1>2. \A i \in DOMAIN live.order : i < cursor /\ live.order[i] \in Temps
    BY <1>1, ListFields
  <1>3. ProtectedUpTo(1)
    <2>1. \A k : k < 1 => ~(k \in DOMAIN prog)
      BY ProgFacts DEF RegAllocInv, GraphInv
    <2>2. \A i \in DOMAIN live.order : Constrained(live.order[i]) => live.mcRegs[live.order[i]] = mcRegWhitelist(prog, live.order[i])
      BY <1>1 DEF ConstrainedUpTo
    <2>3. \A i \in DOMAIN live.order : ~Constrained(live.order[i]) => MakesRoom(i) /\ Range(mcRegWhitelist(prog, live.order[i])) = {}
      BY <1>1, <1>2 DEF ConstrainedUpTo, Constrained, Range
    <2>4. QED BY <2>1, <2>2, <2>3 DEF ProtectedUpTo, TakenBy
  <1>4. ProtectedUpTo(1)'
    BY <1>1, <1>3, ConstraintsStay
  <1>5. QED BY <1>1, <1>4 DEF ConstraintsInv

LEMMA CallConstrains ==
  ASSUME RegAllocInv, ConstraintsInv, HandleCall
  PROVE  ConstraintsInv'
  <1> DEFINE c == cursor
             taken(t) == Without(live.mcRegs[t], ClobberedBy(c))
             mc == live'.mcRegs
  <1>1. /\ stage = "calls" /\ stage' = "calls" /\ UNCHANGED prog /\ prog \in Programs
        /\ c \in DOMAIN prog /\ c \in Nat /\ cursor' = c + 1 /\ ProtectedUpTo(c)
        /\ live' = IF ~isCallInstruction(prog[c]) THEN live
                   ELSE WithRegs([t \in Temps |-> IF Crosses(t, c) THEN taken(t) ELSE live.mcRegs[t]])
    BY ProgFacts DEF HandleCall, RegAllocInv, GraphInv, IntervalsInv, ConstraintsInv
  <1>2. /\ live.order \in Seq(Temps) /\ live.mcRegs \in [Temps -> Seq(GeneralRegs)]
        /\ live.startPoint \in [Temps -> Nat] /\ live.endPoint \in [Temps -> Nat]
        /\ \A i \in DOMAIN live.order : live.order[i] \in Temps /\ i \in Nat
        /\ live \in ScanP!IntervalLists
    BY ListFields DEF ConstraintsInv
  <1>3. \A t \in Temps : /\ taken(t) \in Seq(GeneralRegs)
                          /\ Range(taken(t)) = Range(live.mcRegs[t]) \ ClobberedBy(c)
    BY <1>2, WithoutFacts, ListsOfRegs
  <1> HIDE DEF c, taken
  <1>4. /\ live' \in ScanP!IntervalLists
        /\ live'.order = live.order /\ live'.startPoint = live.startPoint /\ live'.endPoint = live.endPoint
        /\ isCallInstruction(prog[c]) =>
             \A t \in Temps : mc[t] = IF Crosses(t, c) THEN taken(t) ELSE live.mcRegs[t]
        /\ ~isCallInstruction(prog[c]) => mc = live.mcRegs
    <2>1. CASE ~isCallInstruction(prog[c])
      BY <2>1, <1>1, <1>2
    <2>2. CASE isCallInstruction(prog[c])
      <3> DEFINE regs == [t \in Temps |-> IF Crosses(t, c) THEN taken(t) ELSE live.mcRegs[t]]
      <3>1. live' = WithRegs(regs)
        BY <2>2, <1>1
      <3>2. regs \in [Temps -> Seq(GeneralRegs)]
        BY <1>2, <1>3
      <3>3. \A t \in Temps : regs[t] = IF Crosses(t, c) THEN taken(t) ELSE live.mcRegs[t]
        OBVIOUS
      <3> HIDE DEF regs
      <3>4. WithRegs(regs) \in ScanP!IntervalLists
        BY <3>2, <1>2 DEF WithRegs, ScanP!IntervalLists, GeneralRegs
      <3>5. QED BY <2>2, <3>1, <3>3, <3>4 DEF WithRegs
    <2>3. QED BY <2>1, <2>2
  <1>5. ASSUME NEW t \in Temps, NEW r
        PROVE  r \in Range(mc[t]) <=> r \in Range(live.mcRegs[t]) /\ ~TakenBy(c, t, r)
    <2>1. TakenBy(c, t, r) <=> c \in DOMAIN prog /\ isCallInstruction(prog[c]) /\ Crosses(t, c) /\ r \in ClobberedBy(c)
      BY DEF TakenBy
    <2>2. CASE isCallInstruction(prog[c]) /\ Crosses(t, c)
      <3>1. mc[t] = taken(t)
        BY <2>2, <1>4
      <3>2. QED BY <2>1, <2>2, <3>1, <1>1, <1>3
    <2>3. CASE ~(isCallInstruction(prog[c]) /\ Crosses(t, c))
      <3>1. mc[t] = live.mcRegs[t]
        BY <2>3, <1>4
      <3>2. QED BY <2>1, <2>3, <3>1
    <2>4. QED BY <2>2, <2>3
  <1>6. \A u : Constrained(u)' <=> Constrained(u)
    BY <1>1 DEF Constrained
  <1>7. \A u, v : StartsWithin(u, v)' <=> StartsWithin(u, v)
    BY <1>4 DEF StartsWithin
  <1>8. \A k, t, r : TakenBy(k, t, r)' <=> TakenBy(k, t, r)
    BY <1>1, <1>4 DEF TakenBy, Crosses, ClobberedBy
  <1>9. ASSUME NEW i \in DOMAIN live.order
        PROVE  /\ Range(mc[live.order[i]]) \subseteq Range(live.mcRegs[live.order[i]])
               /\ MakesRoom(i) => MakesRoom(i)'
    <2>1. Range(mc[live.order[i]]) \subseteq Range(live.mcRegs[live.order[i]])
      BY <1>2, <1>5
    <2>2. QED BY <2>1, <1>1, <1>4, <1>7 DEF MakesRoom
  <1>10. ASSUME NEW i \in DOMAIN live.order, NEW r \in Range(mcRegWhitelist(prog, live.order[i]))
         PROVE  r \in Range(mc[live.order[i]]) \/ \E k : k < c + 1 /\ TakenBy(k, live.order[i], r)
    <2>1. live.order[i] \in Temps /\ c < c + 1
      BY <1>1, <1>2
    <2>2. CASE r \in Range(live.mcRegs[live.order[i]])
      BY <2>1, <2>2, <1>5
    <2>3. CASE \E k : k < c /\ TakenBy(k, live.order[i], r)
      <3>1. PICK k : k < c /\ TakenBy(k, live.order[i], r)
        BY <2>3
      <3>2. k \in Nat
        BY <3>1, ProgFacts DEF TakenBy, RegAllocInv, GraphInv
      <3>3. k < c + 1
        BY <1>1, <3>1, <3>2
      <3>4. QED BY <3>1, <3>3
    <2>4. QED BY <2>2, <2>3, <1>1 DEF ProtectedUpTo
  <1>11. ASSUME NEW k, k < c + 1, NEW t \in Temps, NEW r \in Range(mc[t]), TakenBy(k, t, r)
         PROVE  FALSE
    <2>1. k \in Nat
      BY <1>11, ProgFacts DEF TakenBy, RegAllocInv, GraphInv
    <2>2. r \in Range(live.mcRegs[t]) /\ k # c
      BY <1>5, <1>11
    <2>3. k < c
      BY <1>1, <1>11, <2>1, <2>2
    <2>4. QED BY <2>2, <2>3, <1>1, <1>11 DEF ProtectedUpTo
  <1>12. ProtectedUpTo(cursor)'
    BY <1>1, <1>4, <1>6, <1>8, <1>9, <1>10, <1>11 DEF ProtectedUpTo
  <1>13. cursor' \in Nat \ {0}
    BY <1>1
  <1>14. QED BY <1>1, <1>4, <1>12, <1>13 DEF ConstraintsInv

\* Whatever the program, the constraints handed to the scan are those of the operands,
\* less the registers of the calls an interval crosses.
THEOREM ConstraintsInvariant == RegAllocSpec => []ConstraintsInv
  <1>1. RegAllocInit => ConstraintsInv
    <2> SUFFICES ASSUME RegAllocInit PROVE ConstraintsInv
      OBVIOUS
    <2>1. stage = "blocks" /\ live = NoIntervals
      BY DEF RegAllocInit, IntervalsInit, LivenessInit, CfgInit
    <2>2. NoIntervals \in ScanP!IntervalLists
      BY DEF NoIntervals, ScanP!IntervalLists
    <2>3. QED BY <2>1, <2>2 DEF ConstraintsInv
  <1>2. RegAllocInv /\ ConstraintsInv /\ [RegAllocNext]_allVars => ConstraintsInv'
    <2> SUFFICES ASSUME RegAllocInv, ConstraintsInv, [RegAllocNext]_allVars PROVE ConstraintsInv'
      OBVIOUS
    <2>1. CASE LivenessNext /\ UNCHANGED live
      <3>1. stage' \in {"blocks", "edges", "sweep"}
        BY <2>1, LivenessStep DEF RegAllocInv
      <3>2. QED BY <2>1, <3>1 DEF ConstraintsInv
    <2>2. CASE StartIntervals
      <3>1. stage' = "intervals" /\ UNCHANGED live /\ live = NoIntervals
        BY <2>2 DEF StartIntervals, LivenessReady, RegAllocInv, IntervalsInv
      <3>2. Range(live.order) = {}
        BY <3>1 DEF NoIntervals, Range
      <3>3. QED BY <3>1, <3>2 DEF ConstraintsInv
    <2>3. CASE StartConstraints
      <3>1. /\ stage = "intervals" /\ stage' = "constraints" /\ UNCHANGED <<prog, live>> /\ cursor' = 1
        BY <2>3 DEF StartConstraints
      <3>2. \A i \in DOMAIN live.order : /\ live.mcRegs[live.order[i]] = mcRegWhitelist(prog, live.order[i])
                                         /\ ~(i < 1)
        BY <3>1, ListFields DEF ConstraintsInv, Range
      <3>3. ConstrainedUpTo(1)
        BY <3>2 DEF ConstrainedUpTo
      <3>4. ConstrainedUpTo(1)'
        BY <3>1, <3>3, ConstraintsStay
      <3>5. QED BY <3>1, <3>4 DEF ConstraintsInv
    <2>4. CASE StartScan
      <3>1. /\ stage = "calls" /\ stage' = "scan" /\ UNCHANGED <<prog, live, cursor>> /\ cursor > Len(prog)
        BY <2>4 DEF StartScan, IntervalsReady
      <3>2. ProtectedUpTo(cursor)'
        BY <3>1, ConstraintsStay DEF ConstraintsInv
      <3>3. QED BY <3>1, <3>2 DEF ConstraintsInv
    <2>5. CASE ScanStep \/ UNCHANGED allVars
      <3>1. UNCHANGED <<prog, stage, live, cursor>>
        <4>1. CASE ScanStep
          <5>1. ScanP!Next
            BY <4>1, ScanNextIsNext DEF ScanStep
          <5>2. UNCHANGED live
            BY <5>1 DEF ScanP!Next, ScanP!ExpireOldInterval, ScanP!AssignRegister, ScanP!SpillLast,
                        ScanP!SpillCurrent, ScanP!Finished, ScanP!vars
          <5>3. QED BY <4>1, <5>2 DEF ScanStep, cfgVars
        <4>2. CASE UNCHANGED allVars
          BY <4>2 DEF allVars, cfgVars
        <4>3. QED BY <2>5, <4>1, <4>2
      <3>2. ConstrainedUpTo(cursor) => ConstrainedUpTo(cursor)'
        BY <3>1, ConstraintsStay
      <3>3. ProtectedUpTo(cursor) => ProtectedUpTo(cursor)'
        BY <3>1, ConstraintsStay
      <3>4. QED BY <3>1, <3>2, <3>3 DEF ConstraintsInv
    <2>6. QED BY <2>1, <2>2, <2>3, <2>4, <2>5, CollectConstrains, ConstrainConstrains, StartCallsConstrains,
                 CallConstrains DEF RegAllocNext, IntervalsNext
  <1>3. QED BY <1>1, <1>2, RegAllocInvariant, PTL DEF RegAllocSpec

\* The linear scan is only ever started on a list it can work on.
THEOREM ScanInputAlwaysWellFormed == RegAllocSpec => []ScanInputWellFormed
  <1>1. RegAllocInv /\ ConstraintsInv => ScanInputWellFormed
    <2> SUFFICES ASSUME RegAllocInv, ConstraintsInv, stage = "scan" PROVE Scan!WellFormed(live)
      BY DEF ScanInputWellFormed
    <2>1. ScanP!Ordered(live) /\ live \in ScanP!IntervalLists
      BY DEF RegAllocInv, IntervalsInv, IntervalsUpTo, ScanP!ListTyped, ConstraintsInv
    <2>2. QED BY <2>1 DEF Scan!WellFormed, Scan!IntervalLists, ScanP!IntervalLists, Scan!Ordered, ScanP!Ordered
  <1>2. QED BY <1>1, RegAllocInvariant, ConstraintsInvariant, PTL

-----------------------------------------------------------------------------
(* The operands of the system calls *)

\* Between the instruction that writes it and the one that reads it, and nowhere else.
LEMMA LiveOnlyBetween ==
  ASSUME NEW prg \in Seq(Instructions), NEW t, NEW j \in Nat, NEW k \in Nat, j < k, ShortLived(prg, t, j, k)
  PROVE  \A i \in DOMAIN prg : t \in LiveTable(prg)[i] => i \in (j + 1)..k
  <1> DEFINE L == LiveTable(prg)
             table == [i \in DOMAIN prg |-> IF i \in (j + 1)..k THEN L[i] ELSE L[i] \ {t}]
  <1>1. /\ DOMAIN prg = 1..Len(prg) /\ Len(prg) \in Nat
        /\ \A i \in DOMAIN prg : Uses(prg[i]) \ {REG_0} \subseteq L[i]
        /\ \A i \in DOMAIN prg : LiveAfter(prg, L, i) \ Defs(prg[i]) \subseteq L[i]
    BY LiveTableSolves
  <1> HIDE DEF L
  <1>2. /\ t \in Defs(prg[j])
        /\ \A i \in DOMAIN prg : t \in Uses(prg[i]) => i = k
        /\ \A h \in DOMAIN prg : \A i \in (j + 1)..k : i \in Flow(prg, h) => h = i - 1
    BY DEF ShortLived
  <1>3. \A i \in DOMAIN prg : Uses(prg[i]) \ {REG_0} \subseteq table[i]
    <2>1. k \in (j + 1)..k
      OBVIOUS
    <2>2. QED BY <2>1, <1>1, <1>2
  <1>4. ASSUME NEW i \in DOMAIN prg, NEW m \in DOMAIN prg \intersect Flow(prg, i)
        PROVE  table[m] \ Defs(prg[i]) \subseteq table[i]
    <2> SUFFICES ASSUME NEW u \in table[m], u \notin Defs(prg[i]) PROVE u \in table[i]
      OBVIOUS
    <2>1. u \in L[i]
      <3>1. m # End(prg)
        BY <1>1 DEF End
      <3>2. u \in L[m]
        OBVIOUS
      <3>3. u \in LiveAfter(prg, L, i)
        BY <3>1, <3>2 DEF LiveAfter
      <3>4. QED BY <3>3, <1>1
    <2>2. CASE u = t
      <3>1. m \in (j + 1)..k
        BY <2>2
      <3>2. i = m - 1
        BY <3>1, <1>2
      <3>3. i # j
        BY <2>2, <1>2
      <3>4. i \in (j + 1)..k
        BY <3>1, <3>2, <3>3
      <3>5. QED BY <3>4, <2>1
    <2>3. CASE u # t
      BY <2>1, <2>3
    <2>4. QED BY <2>2, <2>3
  <1>5. \A i \in DOMAIN prg : L[i] \subseteq table[i]
    <2> HIDE DEF table
    <2>1. QED BY <1>3, <1>4, LiveTableIsLeast DEF L
  <1>6. QED BY <1>5 DEF L

\* Its interval starts where it is written and ends, at the latest, where it is read.
LEMMA ShortInterval ==
  ASSUME RegAllocInv, stage = "scan", NEW t \in Range(live.order), NEW j \in DOMAIN prog, NEW k \in Nat,
         j < k, ShortLived(prog, t, j, k)
  PROVE  /\ live.startPoint[t] = j /\ live.endPoint[t] <= k
         /\ \A i \in DOMAIN prog : t \in out[i] => i \in j..(k - 1)
  <1>1. /\ GraphInv /\ SweepInv /\ prog \in Seq(Instructions) /\ Len(prog) \in Nat /\ DOMAIN prog = 1..Len(prog)
        /\ IntervalsUpTo(Len(prog))
    BY ProgFacts DEF RegAllocInv, IntervalsInv, GraphInv
  <1>2. \A i \in DOMAIN prog : t \in in[i] => i \in (j + 1)..k
    <2>1. \A i \in DOMAIN prog : in[i] = LiveTable(prog)[i]
      BY <1>1, SetsAreLive
    <2>2. j \in Nat
      BY <1>1
    <2>3. \A i \in DOMAIN prog : t \in LiveTable(prog)[i] => i \in (j + 1)..k
      BY <2>2, <1>1, LiveOnlyBetween
    <2>4. QED BY <2>1, <2>3
  <1>3. ASSUME NEW i \in DOMAIN prog, t \in out[i]
        PROVE  i \in j..(k - 1)
    <2>1. PICK m \in Flow(prog, i) \intersect DOMAIN prog : t \in in[m]
      BY <1>1, <1>3, SetsAreLive
    <2>2. m \in (j + 1)..k
      BY <1>2, <2>1
    <2>3. i = m - 1
      BY <2>1, <2>2 DEF ShortLived
    <2>4. QED BY <2>2, <2>3, <1>1
  <1>4. \A i \in DOMAIN prog : t \in Defs(prog[i]) => i = j
    BY DEF ShortLived
  <1>5. \A i \in DOMAIN prog : t \in LiveAt(i) => i \in j..k
    BY <1>1, <1>2, <1>3, <1>4 DEF LiveAt
  <1>6. t \in LiveAt(j)
    BY DEF LiveAt, ShortLived
  <1>7. live.startPoint[t] <= j
    BY <1>1, <1>6 DEF IntervalsUpTo
  <1>8. live.startPoint[t] \in j..k /\ live.endPoint[t] \in j..k
    BY <1>1, <1>5 DEF IntervalsUpTo
  <1>9. QED BY <1>1, <1>3, <1>7, <1>8

\* Argument a of call k.
Operand(t, k, a) ==
  k \in DOMAIN prog /\ isCallInstruction(prog[k]) /\ a \in 1..3 /\ Args(prog[k])[a].ID = t /\ t # REG_INVALID

Lowered == CallsLowered(prog) /\ EnteredFromAbove(prog)

LEMMA OperandFacts ==
  ASSUME prog \in Programs, CallsLowered(prog), NEW t, NEW k, NEW a, Operand(t, k, a)
  PROVE  /\ a = 1 => /\ t \in Defs(prog[k]) /\ ShortLived(prog, t, k, k + 1)
                     /\ k + 1 \in DOMAIN prog => ~isCallInstruction(prog[k + 1])
         /\ a # 1 => /\ t \in Uses(prog[k]) /\ a \in Sources(prog[k])
                     /\ \E j \in 1..(k - 1) :
                          /\ ShortLived(prog, t, j, k)
                          /\ \A i \in j..(k - 1) : ~isCallInstruction(prog[i])
                          /\ \A i \in (j + 1)..(k - 1) : Defs(prog[i]) \subseteq Uses(prog[k])
         /\ Args(prog[k])[a].mcRegWhitelist # <<>>
         /\ \A r, s \in Range(Args(prog[k])[a].mcRegWhitelist) : r = s
         /\ t # REG_0
  <1>1. /\ Args(prog[k])[1] = prog[k].rDest /\ Args(prog[k])[2] = prog[k].rSrc1 /\ Args(prog[k])[3] = prog[k].rSrc2
    BY DEF Args
  <1>2. a = 1 => t \in Defs(prog[k])
    BY <1>1 DEF Operand, Defs
  <1>3. a # 1 => t \in Uses(prog[k]) /\ a \in Sources(prog[k])
    BY <1>1 DEF Operand, Uses, Sources
  <1>4. /\ Args(prog[k])[a].mcRegWhitelist # <<>>
        /\ \A r, s \in Range(Args(prog[k])[a].mcRegWhitelist) : r = s
    BY DEF Operand, CallsLowered
  <1>5. /\ REG_0 \notin Defs(prog[k]) \union Uses(prog[k])
        /\ \A u \in Uses(prog[k]) : \E j \in 1..(k - 1) :
              /\ ShortLived(prog, u, j, k)
              /\ \A i \in j..(k - 1) : ~isCallInstruction(prog[i])
              /\ \A i \in (j + 1)..(k - 1) : Defs(prog[i]) \subseteq Uses(prog[k])
        /\ \A u \in Defs(prog[k]) :
              /\ ShortLived(prog, u, k, k + 1)
              /\ k + 1 \in DOMAIN prog => ~isCallInstruction(prog[k + 1])
    BY DEF Operand, CallsLowered
  <1>6. QED BY <1>2, <1>3, <1>4, <1>5

\* A temporary is an operand once.
LEMMA OperandOnce ==
  ASSUME prog \in Programs, CallsLowered(prog), NEW t, NEW k, NEW a, Operand(t, k, a), NEW l, NEW b, Operand(t, l, b)
  PROVE  k = l /\ a = b
  <1>1. DOMAIN prog = 1..Len(prog) /\ Len(prog) \in Nat /\ k \in DOMAIN prog /\ l \in DOMAIN prog
        /\ isCallInstruction(prog[k]) /\ isCallInstruction(prog[l])
    BY ArgsOfProgram DEF Operand
  <1>2. ASSUME NEW n, NEW c, Operand(t, n, c), NEW m, NEW d, Operand(t, m, d), c = 1, d # 1
        PROVE  FALSE
    <2>1. t \in Defs(prog[n]) /\ n \in DOMAIN prog /\ isCallInstruction(prog[n])
      BY <1>2, OperandFacts DEF Operand
    <2>2. PICK j \in 1..(m - 1) : ShortLived(prog, t, j, m) /\ \A i \in j..(m - 1) : ~isCallInstruction(prog[i])
      BY <1>2, OperandFacts
    <2>3. n = j
      BY <2>1, <2>2 DEF ShortLived
    <2>4. m \in Nat /\ j \in j..(m - 1)
      BY <1>1, <1>2, <2>2 DEF Operand
    <2>5. QED BY <2>1, <2>2, <2>3, <2>4
  <1>3. CASE a = 1 /\ b = 1
    <2>1. ShortLived(prog, t, k, k + 1) /\ t \in Defs(prog[l])
      BY <1>3, OperandFacts
    <2>2. QED BY <2>1, <1>1, <1>3 DEF ShortLived
  <1>4. CASE a # 1 /\ b # 1
    <2>1. t \in Uses(prog[l]) /\ \E j : ShortLived(prog, t, j, k)
      BY <1>4, OperandFacts
    <2>2. k = l
      BY <2>1, <1>1 DEF ShortLived
    <2>3. a \in Sources(prog[k]) /\ b \in Sources(prog[k])
      BY <2>2, <1>4, OperandFacts
    <2>4. a # b => Args(prog[k])[a].ID # Args(prog[k])[b].ID
      BY <2>3, <1>1 DEF CallsLowered
    <2>5. QED BY <2>2, <2>4 DEF Operand
  <1>5. QED BY <1>2, <1>3, <1>4

\* Constrained temporaries are operands, and the constraint is the operand's.
LEMMA OperandRegister ==
  ASSUME prog \in Programs, CallsLowered(prog), NEW t
  PROVE  /\ Constrained(t) => \E k, a : Operand(t, k, a)
         /\ \A k, a : Operand(t, k, a) =>
              /\ Range(mcRegWhitelist(prog, t)) = Range(Args(prog[k])[a].mcRegWhitelist)
              /\ Constrained(t)
              /\ Range(Args(prog[k])[a].mcRegWhitelist) # {}
  <1>1. \A k \in DOMAIN prog : \A a \in 1..3 : Asks(Args(prog[k])[a], t) => Operand(t, k, a)
    BY DEF CallsLowered, Asks, Operand
  <1>2. ASSUME Constrained(t) PROVE \E k, a : Operand(t, k, a)
    <2> SUFFICES ASSUME ~ \E k, a : Operand(t, k, a) PROVE FALSE
      OBVIOUS
    <2>1. \A k \in DOMAIN prog : \A a \in 1..3 : ~Asks(Args(prog[k])[a], t)
      BY <1>1
    <2> DEFINE R == {0}
    <2>2. R # {}
      OBVIOUS
    <2> HIDE DEF R
    <2>3. mcRegWhitelist(prog, t) = <<>>
      BY <2>1, <2>2, WhitelistIs
    <2>4. QED BY <2>3, <1>2 DEF Constrained
  <1>3. ASSUME NEW k, NEW a, Operand(t, k, a)
        PROVE  /\ Range(mcRegWhitelist(prog, t)) = Range(Args(prog[k])[a].mcRegWhitelist)
               /\ Constrained(t)
               /\ Range(Args(prog[k])[a].mcRegWhitelist) # {}
    <2> DEFINE R == Range(Args(prog[k])[a].mcRegWhitelist)
    <2>1. k \in DOMAIN prog /\ a \in 1..3 /\ Args(prog[k])[a].ID = t
          /\ Args(prog[k])[a].mcRegWhitelist # <<>> /\ Args(prog[k])[a].mcRegWhitelist \in Seq(Nat)
      BY <1>3, OperandFacts, ArgsOfProgram DEF Operand
    <2>2. R # {}
      <3> DEFINE w == Args(prog[k])[a].mcRegWhitelist
      <3>1. w \in Seq(Nat) /\ w # <<>>
        BY <2>1
      <3> HIDE DEF w
      <3>2. w[1] \in Range(w)
        BY <3>1 DEF Range
      <3>3. QED BY <3>2 DEF w
    <2>3. \A l \in DOMAIN prog : \A b \in 1..3 :
            Asks(Args(prog[l])[b], t) => Range(Args(prog[l])[b].mcRegWhitelist) = R
      BY <1>1, <1>3, OperandOnce
    <2>4. Asks(Args(prog[k])[a], t)
      BY <2>1 DEF Asks
    <2> HIDE DEF R
    <2>5. Range(mcRegWhitelist(prog, t)) = R
      BY <2>1, <2>2, <2>3, <2>4, WhitelistIs
    <2>6. Constrained(t)
      BY <2>2, <2>5 DEF Constrained, Range
    <2>7. QED BY <2>2, <2>5, <2>6 DEF R
  <1>4. QED BY <1>2, <1>3

\* What a call writes and reads are its operands.
LEMMA AsOperand ==
  ASSUME NEW k \in DOMAIN prog, isCallInstruction(prog[k]), NEW t
  PROVE  /\ t \in Defs(prog[k]) => Operand(t, k, 1)
         /\ t \in Uses(prog[k]) => \E b \in {2, 3} : Operand(t, k, b) /\ b \in Sources(prog[k])
  <1>1. /\ Args(prog[k])[1] = prog[k].rDest /\ Args(prog[k])[2] = prog[k].rSrc1 /\ Args(prog[k])[3] = prog[k].rSrc2
    BY DEF Args
  <1>2. t \in Defs(prog[k]) => Operand(t, k, 1)
    BY <1>1 DEF Defs, Operand
  <1>3. t \in Uses(prog[k]) => \E b \in {2, 3} : Operand(t, k, b) /\ b \in Sources(prog[k])
    <2>1. ASSUME t = prog[k].rSrc1.ID, t # REG_INVALID
          PROVE  Operand(t, k, 2) /\ 2 \in Sources(prog[k])
      BY <1>1, <2>1 DEF Operand, Sources
    <2>2. ASSUME t = prog[k].rSrc2.ID, t # REG_INVALID
          PROVE  Operand(t, k, 3) /\ 3 \in Sources(prog[k])
      BY <1>1, <2>2 DEF Operand, Sources
    <2>3. QED BY <2>1, <2>2 DEF Uses
  <1>4. QED BY <1>2, <1>3

\* Operands are temporaries of the list, live at their call.
LEMMA OperandListed ==
  ASSUME RegAllocInv, stage = "scan", CallsLowered(prog), NEW t, NEW k, NEW a, Operand(t, k, a)
  PROVE  t \in LiveAt(k) /\ t \in Range(live.order) /\ (a # 1 => t \in in[k])
  <1>1. /\ GraphInv /\ SweepInv /\ prog \in Programs /\ DOMAIN prog = 1..Len(prog) /\ IntervalsUpTo(Len(prog))
        /\ k \in DOMAIN prog
    BY ProgFacts DEF RegAllocInv, IntervalsInv, GraphInv, Operand
  <1>2. t \in Defs(prog[k]) \/ (a # 1 /\ t \in Uses(prog[k]) /\ t # REG_0)
    BY <1>1, OperandFacts
  <1>3. Uses(prog[k]) \ {REG_0} \subseteq in[k]
    BY <1>1, SetsAreLive DEF LiveBefore
  <1>4. a # 1 => t \in in[k]
    <2>1. a # 1 => t \in Uses(prog[k]) /\ t # REG_0
      BY <1>1, OperandFacts
    <2>2. QED BY <2>1, <1>3
  <1>5. t \in LiveAt(k)
    BY <1>2, <1>3 DEF LiveAt
  <1>6. QED BY <1>1, <1>4, <1>5 DEF IntervalsUpTo

\* While an operand waits for its call only the other operands of the call start, each
\* of which has a register of its own.
LEMMA Apart ==
  ASSUME RegAllocInv, stage = "scan", Lowered, NEW i \in DOMAIN live.order, NEW j \in DOMAIN live.order, i < j,
         NEW t, t = live.order[i], NEW u, u = live.order[j], Constrained(t), StartsWithin(t, u)
  PROVE  Constrained(u) /\ Range(mcRegWhitelist(prog, t)) \intersect Range(mcRegWhitelist(prog, u)) = {}
  <1> DEFINE s == live.startPoint[u]
  <1>1. /\ prog \in Programs /\ Len(prog) \in Nat /\ DOMAIN prog = 1..Len(prog) /\ IntervalsUpTo(Len(prog))
        /\ CallsLowered(prog) /\ EnteredFromAbove(prog)
    BY ProgFacts DEF RegAllocInv, IntervalsInv, GraphInv, Lowered
  <1>2. t \in Range(live.order) /\ u \in Range(live.order)
    BY DEF Range
  <1>3. t # u /\ live.startPoint[t] <= s
    <2>1. i # j
      BY <1>1 DEF IntervalsUpTo, ScanP!ListTyped
    <2>2. QED BY <1>1, <2>1 DEF IntervalsUpTo, ScanP!ListTyped, ScanP!Ordered
  <1>4. s < live.endPoint[t] /\ s \in Nat /\ live.endPoint[t] \in Nat /\ live.startPoint[t] \in Nat
    BY <1>1, <1>2 DEF StartsWithin, IntervalsUpTo
  <1>5. s \in DOMAIN prog /\ Defs(prog[s]) = {u}
    BY <1>1, <1>2, StartsWithWrite
  <1> HIDE DEF s
  <1>6. PICK k, a : Operand(t, k, a)
    BY <1>1, OperandRegister
  <1>7. k \in DOMAIN prog /\ k \in Nat /\ isCallInstruction(prog[k])
    BY <1>1, <1>6 DEF Operand
  <1>8. CASE a = 1
    <2>1. t \in Defs(prog[k]) /\ ShortLived(prog, t, k, k + 1)
      BY <1>1, <1>6, <1>8, OperandFacts
    <2>2. live.startPoint[t] = k /\ live.endPoint[t] <= k + 1
      BY <2>1, <1>2, <1>7, ShortInterval
    <2>3. s = k
      BY <2>2, <1>3, <1>4, <1>7
    <2>4. QED BY <2>1, <2>3, <1>3, <1>5
  <1>9. CASE a # 1
    <2>1. PICK h \in 1..(k - 1) :
             /\ ShortLived(prog, t, h, k)
             /\ \A l \in (h + 1)..(k - 1) : Defs(prog[l]) \subseteq Uses(prog[k])
      BY <1>1, <1>6, <1>9, OperandFacts
    <2>2. h \in DOMAIN prog /\ h < k /\ h \in Nat
      BY <2>1, <1>1, <1>7
    <2>3. live.startPoint[t] = h /\ live.endPoint[t] <= k
      BY <2>1, <2>2, <1>2, <1>7, ShortInterval
    <2>4. s # h
      BY <2>1, <1>3, <1>5 DEF ShortLived
    <2>5. s \in (h + 1)..(k - 1)
      BY <2>2, <2>3, <2>4, <1>3, <1>4, <1>7
    <2>6. u \in Uses(prog[k])
      BY <2>1, <2>5, <1>5
    <2>7. PICK b : Operand(u, k, b) /\ b \in Sources(prog[k])
      BY <2>6, <1>7, AsOperand
    <2>8. a \in Sources(prog[k])
      BY <1>1, <1>6, <1>9, OperandFacts
    <2>9. a # b
      BY <2>7, <1>3, <1>6 DEF Operand
    <2>10. Range(Args(prog[k])[a].mcRegWhitelist) \intersect Range(Args(prog[k])[b].mcRegWhitelist) = {}
      BY <2>7, <2>8, <2>9, <1>1, <1>7 DEF CallsLowered
    <2>11. /\ Range(mcRegWhitelist(prog, t)) = Range(Args(prog[k])[a].mcRegWhitelist)
           /\ Range(mcRegWhitelist(prog, u)) = Range(Args(prog[k])[b].mcRegWhitelist)
           /\ Constrained(u)
      BY <2>7, <1>1, <1>6, OperandRegister
    <2>12. QED BY <2>10, <2>11
  <1>10. QED BY <1>8, <1>9

\* No call takes the register of an operand from it.
LEMMA NotTaken ==
  ASSUME RegAllocInv, ConstraintsInv, stage = "scan", Lowered,
         NEW i \in DOMAIN live.order, Constrained(live.order[i])
  PROVE  /\ Range(live.mcRegs[live.order[i]]) = Range(mcRegWhitelist(prog, live.order[i]))
         /\ Range(mcRegWhitelist(prog, live.order[i])) # {}
  <1> DEFINE t == live.order[i]
  <1>1. /\ prog \in Programs /\ Len(prog) \in Nat /\ DOMAIN prog = 1..Len(prog)
        /\ CallsLowered(prog) /\ ProtectedUpTo(cursor) /\ t \in Range(live.order)
    BY ProgFacts DEF RegAllocInv, GraphInv, Lowered, ConstraintsInv, Range
  <1>2. PICK k, a : Operand(t, k, a)
    BY <1>1, OperandRegister
  <1>3. k \in DOMAIN prog /\ k \in Nat /\ isCallInstruction(prog[k])
    BY <1>1, <1>2 DEF Operand
  <1>4. Range(mcRegWhitelist(prog, t)) # {}
    BY <1>1, <1>2, OperandRegister
  <1>5. ASSUME NEW l, NEW r \in Range(mcRegWhitelist(prog, t)), TakenBy(l, t, r)
        PROVE  FALSE
    <2>1. /\ l \in DOMAIN prog /\ l \in Nat /\ isCallInstruction(prog[l]) /\ r \in ClobberedBy(l)
          /\ live.startPoint[t] <= l /\ l <= live.endPoint[t]
      BY <1>1, <1>5 DEF TakenBy, Crosses
    <2>2. l = k
      <3>1. CASE a = 1
        <4>1. ShortLived(prog, t, k, k + 1) /\ (k + 1 \in DOMAIN prog => ~isCallInstruction(prog[k + 1]))
          BY <1>1, <1>2, <3>1, OperandFacts
        <4>2. live.startPoint[t] = k /\ live.endPoint[t] <= k + 1
          BY <4>1, <1>1, <1>3, ShortInterval
        <4>3. l # k + 1
          BY <4>1, <2>1
        <4>4. live.endPoint[t] \in Nat
          BY <1>1 DEF RegAllocInv, IntervalsInv, IntervalsUpTo
        <4>5. QED BY <4>2, <4>3, <4>4, <2>1, <1>3
      <3>2. CASE a # 1
        <4>1. PICK h \in 1..(k - 1) :
                 ShortLived(prog, t, h, k) /\ \A m \in h..(k - 1) : ~isCallInstruction(prog[m])
          BY <1>1, <1>2, <3>2, OperandFacts
        <4>2. h \in DOMAIN prog /\ h < k /\ h \in Nat
          BY <4>1, <1>1, <1>3
        <4>3. live.startPoint[t] = h /\ live.endPoint[t] <= k
          BY <4>1, <4>2, <1>1, <1>3, ShortInterval
        <4>4. l \notin h..(k - 1)
          BY <4>1, <2>1
        <4>5. live.endPoint[t] \in Nat
          BY <1>1 DEF RegAllocInv, IntervalsInv, IntervalsUpTo
        <4>6. QED BY <4>2, <4>3, <4>4, <4>5, <2>1, <1>3
      <3>3. QED BY <3>1, <3>2
    <2>3. t \in Defs(prog[k]) \union Uses(prog[k])
      BY <1>1, <1>2, OperandFacts
    <2>4. r \notin ClobberedBy(k)
      BY <2>3, <1>5 DEF ClobberedBy
    <2>5. QED BY <2>1, <2>2, <2>4
  <1>6. /\ Range(live.mcRegs[t]) \subseteq Range(mcRegWhitelist(prog, t))
        /\ \A r \in Range(mcRegWhitelist(prog, t)) : r \in Range(live.mcRegs[t]) \/ \E l : TakenBy(l, t, r)
    BY <1>1 DEF ProtectedUpTo
  <1> HIDE DEF t
  <1>7. Range(live.mcRegs[t]) = Range(mcRegWhitelist(prog, t))
    BY <1>5, <1>6
  <1>8. QED BY <1>4, <1>7 DEF t

\* The registers taken by the visited intervals that are live past the start of the next
\* one never include the register of an operand.
LEMMA NotPressed ==
  ASSUME RegAllocInv, ConstraintsInv, ScanP!CInv, stage = "scan", Lowered,
         next \in DOMAIN live.order, Constrained(live.order[next]),
         NEW i \in 1..(next - 1), bindings[live.order[i]] \in Range(GpRegs),
         StartsWithin(live.order[i], live.order[next])
  PROVE  bindings[live.order[i]] \notin Range(mcRegWhitelist(prog, live.order[next]))
  <1> DEFINE h == live.order[i]
             t == live.order[next]
             w == mcRegWhitelist(prog, t)
  <1>1. i \in DOMAIN live.order /\ i < next /\ ProtectedUpTo(cursor)
    <2>1. live.order \in Seq(Temps) /\ ProtectedUpTo(cursor)
      BY ListFields DEF ConstraintsInv
    <2> HIDE DEF h, t, w
    <2>2. next \in 1..Len(live.order) /\ Len(live.order) \in Nat
      BY <2>1
    <2>3. i \in 1..Len(live.order) /\ i < next
      BY <2>2
    <2>4. QED BY <2>1, <2>3
  <1>2. bindings[h] \in Range(live.mcRegs[h])
    BY DEF ScanP!CInv, ScanP!RespectsConstraints, Range
  <1>3. CASE Constrained(h)
    <2>1. Range(mcRegWhitelist(prog, h)) \intersect Range(w) = {}
      BY <1>1, <1>3, Apart
    <2>2. Range(live.mcRegs[h]) \subseteq Range(mcRegWhitelist(prog, h))
      BY <1>1, <1>3 DEF ProtectedUpTo
    <2>3. QED BY <2>1, <2>2, <1>2
  <1>4. CASE ~Constrained(h)
    <2>1. MakesRoom(i)
      BY <1>1, <1>4 DEF ProtectedUpTo
    <2>2. Range(live.mcRegs[h]) \intersect Range(w) = {}
      BY <2>1, <1>1 DEF MakesRoom
    <2>3. QED BY <2>2, <1>2
  <1>5. QED BY <1>3, <1>4

-----------------------------------------------------------------------------
(* The scan under the constraints *)

\* The constrained intervals visited so far hold a register.
OperandsHold ==
  \A i \in 1..(next - 1) :
    Constrained(live.order[i]) => bindings[live.order[i]] \in Range(GpRegs)

PlacedInv ==
  stage = "scan" => /\ ScanP!CInv
                    /\ ScanP!ActiveSorted
                    /\ Lowered => OperandsHold

LEMMA ScanKeepsOperands ==
  ASSUME RegAllocInv, ConstraintsInv, PlacedInv, stage = "scan", Lowered, ScanP!Next, UNCHANGED prog
  PROVE  OperandsHold'
  <1>1. /\ ScanP!IInv /\ ScanP!CInv /\ ScanP!ActiveSorted /\ OperandsHold /\ ScanP!ScanTyped
        /\ live.order \in Seq(Temps) /\ next \in 1..(Len(live.order) + 1)
    BY DEF RegAllocInv, ScanInv, PlacedInv, ScanP!IInv, ScanP!ScanTyped, ScanP!ListTyped
  <1>2. UNCHANGED live
    BY DEF ScanP!Next, ScanP!ExpireOldInterval, ScanP!AssignRegister, ScanP!SpillLast,
           ScanP!SpillCurrent, ScanP!Finished, ScanP!vars
  <1>3. \A t : Constrained(t)' <=> Constrained(t)
    BY DEF Constrained
  <1>4. CASE ScanP!ExpireOldInterval \/ ScanP!Finished
    <2>1. UNCHANGED <<next, bindings>>
      BY <1>4 DEF ScanP!ExpireOldInterval, ScanP!Finished, ScanP!vars
    <2>2. QED BY <2>1, <1>1, <1>2, <1>3 DEF OperandsHold
  <1> DEFINE c == live.order[next]
  <1>5. ASSUME ScanP!Scanning
        PROVE  /\ next \in DOMAIN live.order /\ c \in Temps /\ ScanP!Current = c
               /\ \A i \in 1..(next - 1) : live.order[i] \in Temps /\ live.order[i] # c
    BY <1>1, <1>5, RegsAreNaturals, ScanP!CurrentIsNew DEF ScanP!Current
  \* What remains to be shown of a step that visits the next interval.
  <1>6. ASSUME next' = next + 1,
               \A i \in 1..(next - 1) : Constrained(live.order[i]) => bindings'[live.order[i]] \in Range(GpRegs),
               Constrained(c) => bindings'[c] \in Range(GpRegs)
        PROVE  OperandsHold'
    <2>1. \A i \in 1..(next' - 1) : i = next \/ i \in 1..(next - 1)
      BY <1>1, <1>6
    <2>2. QED BY <2>1, <1>2, <1>3, <1>6 DEF OperandsHold
  <1>7. bindings \in [Temps -> Range(GpRegs) \union {ScanP!REG_0, ScanP!RA_SPILL_REQUIRED, ScanP!RA_REGISTER_INVALID}]
    BY <1>1 DEF ScanP!ScanTyped
  <1>8. CASE ScanP!AssignRegister
    <2>1. ScanP!Scanning /\ next' = next + 1 /\ \E r \in Range(GpRegs) : bindings' = [bindings EXCEPT ![c] = r]
      BY <1>8 DEF ScanP!AssignRegister, ScanP!Current
    <2>2. PICK r \in Range(GpRegs) : bindings' = [bindings EXCEPT ![c] = r]
      BY <2>1
    <2> HIDE DEF c
    <2>3. /\ bindings'[c] = r
          /\ \A i \in 1..(next - 1) : bindings'[live.order[i]] = bindings[live.order[i]]
      BY <2>1, <2>2, <1>5, <1>7
    <2>4. QED BY <2>1, <2>3, <1>1, <1>6 DEF OperandsHold
  <1>9. CASE ScanP!SpillLast
    <2> DEFINE last == active[Len(active)]
    <2>1. /\ ScanP!Scanning /\ next' = next + 1 /\ active # <<>> /\ ScanP!CanTakeOver(last)
          /\ bindings' = [bindings EXCEPT ![c] = bindings[last], ![last] = ScanP!RA_SPILL_REQUIRED]
      BY <1>9 DEF ScanP!SpillLast, ScanP!Current
    <2>2. Len(active) \in DOMAIN active /\ active \in Seq(Temps)
      BY <1>1, <2>1 DEF ScanP!ScanTyped
    <2>3. PICK i \in 1..(next - 1) : live.order[i] = last /\ bindings[last] \in Range(GpRegs)
      BY <2>2, <1>1 DEF ScanP!IInv, ScanP!ActiveVisited
    <2> HIDE DEF last
    <2>4. i \in DOMAIN live.order /\ i < next /\ last \in Temps /\ last # c
      BY <1>1, <1>5, <2>1, <2>3
    <2>5. StartsWithin(last, c)
      <3>1. /\ live.endPoint[last] > live.endPoint[c] /\ live.startPoint[c] <= live.endPoint[c]
        BY <2>1, <1>1, <1>5, RegsAreNaturals, ScanP!ListFacts DEF ScanP!CanTakeOver, ScanP!EndOf, ScanP!StartOf
      <3>2. live.endPoint[last] \in Nat /\ live.endPoint[c] \in Nat /\ live.startPoint[c] \in Nat
        BY <1>1, <1>5, <2>1, <2>4 DEF ScanP!ScanTyped, ScanP!ListTyped
      <3>3. QED BY <3>1, <3>2 DEF StartsWithin
    <2>6. ~Constrained(last)
      <3> SUFFICES ASSUME Constrained(last) PROVE FALSE
        OBVIOUS
      <3>1. /\ Constrained(c)
            /\ Range(mcRegWhitelist(prog, last)) \intersect Range(mcRegWhitelist(prog, c)) = {}
        BY <1>5, <2>1, <2>3, <2>4, <2>5, Apart
      <3>2. bindings[last] \in Range(live.mcRegs[last])
        BY <1>1, <2>3 DEF ScanP!CInv, ScanP!RespectsConstraints, Range
      <3>3. bindings[last] \in Range(live.mcRegs[c])
        <4>1. PICK n \in DOMAIN constraints[c] : constraints[c][n] = bindings[last]
          BY <1>5, <2>1 DEF ScanP!CanTakeOver
        <4>2. \E l \in DOMAIN live.mcRegs[c] : live.mcRegs[c][l] = constraints[c][n]
          BY <1>1, <1>5, <2>1, <4>1 DEF ScanP!CInv, ScanP!ConstraintsPermuted
        <4>3. QED BY <4>1, <4>2 DEF Range
      <3>4. /\ Range(live.mcRegs[last]) = Range(mcRegWhitelist(prog, last))
            /\ Range(live.mcRegs[c]) = Range(mcRegWhitelist(prog, c))
        BY <1>5, <2>1, <2>3, <2>4, <3>1, NotTaken
      <3>5. QED BY <3>1, <3>2, <3>3, <3>4
    <2> HIDE DEF c
    <2>7. /\ bindings'[c] = bindings[last]
          /\ \A t \in Temps : t # c /\ t # last => bindings'[t] = bindings[t]
      BY <2>1, <2>4, <1>5, <1>7
    <2>8. \A l \in 1..(next - 1) : Constrained(live.order[l]) => bindings'[live.order[l]] \in Range(GpRegs)
      BY <2>1, <2>6, <2>7, <1>1, <1>5 DEF OperandsHold
    <2>9. QED BY <2>1, <2>3, <2>7, <2>8, <1>6
  <1>10. CASE ScanP!SpillCurrent
    <2>1. /\ ScanP!Scanning /\ next' = next + 1 /\ ScanP!ExpiryDone /\ ScanP!NoneFree
          /\ bindings' = [bindings EXCEPT ![c] = ScanP!RA_SPILL_REQUIRED]
      BY <1>10 DEF ScanP!SpillCurrent, ScanP!Current
    <2>2. ScanP!Pressed(c)
      BY <2>1, <1>1, <1>5, RegsAreNaturals, ScanP!NoneFreeIsPressed
    <2>3. ~Constrained(c)
      <3> SUFFICES ASSUME Constrained(c) PROVE FALSE
        OBVIOUS
      <3>1. Range(live.mcRegs[c]) = Range(mcRegWhitelist(prog, c)) /\ Range(live.mcRegs[c]) # {}
        BY <1>5, <2>1, NotTaken
      <3>2. PICK n \in DOMAIN live.mcRegs[c] : live.mcRegs[c][n] \in Range(mcRegWhitelist(prog, c))
        BY <3>1 DEF Range
      <3>3. PICK i \in 1..(next - 1) : /\ bindings[live.order[i]] = live.mcRegs[c][n]
                                       /\ live.endPoint[live.order[i]] > live.startPoint[c]
        BY <2>2 DEF ScanP!Pressed, ScanP!EndOf, ScanP!StartOf
      <3>4. live.mcRegs[c][n] \in Range(GpRegs)
        BY <1>5, <2>1, <3>2, ListFields DEF ConstraintsInv, GeneralRegs
      <3>5. StartsWithin(live.order[i], c)
        <4>1. live.endPoint[live.order[i]] \in Nat /\ live.startPoint[c] \in Nat
          BY <1>1, <1>5, <2>1 DEF ScanP!ScanTyped, ScanP!ListTyped
        <4>2. QED BY <3>3, <4>1 DEF StartsWithin
      <3>6. QED BY <1>1, <1>5, <2>1, <3>2, <3>3, <3>4, <3>5, NotPressed
    <2> HIDE DEF c
    <2>4. \A i \in 1..(next - 1) : bindings'[live.order[i]] = bindings[live.order[i]]
      BY <2>1, <1>5, <1>7
    <2>5. QED BY <2>1, <2>3, <2>4, <1>1, <1>6 DEF OperandsHold
  <1>11. QED BY <1>4, <1>8, <1>9, <1>10 DEF ScanP!Next

LEMMA PlacedStep ==
  ASSUME RegAllocInv, ConstraintsInv, PlacedInv, [RegAllocNext]_allVars
  PROVE  PlacedInv'
  <1>1. CASE StartScan
    <2>1. /\ stage' = "scan" /\ next' = 1 /\ active' = <<>> /\ constraints' = live.mcRegs
          /\ UNCHANGED <<prog, live, bindings>> /\ live \in ScanP!IntervalLists
      BY <1>1 DEF StartScan, ConstraintsInv
    <2>2. ScanP!CInv'
      BY <2>1 DEF ScanP!CInv, ScanP!ConstraintsTyped, ScanP!IntervalLists, ScanP!ConstraintsPermuted,
                  ScanP!RespectsConstraints
    <2>3. ScanP!ActiveSorted'
      BY <2>1 DEF ScanP!ActiveSorted
    <2>4. OperandsHold'
      BY <2>1 DEF OperandsHold
    <2>5. QED BY <2>2, <2>3, <2>4 DEF PlacedInv
  <1>2. CASE ScanStep
    <2>1. stage = "scan" /\ stage' = "scan" /\ UNCHANGED prog /\ ScanP!Next
      BY <1>2, ScanNextIsNext DEF ScanStep, cfgVars
    <2>2. ScanP!IInv /\ ScanP!CInv /\ ScanP!ActiveSorted
      BY <2>1 DEF RegAllocInv, ScanInv, PlacedInv
    <2>3. ScanP!CInv'
      BY <2>1, <2>2, RegsAreNaturals, ScanP!StepKeepsConstraints
    <2>4. ScanP!ActiveSorted'
      BY <2>1, <2>2, RegsAreNaturals, ScanP!StepKeepsSorted
    <2>5. Lowered' <=> Lowered
      BY <2>1 DEF Lowered
    <2>6. Lowered => OperandsHold'
      BY <2>1, ScanKeepsOperands
    <2>7. QED BY <2>3, <2>4, <2>5, <2>6 DEF PlacedInv
  <1>3. CASE UNCHANGED allVars
    <2>1. UNCHANGED <<prog, stage, live, next, active, constraints, bindings>>
      BY <1>3 DEF allVars, cfgVars, scanVars
    <2>2. /\ ScanP!CInv => ScanP!CInv'
          /\ ScanP!ActiveSorted => ScanP!ActiveSorted'
          /\ OperandsHold => OperandsHold'
          /\ Lowered' <=> Lowered
      BY <2>1 DEF ScanP!CInv, ScanP!ConstraintsTyped, ScanP!IntervalLists, ScanP!ConstraintsPermuted,
                  ScanP!RespectsConstraints, ScanP!ActiveSorted, ScanP!EndOf, OperandsHold, Constrained, Lowered
    <2>3. QED BY <2>1, <2>2 DEF PlacedInv
  <1>4. CASE IntervalsNext
    <2>1. stage' # "scan"
      BY <1>4, IntervalsStep DEF RegAllocInv
    <2>2. QED BY <2>1 DEF PlacedInv
  <1>5. QED BY <1>1, <1>2, <1>3, <1>4 DEF RegAllocNext

\* The scan respects its constraints, keeps its list sorted and spills no operand.
THEOREM PlacedInvariant == RegAllocSpec => []PlacedInv
  <1>1. RegAllocInit => PlacedInv
    BY DEF RegAllocInit, IntervalsInit, LivenessInit, CfgInit, PlacedInv
  <1>2. QED BY <1>1, PlacedStep, RegAllocInvariant, ConstraintsInvariant, PTL DEF RegAllocSpec

\* What the allocation gives each interval.
LEMMA Bound ==
  ASSUME RegAllocInv, ConstraintsInv, PlacedInv, Allocated, NEW t \in Range(live.order)
  PROVE  /\ bindings[t] \in Range(live.mcRegs[t]) \union {RA_SPILL_REQUIRED}
         /\ Lowered /\ Constrained(t) => bindings[t] \in Range(mcRegWhitelist(prog, t))
  <1>1. /\ stage = "scan" /\ ScanP!IInv /\ ScanP!CInv /\ (Lowered => OperandsHold) /\ ~Scan!Scanning
        /\ live.order \in Seq(Temps) /\ next \in 1..(Len(live.order) + 1) /\ ProtectedUpTo(cursor)
    BY DEF RegAllocInv, ScanInv, PlacedInv, Allocated, ConstraintsInv, ScanP!IInv, ScanP!ScanTyped, ScanP!ListTyped
  <1>2. PICK i \in DOMAIN live.order : t = live.order[i]
    BY DEF Range
  <1>3. i \in 1..(next - 1)
    BY <1>1 DEF Scan!Scanning
  <1>4. bindings[t] \in Range(GpRegs) => bindings[t] \in Range(live.mcRegs[t])
    BY <1>1, <1>2, <1>3 DEF ScanP!CInv, ScanP!RespectsConstraints, Range
  <1>5. bindings[t] \in Range(GpRegs) \union {RA_SPILL_REQUIRED}
    BY <1>1, <1>2, <1>3 DEF ScanP!IInv, ScanP!VisitedDecided, RA_SPILL_REQUIRED, ScanP!RA_SPILL_REQUIRED
  <1>6. Lowered /\ Constrained(t) => bindings[t] \in Range(GpRegs)
    BY <1>1, <1>2, <1>3 DEF OperandsHold
  <1>7. Constrained(t) => Range(live.mcRegs[t]) \subseteq Range(mcRegWhitelist(prog, t))
    BY <1>1, <1>2 DEF ProtectedUpTo
  <1>8. QED BY <1>4, <1>5, <1>6, <1>7

\* In a program whose calls are as fixSyscalls leaves them, each operand of a call is in
\* the register the call takes it from: no interval between the operand and the call is
\* given that register, and the operand is never the one to be spilled.
LEMMA PlacedByScan ==
  ASSUME RegAllocInv, ConstraintsInv, PlacedInv, Allocated, Lowered, NEW t, NEW k, NEW a, Operand(t, k, a)
  PROVE  bindings[t] \in Range(Args(prog[k])[a].mcRegWhitelist) /\ t \in Range(live.order)
  <1>1. stage = "scan" /\ prog \in Programs /\ CallsLowered(prog)
    BY DEF Allocated, RegAllocInv, GraphInv, Lowered
  <1>2. t \in Range(live.order)
    BY <1>1, OperandListed
  <1>3. Constrained(t) /\ Range(mcRegWhitelist(prog, t)) = Range(Args(prog[k])[a].mcRegWhitelist)
    BY <1>1, OperandRegister
  <1>4. QED BY <1>2, <1>3, Bound

\* The operands of a system call are in the registers the environment expects them in,
\* whatever the pressure on the others (initializeRegisterConstraints and
\* spillAtInterval), in every program whose calls are as fixSyscalls leaves them.
THEOREM OperandsAlwaysPlaced ==
  RegAllocSpec => [](CallsLowered(prog) /\ EnteredFromAbove(prog) => CallOperandsPlaced)
  <1>1. RegAllocInv /\ ConstraintsInv /\ PlacedInv /\ CallsLowered(prog) /\ EnteredFromAbove(prog)
          => CallOperandsPlaced
    <2> SUFFICES ASSUME RegAllocInv, ConstraintsInv, PlacedInv, Lowered, Allocated,
                        NEW k \in DOMAIN prog, isCallInstruction(prog[k]),
                        NEW arg \in Range(Args(prog[k])), arg.ID # REG_INVALID
                 PROVE  bindings[arg.ID] \in Range(arg.mcRegWhitelist)
      BY DEF CallOperandsPlaced, OperandsPlaced, Lowered
    <2>1. PICK a \in 1..3 : arg = Args(prog[k])[a]
      BY DEF Range, Args
    <2>2. Operand(arg.ID, k, a)
      BY <2>1 DEF Operand
    <2>3. QED BY <2>1, <2>2, PlacedByScan
  <1>2. QED BY <1>1, RegAllocInvariant, ConstraintsInvariant, PlacedInvariant, PTL

\* No value needed after a call is in a register the call may destroy: neither those
\* handleCallerSaveRegisters takes away nor those of the operands.
LEMMA SurvivesInv ==
  ASSUME RegAllocInv, ConstraintsInv, PlacedInv, Lowered
  PROVE  SurvivesCalls
  <1> SUFFICES ASSUME Allocated, NEW k \in DOMAIN prog, isCallInstruction(prog[k]),
                      NEW t \in LiveAfter(prog, LiveTable(prog), k) \ Defs(prog[k]),
                      bindings[t] \in CallerSaveRegs
               PROVE  FALSE
    BY DEF SurvivesCalls, CallsSurvived
  <1> DEFINE r == bindings[t]
  <1>1. /\ stage = "scan" /\ GraphInv /\ SweepInv /\ prog \in Programs /\ DOMAIN prog = 1..Len(prog)
        /\ Len(prog) \in Nat /\ k \in Nat /\ IntervalsUpTo(Len(prog)) /\ ProtectedUpTo(cursor)
        /\ cursor > Len(prog) /\ CallsLowered(prog) /\ EnteredFromAbove(prog) /\ live \in ScanP!IntervalLists
    BY ProgFacts DEF Allocated, RegAllocInv, IntervalsInv, GraphInv, ConstraintsInv, Lowered
  <1>2. t \in out[k] /\ t \notin Defs(prog[k]) /\ t \in in[k]
    BY <1>1, SetsAreLive DEF LiveBefore
  <1>3. /\ t \in Range(live.order) /\ t \in Temps /\ Crosses(t, k)
    <2>1. t \in LiveAt(k)
      BY <1>2 DEF LiveAt
    <2>2. t \in Range(live.order) /\ Crosses(t, k)
      BY <2>1, <1>1 DEF IntervalsUpTo, Crosses
    <2>3. QED BY <2>2, <1>1, ListFields DEF Range
  <1>4. r \in Range(live.mcRegs[t])
    <2>1. RA_SPILL_REQUIRED \notin CallerSaveRegs
      BY DEF RA_SPILL_REQUIRED, CallerSaveRegs
    <2>2. QED BY <2>1, <1>3, Bound
  <1>5. r \notin ClobberedBy(k)
    <2>1. ~TakenBy(k, t, r)
      <3>1. k < cursor
        BY <1>1 DEF ConstraintsInv
      <3>2. QED BY <3>1, <1>1, <1>3, <1>4 DEF ProtectedUpTo
    <2>2. QED BY <2>1, <1>3 DEF TakenBy
  <1>6. PICK u \in Defs(prog[k]) \union Uses(prog[k]) : r \in Range(mcRegWhitelist(prog, u))
    BY <1>5 DEF ClobberedBy
  <1>7. PICK a : Operand(u, k, a)
    BY <1>6, AsOperand
  <1>8. bindings[u] = r
    <2>1. bindings[u] \in Range(Args(prog[k])[a].mcRegWhitelist)
      BY <1>7, PlacedByScan
    <2>2. r \in Range(Args(prog[k])[a].mcRegWhitelist)
      BY <1>1, <1>6, <1>7, OperandRegister
    <2>3. QED BY <2>1, <2>2, <1>1, <1>7, OperandFacts
  <1>9. t # u
    <2> SUFFICES ASSUME t = u PROVE FALSE
      OBVIOUS
    <2>1. a # 1
      BY <1>1, <1>2, <1>7, OperandFacts
    <2>2. PICK h \in 1..(k - 1) : ShortLived(prog, t, h, k)
      BY <2>1, <1>1, <1>7, OperandFacts
    <2>3. h \in DOMAIN prog /\ h < k
      BY <2>2, <1>1
    <2>4. k \in h..(k - 1)
      BY <2>2, <2>3, <1>1, <1>2, <1>3, ShortInterval
    <2>5. QED BY <2>4, <1>1
  <1>10. u # REG_0
    BY <1>1, <1>7, OperandFacts
  <1>11. \E S \in {LiveTable(prog)[k], LiveAfter(prog, LiveTable(prog), k) \union (Defs(prog[k]) \ {REG_0})} :
            t \in S /\ u \in S
    <2>1. CASE u \in Defs(prog[k])
      BY <2>1, <1>10
    <2>2. CASE u \in Uses(prog[k])
      <3>1. u \in in[k]
        BY <2>2, <1>1, <1>10, SetsAreLive DEF LiveBefore
      <3>2. in[k] = LiveTable(prog)[k]
        BY <1>1, SetsAreLive
      <3>3. QED BY <3>1, <3>2, <1>2
    <2>3. QED BY <2>1, <2>2, <1>6
  <1>12. r # RA_SPILL_REQUIRED
    BY DEF RA_SPILL_REQUIRED, CallerSaveRegs
  <1>13. InterferenceFree(prog, LiveTable(prog), bindings)
    BY <1>1, KeptApart DEF NoInterference
  <1>14. QED BY <1>8, <1>9, <1>11, <1>12, <1>13 DEF InterferenceFree

\* No value needed after a system call is in a register the call may destroy
\* (handleCallerSaveRegisters), in every program whose calls are as fixSyscalls leaves them.
THEOREM ValuesSurviveCalls ==
  RegAllocSpec => [](CallsLowered(prog) /\ EnteredFromAbove(prog) => SurvivesCalls)
  <1>1. RegAllocInv /\ ConstraintsInv /\ PlacedInv /\ CallsLowered(prog) /\ EnteredFromAbove(prog) => SurvivesCalls
    BY SurvivesInv DEF Lowered
  <1>2. QED BY <1>1, RegAllocInvariant, ConstraintsInvariant, PlacedInvariant, PTL
===============================================================================
