------------------------------ MODULE FileProofs ------------------------------
(***************************************************************************)
(* Proofs about assembly files.  In every file that the lexer takes apart, *)
(* however often its numbers are declared again, a local label that is     *)
(* referred to is the nearest; what is not in error is an object that the  *)
(* layout starts from; and what acse writes of a LANCE program is such a   *)
(* file.  So what holds of the assembler for well-formed objects holds of  *)
(* the toolchain.                                                          *)
(***************************************************************************)
EXTENDS ToolchainProofs

-----------------------------------------------------------------------------
(* Searching *)

LEMMA LeastIsLeast ==
  ASSUME NEW V \in SUBSET Nat, V # {}
  PROVE  Min(V) \in V /\ \A y \in V : Min(V) <= y
  <1>1. PICK z \in V : \A y \in V : ~ (<<y, z>> \in NatLess)
    <2> HIDE DEF NatLess
    <2>1. QED BY NatLessWellFounded, WFMin, Zenon
  <1>2. ASSUME NEW y \in V PROVE z <= y
    <2>1. <<y, z>> \in NatLess <=> <<y, z>> \in Nat \X Nat /\ <<y, z>>[1] < <<y, z>>[2]
      BY DEF NatLess
    <2>2. QED BY <1>1, <2>1
  <1>3. QED BY <1>2 DEF Min

LEMMA GreatestOf ==
  ASSUME NEW m \in Nat, NEW V \in SUBSET 0..m, V # {}
  PROVE  Max(V) \in V /\ \A y \in V : y <= Max(V)
  <1> DEFINE U == {m - y : y \in V}
  <1>1. U \in SUBSET Nat /\ U # {}
    <2>1. ASSUME NEW y \in V PROVE m - y \in Nat
      <3>1. y \in 0..m
        OBVIOUS
      <3>2. QED BY <3>1
    <2>2. QED BY <2>1
  <1>2. Min(U) \in U /\ \A y \in U : Min(U) <= y
    <2> HIDE DEF U
    <2>1. QED BY <1>1, LeastIsLeast
  <1>3. PICK z \in V : Min(U) = m - z
    BY <1>2
  <1>4. \A y \in V : z >= y
    <2>1. ASSUME NEW y \in V PROVE z >= y
      <3>1. m - z <= m - y
        BY <1>2, <1>3
      <3>2. y \in Int /\ z \in Int
        OBVIOUS
      <3>3. QED BY <3>1, <3>2
    <2>2. QED BY <2>1
  <1>5. QED BY <1>4 DEF Max

LEMMA FindIs ==
  ASSUME NEW q, Len(q) \in Nat, NEW n
  PROVE  /\ Find(q, n) = 0 => \A k \in 1..Len(q) : q[k].identifier # n
         /\ Find(q, n) # 0 => /\ Find(q, n) \in 1..Len(q)
                              /\ q[Find(q, n)].identifier = n
                              /\ \A k \in 1..Len(q) : q[k].identifier = n => Find(q, n) <= k
  <1> DEFINE V == {k \in 1..Len(q) : q[k].identifier = n}
  <1>1. Find(q, n) = IF V # {} THEN Min(V) ELSE 0
    BY DEF Find, SelectInSeq
  <1>2. V \in SUBSET Nat
    OBVIOUS
  <1>3. ASSUME V # {}
        PROVE  Min(V) \in V /\ \A k \in V : Min(V) <= k
    <2> HIDE DEF V
    <2>1. QED BY <1>2, <1>3, LeastIsLeast
  <1>4. QED BY <1>1, <1>3

\* A sequence without one of its elements
HasGap(r, q, p) ==
  /\ Len(r) = Len(q) - 1
  /\ \A k \in 1..(p - 1) : r[k] = q[k]
  /\ \A k \in p..Len(r) : k + 1 \in (p + 1)..Len(q) /\ r[k] = q[k + 1]

LEMMA GapPlaces ==
  ASSUME NEW T, NEW q \in Seq(T), NEW p \in 1..Len(q)
  PROVE  RemoveAt(q, p) \in Seq(T) /\ HasGap(RemoveAt(q, p), q, p)
  <1> DEFINE before == SubSeq(q, 1, p - 1)
             after  == SubSeq(q, p + 1, Len(q))
             r == RemoveAt(q, p)
             m == Len(q)
  <1>1. m \in Nat /\ p \in Int /\ 1 <= p /\ p <= m
    OBVIOUS
  <1>2. before \in Seq(T) /\ Len(before) = p - 1 /\ \A k \in 1..(p - 1) : before[k] = q[k]
    BY <1>1
  <1>3. after \in Seq(T) /\ Len(after) = m - p /\ \A k \in 1..(m - p) : after[k] = q[p + k]
    <2>1. after \in Seq(T) /\ Len(after) = m - p
      BY <1>1
    <2>2. ASSUME NEW k \in 1..(m - p)
          PROVE  after[k] = q[p + k]
      <3>1. k \in 1..((m + 1) - (p + 1)) /\ p + k = (p + 1) + k - 1
        BY <1>1
      <3>2. QED BY <1>1, <3>1
    <2>3. QED BY <2>1, <2>2
  <1>4. r = before \o after
    BY DEF RemoveAt
  <1> HIDE DEF before, after, r
  <1>5. /\ r \in Seq(T) /\ Len(r) = Len(before) + Len(after)
        /\ \A k \in 1..(Len(before) + Len(after)) :
             r[k] = IF k <= Len(before) THEN before[k] ELSE after[k - Len(before)]
    BY <1>2, <1>3, <1>4, ConcatProperties
  <1> HIDE DEF m
  <1>6. Len(r) = m - 1
    BY <1>1, <1>2, <1>3, <1>5
  <1>7. ASSUME NEW k \in 1..(p - 1)
        PROVE  r[k] = q[k]
    <2>1. k \in 1..(Len(before) + Len(after)) /\ k <= Len(before)
      BY <1>1, <1>2, <1>3
    <2>2. QED BY <2>1, <1>2, <1>5
  <1>8. ASSUME NEW k \in p..Len(r)
        PROVE  k + 1 \in (p + 1)..m /\ r[k] = q[k + 1]
    <2> DEFINE j == k - (p - 1)
    <2>1. /\ k \in 1..(Len(before) + Len(after)) /\ ~(k <= Len(before)) /\ k - Len(before) = j
          /\ j \in 1..(m - p) /\ p + j = k + 1 /\ k + 1 \in (p + 1)..m
      BY <1>1, <1>2, <1>3, <1>6
    <2>2. r[k] = after[j]
      BY <2>1, <1>5
    <2> HIDE DEF j
    <2>3. QED BY <2>1, <2>2, <1>3
  <1>9. QED BY <1>5, <1>6, <1>7, <1>8 DEF HasGap, m, r

\* Sequences one after the other
LEMMA FlattenTyped ==
  ASSUME NEW T, NEW n \in Nat, NEW f \in [1..n -> Seq(T)]
  PROVE  FlattenSeq(f) \in Seq(T)
  <1>1. f \in Seq(Seq(T)) /\ Len(f) = n
    OBVIOUS
  <1>2. CASE n = 0
    <2>1. f = <<>>
      BY <1>1, <1>2, EmptySeq
    <2>2. FlattenSeq(f) = f
      BY <1>1, <1>2 DEF FlattenSeq
    <2>3. FlattenSeq(f) = <<>>
      BY <2>1, <2>2, Zenon
    <2>4. QED BY <2>3
  <1>3. CASE n # 0
    <2> DEFINE Flat(g) == g = [i \in 1..n |-> IF i = 1 THEN f[i] ELSE g[i - 1] \o f[i]]
               flatten == CHOOSE g : Flat(g)
    <2>1. FlattenSeq(f) = flatten[n]
      BY <1>1, <1>3 DEF FlattenSeq
    <2>2. \E g : Flat(g)
      <3> DEFINE N == n - 1
                 G == [i \in 1..N |-> [y \in Seq(T) |-> y \o f[i + 1]]]
      <3>1. N \in Nat /\ f[1] \in Seq(T)
        BY <1>3
      <3>2. G \in [1..N -> [Seq(T) -> Seq(T)]]
        <4>1. ASSUME NEW i \in 1..N, NEW y \in Seq(T)
              PROVE  y \o f[i + 1] \in Seq(T)
          <5>1. f[i + 1] \in Seq(T)
            BY <3>1
          <5>2. QED BY <5>1, ConcatProperties
        <4>2. QED BY <4>1
      <3> HIDE DEF N, G
      <3>3. PICK h \in [0..N -> Seq(T)] : Iterates(h, f[1], G, N)
        BY <3>1, <3>2, IterationExists
      <3> DEFINE g == [i \in 1..n |-> h[i - 1]]
      <3>4. ASSUME NEW i \in 1..n
            PROVE  g[i] = IF i = 1 THEN f[i] ELSE g[i - 1] \o f[i]
        <4>1. i - 1 \in 0..N /\ g[i] = h[i - 1]
          BY DEF N
        <4>2. CASE i = 1
          <5>1. h[0] = f[1]
            BY <3>1, <3>3 DEF Iterates
          <5>2. QED BY <4>1, <4>2, <5>1
        <4>3. CASE i # 1
          <5> DEFINE j == i - 1
          <5>1. j \in 1..N /\ j \in 0..N /\ j # 0 /\ j - 1 \in 0..N /\ j \in 1..n /\ j + 1 = i
            BY <4>3 DEF N
          <5> HIDE DEF j
          <5>2. h[j] = G[j][h[j - 1]]
            BY <3>3, <5>1 DEF Iterates
          <5>3. G[j][h[j - 1]] = h[j - 1] \o f[j + 1]
            <6>1. h[j - 1] \in Seq(T)
              BY <5>1
            <6>2. QED BY <5>1, <6>1 DEF G
          <5>4. g[j] = h[j - 1]
            BY <5>1
          <5> HIDE DEF g
          <5>5. QED BY <4>1, <4>3, <5>1, <5>2, <5>3, <5>4 DEF j
        <4>4. QED BY <4>2, <4>3
      <3>5. Flat(g)
        BY <3>4
      <3>6. QED BY <3>5
    <2>3. Flat(flatten)
      BY <2>2
    <2> HIDE DEF flatten
    <2> DEFINE Q == {i \in Nat : i + 1 <= n => flatten[i + 1] \in Seq(T)}
    <2>4. 0 \in Q
      <3>1. flatten[1] = f[1]
        BY <2>3, <1>3
      <3>2. f[1] \in Seq(T)
        BY <1>3
      <3>3. QED BY <3>1, <3>2
    <2>5. ASSUME NEW i \in Nat, i \in Q
          PROVE  i + 1 \in Q
      <3> SUFFICES ASSUME (i + 1) + 1 <= n PROVE flatten[(i + 1) + 1] \in Seq(T)
        OBVIOUS
      <3> DEFINE j == (i + 1) + 1
      <3>1. j \in 1..n /\ j # 1 /\ j - 1 = i + 1 /\ i + 1 <= n
        OBVIOUS
      <3> HIDE DEF j
      <3>2. flatten[j] = flatten[j - 1] \o f[j]
        BY <2>3, <3>1
      <3>3. flatten[i + 1] \in Seq(T)
        BY <2>5, <3>1
      <3>4. f[j] \in Seq(T)
        BY <3>1
      <3>5. flatten[i + 1] \o f[j] \in Seq(T)
        BY <3>3, <3>4, ConcatProperties
      <3>6. QED BY <3>1, <3>2, <3>5 DEF j
    <2> HIDE DEF Q
    <2>6. \A i \in Nat : i \in Q
      BY <2>4, <2>5, InductiveSet
    <2>7. n - 1 \in Q /\ (n - 1) + 1 = n
      BY <1>3, <2>6
    <2>8. flatten[n] \in Seq(T)
      BY <2>7 DEF Q
    <2>9. QED BY <2>1, <2>8
  <1>4. QED BY <1>2, <1>3

-----------------------------------------------------------------------------
(* Forms of instructions *)

Plain ==
  {Reg("dest"), Reg("src1"), Reg("src2"), Comma, <<"(">>, <<")">>,
   <<"%lo">>, <<"%pcrel_lo">>, <<"%hi">>, <<"%pcrel_hi">>}
    \union {NumberIn(range) : range \in {SmallNumber, LongNumber, AnyNumber, Immediate}}
\* A form names a label once or not at all; what for is one of M.
LabelAt(f, k, m) ==
  /\ f \in Seq(Plain \union {Label(m)})
  /\ k \in DOMAIN f /\ f[k] = Label(m)
  /\ \A j \in DOMAIN f : j # k => f[j] \in Plain
IsForm(f, M) == f \in Seq(Plain) \/ \E m \in M : \E k \in DOMAIN f : LabelAt(f, k, m)

LEMMA PlainThen ==
  ASSUME NEW M, NEW a \in Seq(Plain), NEW b, IsForm(b, M)
  PROVE  IsForm(a \o b, M)
  <1>1. CASE b \in Seq(Plain)
    BY <1>1, ConcatProperties DEF IsForm
  <1>2. CASE \E m \in M : \E k \in DOMAIN b : LabelAt(b, k, m)
    <2>1. PICK m \in M, k \in DOMAIN b : LabelAt(b, k, m)
      BY <1>2
    <2> DEFINE T == Plain \union {Label(m)}
               f == a \o b
               n == Len(a)
    <2>2. a \in Seq(T) /\ b \in Seq(T) /\ n \in Nat /\ Len(b) \in Nat
      BY <2>1 DEF LabelAt
    <2>3. /\ f \in Seq(T) /\ Len(f) = n + Len(b)
          /\ \A j \in 1..(n + Len(b)) : f[j] = IF j <= n THEN a[j] ELSE b[j - n]
      <3> HIDE DEF T
      <3>1. QED BY <2>2, ConcatProperties
    <2>4. k \in 1..Len(b) /\ DOMAIN f = 1..Len(f)
      BY <2>2, <2>3
    <2>5. n + k \in DOMAIN f /\ f[n + k] = Label(m)
      <3>1. n + k \in 1..(n + Len(b)) /\ ~(n + k <= n) /\ (n + k) - n = k
        BY <2>2, <2>4
      <3>2. b[k] = Label(m)
        BY <2>1 DEF LabelAt
      <3> HIDE DEF f, n
      <3>3. QED BY <2>3, <2>4, <3>1, <3>2
    <2>6. ASSUME NEW j \in DOMAIN f, j # n + k
          PROVE  f[j] \in Plain
      <3>1. j \in 1..(n + Len(b))
        BY <2>3, <2>4
      <3>2. CASE j <= n
        <4>1. j \in 1..n
          BY <3>1, <3>2
        <4>2. a[j] \in Plain
          BY <4>1
        <4> HIDE DEF f
        <4>3. QED BY <2>3, <3>1, <3>2, <4>2
      <3>3. CASE ~(j <= n)
        <4> HIDE DEF f, n
        <4>1. j - n \in 1..Len(b) /\ j - n # k
          BY <2>2, <2>4, <2>6, <3>1, <3>3
        <4>2. b[j - n] \in Plain
          BY <2>1, <2>2, <4>1 DEF LabelAt
        <4>3. QED BY <2>3, <3>1, <3>3, <4>2
      <3>4. QED BY <3>2, <3>3
    <2> HIDE DEF f
    <2>7. LabelAt(f, n + k, m)
      BY <2>3, <2>5, <2>6 DEF LabelAt
    <2>8. QED BY <2>5, <2>7 DEF IsForm, f
  <1>3. QED BY <1>1, <1>2 DEF IsForm

LEMMA ThenPlain ==
  ASSUME NEW M, NEW b \in Seq(Plain), NEW a, IsForm(a, M)
  PROVE  IsForm(a \o b, M)
  <1>1. CASE a \in Seq(Plain)
    BY <1>1, ConcatProperties DEF IsForm
  <1>2. CASE \E m \in M : \E k \in DOMAIN a : LabelAt(a, k, m)
    <2>1. PICK m \in M, k \in DOMAIN a : LabelAt(a, k, m)
      BY <1>2
    <2> DEFINE T == Plain \union {Label(m)}
               f == a \o b
               n == Len(a)
    <2>2. a \in Seq(T) /\ b \in Seq(T) /\ n \in Nat /\ Len(b) \in Nat
      BY <2>1 DEF LabelAt
    <2>3. /\ f \in Seq(T) /\ Len(f) = n + Len(b)
          /\ \A j \in 1..(n + Len(b)) : f[j] = IF j <= n THEN a[j] ELSE b[j - n]
      <3> HIDE DEF T
      <3>1. QED BY <2>2, ConcatProperties
    <2>4. k \in 1..n /\ DOMAIN f = 1..Len(f)
      BY <2>2, <2>3
    <2>5. k \in DOMAIN f /\ f[k] = Label(m)
      <3>1. k \in 1..(n + Len(b)) /\ k <= n
        BY <2>2, <2>4
      <3>2. a[k] = Label(m)
        BY <2>1 DEF LabelAt
      <3> HIDE DEF f, n
      <3>3. QED BY <2>3, <2>4, <3>1, <3>2
    <2>6. ASSUME NEW j \in DOMAIN f, j # k
          PROVE  f[j] \in Plain
      <3>1. j \in 1..(n + Len(b))
        BY <2>3, <2>4
      <3>2. CASE j <= n
        <4>1. j \in 1..n
          BY <3>1, <3>2
        <4>2. a[j] \in Plain
          BY <2>1, <2>6, <4>1 DEF LabelAt
        <4> HIDE DEF f
        <4>3. QED BY <2>3, <3>1, <3>2, <4>2
      <3>3. CASE ~(j <= n)
        <4> HIDE DEF f, n
        <4>1. j - n \in 1..Len(b)
          BY <2>2, <2>6, <3>1, <3>3
        <4>2. b[j - n] \in Plain
          BY <2>2, <4>1
        <4>3. QED BY <2>3, <3>1, <3>3, <4>2
      <3>4. QED BY <3>2, <3>3
    <2> HIDE DEF f
    <2>7. LabelAt(f, k, m)
      BY <2>3, <2>5, <2>6 DEF LabelAt
    <2>8. QED BY <2>5, <2>7 DEF IsForm, f
  <1>3. QED BY <1>1, <1>2 DEF IsForm

LEMMA MoreForms ==
  ASSUME NEW M, NEW U, M \subseteq U, NEW f, IsForm(f, M)
  PROVE  IsForm(f, U)
  BY DEF IsForm

LEMMA Registers ==
  /\ <<Reg("dest"), Comma>> \in Seq(Plain)
  /\ <<Reg("src1"), Comma>> \in Seq(Plain)
  /\ <<Reg("src2"), Comma>> \in Seq(Plain)
  /\ <<Comma, Reg("dest")>> \in Seq(Plain)
  /\ <<Reg("src2")>> \in Seq(Plain)
  /\ InParentheses(Reg("src1")) \in Seq(Plain)
  /\ <<>> \in Seq(Plain)
  <1>1. {Reg("dest"), Reg("src1"), Reg("src2"), Comma, <<"(">>, <<")">>} \subseteq Plain
    BY DEF Plain
  <1> HIDE DEF Plain
  <1>2. QED BY <1>1 DEF InParentheses

LEMMA LabelForm ==
  ASSUME NEW m
  PROVE  IsForm(<<Label(m)>>, {m}) /\ IsForm(InParentheses(Label(m)), {m})
  <1> DEFINE f == <<Label(m)>>
             g == InParentheses(Label(m))
             T == Plain \union {Label(m)}
  <1>1. <<"(">> \in Plain /\ <<")">> \in Plain
    BY DEF Plain
  <1>2. f \in Seq(T) /\ DOMAIN f = 1..1 /\ f[1] = Label(m)
    OBVIOUS
  <1>3. g \in Seq(T) /\ DOMAIN g = 1..3 /\ g[1] = <<"(">> /\ g[2] = Label(m) /\ g[3] = <<")">>
    BY <1>1 DEF InParentheses
  <1> HIDE DEF f, g
  <1>4. LabelAt(f, 1, m) /\ 1 \in DOMAIN f
    BY <1>2 DEF LabelAt
  <1>5. LabelAt(g, 2, m) /\ 2 \in DOMAIN g
    BY <1>1, <1>3 DEF LabelAt
  <1>6. QED BY <1>4, <1>5 DEF IsForm, f, g

LEMMA ImmediateForms ==
  ASSUME NEW range \in {SmallNumber, LongNumber, AnyNumber, Immediate},
         NEW parts \in SUBSET (LowParts \union HighParts), NEW f \in expectImmediate(range, parts)
  PROVE  IsForm(f, {p[2] : p \in parts})
  <1>1. CASE f = <<NumberIn(range)>>
    <2>1. NumberIn(range) \in Plain
      BY DEF Plain
    <2>2. QED BY <1>1, <2>1 DEF IsForm
  <1>2. ASSUME NEW p \in parts, f = <<<<p[1]>>>> \o InParentheses(Label(p[2]))
        PROVE  IsForm(f, {r[2] : r \in parts})
    <2>1. <<p[1]>> \in Plain
      BY DEF Plain, LowParts, HighParts
    <2>2. <<<<p[1]>>>> \in Seq(Plain)
      BY <2>1
    <2>3. IsForm(InParentheses(Label(p[2])), {p[2]})
      BY LabelForm
    <2>4. IsForm(f, {p[2]})
      BY <1>2, <2>2, <2>3, PlainThen
    <2>5. QED BY <2>4, MoreForms
  <1>3. QED BY <1>1, <1>2 DEF expectImmediate

\* What an instruction may name a label for
FitsIn(op, m) ==
  /\ m \in HighModes => op \in {"LUI", "AUIPC"}
  /\ m \in LowModes => AddsNothing(op)
  /\ m = "LBL" => Named(op) \in Jumps \union Pseudo
Modes == {"LBL", "LO12", "PCREL_LO12", "HI20", "PCREL_HI20"}
ModesOf(op) == {m \in Modes : FitsIn(op, m)}

LEMMA ImmediateModes ==
  ASSUME NEW f
  PROVE  /\ f \in Imm5 => f \in Seq(Plain)
         /\ f \in Imm12 => IsForm(f, {"LO12", "PCREL_LO12"})
         /\ f \in Imm20 => IsForm(f, {"LO12", "PCREL_LO12", "HI20", "PCREL_HI20"})
  <1>1. ASSUME f \in Imm5
        PROVE  f \in Seq(Plain)
    <2>1. IsForm(f, {p[2] : p \in {}})
      BY <1>1, ImmediateForms DEF Imm5
    <2>2. QED BY <2>1 DEF IsForm
  <1>2. ASSUME f \in Imm12
        PROVE  IsForm(f, {"LO12", "PCREL_LO12"})
    <2>1. IsForm(f, {p[2] : p \in LowParts})
      BY <1>2, ImmediateForms DEF Imm12
    <2>2. {p[2] : p \in LowParts} \subseteq {"LO12", "PCREL_LO12"}
      BY DEF LowParts
    <2>3. QED BY <2>1, <2>2, MoreForms
  <1>3. ASSUME f \in Imm20
        PROVE  IsForm(f, {"LO12", "PCREL_LO12", "HI20", "PCREL_HI20"})
    <2>1. IsForm(f, {p[2] : p \in LowParts \union HighParts})
      BY <1>3, ImmediateForms DEF Imm20
    <2>2. {p[2] : p \in LowParts \union HighParts} \subseteq {"LO12", "PCREL_LO12", "HI20", "PCREL_HI20"}
      BY DEF LowParts, HighParts
    <2>3. QED BY <2>1, <2>2, MoreForms
  <1>4. QED BY <1>1, <1>2, <1>3

LEMMA FormatIs ==
  ASSUME NEW op \in Mnemonics
  PROVE  /\ instrOpcodeToFormat(op) = "OP" => op \in Operations
         /\ instrOpcodeToFormat(op) = "OPIMM" => op \in DOMAIN RegisterForm
         /\ instrOpcodeToFormat(op) = "LOAD" => op \in DOMAIN Loads
         /\ instrOpcodeToFormat(op) = "STORE" => op \in DOMAIN Stores
         /\ instrOpcodeToFormat(op) = "BRANCH" => op \in Conditions \union DOMAIN Swapped
         /\ instrOpcodeToFormat(op) = "BRANCH_Z" => op \in DOMAIN WithZero \union DOMAIN ZeroWith
         /\ instrOpcodeToFormat(op) = "LUI" => op \in {"LUI", "AUIPC"}
         /\ instrOpcodeToFormat(op) = "LA" => op \in {"LA", "JAL"}
         /\ instrOpcodeToFormat(op) = "JALR" => op = "JALR"
         /\ instrOpcodeToFormat(op) = "JUMP" => op = "J"
         /\ instrOpcodeToFormat(op) \in {"OP", "OPIMM", "LOAD", "STORE", "BRANCH", "BRANCH_Z", "LUI", "LA", "JALR",
                                         "JUMP", "LI", "SYSTEM"}
  BY DEF instrOpcodeToFormat, Mnemonics

LEMMA LowModesFit ==
  ASSUME NEW op, AddsNothing(op)
  PROVE  {"LO12", "PCREL_LO12"} \subseteq ModesOf(op)
  BY DEF ModesOf, Modes, FitsIn, HighModes, LowModes

LEMMA TargetFits ==
  ASSUME NEW op, Named(op) \in Jumps \union Pseudo
  PROVE  {"LBL"} \subseteq ModesOf(op)
  BY DEF ModesOf, Modes, FitsIn, HighModes, LowModes

LEMMA ImmediatesAdd ==
  /\ \A op \in DOMAIN RegisterForm : op \notin Shifts => AddsNothing(op)
  /\ \A op \in DOMAIN Loads \union DOMAIN Stores \union {"JALR", "LUI", "AUIPC"} : AddsNothing(op)
  <1>1. DOMAIN opInstData =
          {"ADD", "SUB", "SLL", "SLT", "SLTU", "XOR", "SRL", "SRA", "OR", "AND", "MUL", "MULH", "MULHSU",
           "MULHU", "DIV", "DIVU", "REM", "REMU", "ADDI", "SLLI", "SLTI", "SLTIU", "XORI", "SRLI", "SRAI",
           "ORI", "ANDI", "LB", "LH", "LW", "LBU", "LHU", "SB", "SH", "SW", "LUI", "AUIPC", "JAL", "JALR",
           "BEQ", "BNE", "BLT", "BGE", "BLTU", "BGEU", "ECALL", "EBREAK"}
    BY DEF opInstData
  <1>2. /\ opInstData["ADDI"][4] = 0 /\ opInstData["SLTI"][4] = 0 /\ opInstData["SLTIU"][4] = 0
        /\ opInstData["XORI"][4] = 0 /\ opInstData["ORI"][4] = 0 /\ opInstData["ANDI"][4] = 0
        /\ opInstData["LB"][4] = 0 /\ opInstData["LH"][4] = 0 /\ opInstData["LW"][4] = 0
        /\ opInstData["LBU"][4] = 0 /\ opInstData["LHU"][4] = 0
        /\ opInstData["SB"][4] = 0 /\ opInstData["SH"][4] = 0 /\ opInstData["SW"][4] = 0
        /\ opInstData["JALR"][4] = 0 /\ opInstData["LUI"][4] = 0 /\ opInstData["AUIPC"][4] = 0
    BY DEF opInstData
  <1>3. QED BY <1>1, <1>2 DEF AddsNothing, RegisterForm, Shifts, Loads, Stores

LEMMA TargetsNamed ==
  /\ \A op \in DOMAIN Loads \union DOMAIN Stores : Named(op) \in Pseudo
  /\ \A op \in Conditions \union DOMAIN Swapped \union DOMAIN WithZero \union DOMAIN ZeroWith \union {"LA", "JAL", "J"} :
       Named(op) \in Jumps \union Pseudo
  <1>1. ASSUME NEW op \in DOMAIN Loads
        PROVE  Named(op) \in Pseudo
    BY DEF Named, Pseudo, Loads, GlobalLoads
  <1>2. ASSUME NEW op \in DOMAIN Stores
        PROVE  Named(op) \in Pseudo
    BY DEF Named, Pseudo, Loads, Stores, GlobalStores
  <1>3. ASSUME NEW op \in Conditions \union DOMAIN Swapped \union DOMAIN WithZero \union DOMAIN ZeroWith
                            \union {"LA", "JAL", "J"}
        PROVE  Named(op) \in Jumps \union Pseudo
    <2>1. Named(op) = op
      BY DEF Named, Loads, Stores, Conditions, Swapped, WithZero, ZeroWith
    <2>2. QED BY <2>1 DEF Jumps, Pseudo
  <1>4. QED BY <1>1, <1>2, <1>3

\* A register, an immediate and another register in parentheses
LEMMA IndirectForm ==
  ASSUME NEW a \in Seq(Plain), NEW i \in Imm12
  PROVE  IsForm(a \o i \o InParentheses(Reg("src1")), {"LO12", "PCREL_LO12"})
  <1>1. IsForm(i, {"LO12", "PCREL_LO12"})
    BY ImmediateModes
  <1>2. IsForm(a \o i, {"LO12", "PCREL_LO12"})
    BY <1>1, PlainThen
  <1>3. QED BY <1>2, Registers, ThenPlain

LEMMA FormsFit ==
  ASSUME NEW op \in Mnemonics
  PROVE  Forms(op) # {} /\ \A f \in Forms(op) : IsForm(f, ModesOf(op))
  <1> DEFINE dest == <<Reg("dest"), Comma>>
             src1 == <<Reg("src1"), Comma>>
             src2 == <<Reg("src2"), Comma>>
             target == <<Label("LBL")>>
             Indirect(a) == {a \o i \o InParentheses(Reg("src1")) : i \in Imm12}
             format == instrOpcodeToFormat(op)
             ForLow == {"LO12", "PCREL_LO12"}
  <1>0. IsForm(target, {"LBL"}) /\ dest \in Seq(Plain) /\ src1 \in Seq(Plain) /\ src2 \in Seq(Plain)
    BY LabelForm, Registers
  <1>20. Imm12 # {} /\ Imm5 # {} /\ Imm20 # {}
    BY DEF Imm12, Imm5, Imm20, expectImmediate
  <1>21. \A a \in Seq(Plain) : \A f \in Indirect(a) : IsForm(f, ForLow)
    BY IndirectForm
  <1>22. \A a \in Seq(Plain) : IsForm(a, ModesOf(op))
    BY DEF IsForm
  <1>23. \A a, b : a \in Seq(Plain) /\ b \in Seq(Plain) => a \o b \in Seq(Plain)
    BY ConcatProperties
  <1>1. CASE format = "OP"
    <2>1. Forms(op) = {dest \o src1 \o <<Reg("src2")>>}
      BY <1>1 DEF Forms
    <2>2. dest \o src1 \o <<Reg("src2")>> \in Seq(Plain)
      <3>1. dest \o src1 \in Seq(Plain)
        BY <1>0, <1>23
      <3>2. QED BY <3>1, <1>23, Registers
    <2>3. QED BY <2>1, <2>2, <1>22
  <1>2. CASE format = "OPIMM"
    <2>1. Forms(op) = {dest \o src1 \o i : i \in IF op \in Shifts THEN Imm5 ELSE Imm12}
      BY <1>2 DEF Forms
    <2>2. dest \o src1 \in Seq(Plain)
      BY <1>0, <1>23
    <2> HIDE DEF dest, src1
    <2>3. ASSUME NEW i \in IF op \in Shifts THEN Imm5 ELSE Imm12
          PROVE  IsForm(dest \o src1 \o i, ModesOf(op))
      <3>1. CASE op \in Shifts
        <4>1. i \in Seq(Plain)
          BY <3>1, ImmediateModes
        <4>2. QED BY <2>2, <4>1, <1>22, <1>23
      <3>2. CASE op \notin Shifts
        <4>1. IsForm(i, ForLow)
          BY <3>2, ImmediateModes
        <4>2. ForLow \subseteq ModesOf(op)
          <5>1. AddsNothing(op)
            BY <1>2, <3>2, FormatIs, ImmediatesAdd
          <5>2. QED BY <5>1, LowModesFit
        <4>3. IsForm(dest \o src1 \o i, ForLow)
          BY <2>2, <4>1, PlainThen
        <4>4. QED BY <4>2, <4>3, MoreForms
      <3>3. QED BY <3>1, <3>2
    <2>4. QED BY <2>1, <2>3, <1>20
  <1>3. CASE format = "LOAD"
    <2>1. Forms(op) = {dest \o target} \union Indirect(dest)
      BY <1>3 DEF Forms
    <2>2. op \in DOMAIN Loads
      BY <1>3, FormatIs
    <2>3. ForLow \subseteq ModesOf(op) /\ {"LBL"} \subseteq ModesOf(op)
      <3>1. AddsNothing(op) /\ Named(op) \in Jumps \union Pseudo
        BY <2>2, ImmediatesAdd, TargetsNamed
      <3>2. QED BY <3>1, LowModesFit, TargetFits
    <2>4. IsForm(dest \o target, {"LBL"})
      BY <1>0, PlainThen
    <2> HIDE DEF dest, target, Indirect, ForLow
    <2>5. IsForm(dest \o target, ModesOf(op))
      BY <2>3, <2>4, MoreForms
    <2>6. ASSUME NEW f \in Indirect(dest)
          PROVE  IsForm(f, ModesOf(op))
      <3>1. IsForm(f, ForLow)
        BY <1>0, <1>21
      <3>2. QED BY <2>3, <3>1, MoreForms
    <2>7. QED BY <2>1, <2>5, <2>6
  <1>4. CASE format = "STORE"
    <2>1. Forms(op) = {src2 \o target \o <<Comma, Reg("dest")>>} \union Indirect(src2)
      BY <1>4 DEF Forms
    <2>2. op \in DOMAIN Stores
      BY <1>4, FormatIs
    <2>3. ForLow \subseteq ModesOf(op) /\ {"LBL"} \subseteq ModesOf(op)
      <3>1. AddsNothing(op) /\ Named(op) \in Jumps \union Pseudo
        BY <2>2, ImmediatesAdd, TargetsNamed
      <3>2. QED BY <3>1, LowModesFit, TargetFits
    <2>4. IsForm(src2 \o target \o <<Comma, Reg("dest")>>, {"LBL"})
      <3>1. IsForm(src2 \o target, {"LBL"})
        BY <1>0, PlainThen
      <3> HIDE DEF src2, target
      <3>2. QED BY <3>1, Registers, ThenPlain
    <2> HIDE DEF src2, target, Indirect, ForLow
    <2>5. IsForm(src2 \o target \o <<Comma, Reg("dest")>>, ModesOf(op))
      BY <2>3, <2>4, MoreForms
    <2>6. ASSUME NEW f \in Indirect(src2)
          PROVE  IsForm(f, ModesOf(op))
      <3>1. IsForm(f, ForLow)
        BY <1>0, <1>21
      <3>2. QED BY <2>3, <3>1, MoreForms
    <2>7. QED BY <2>1, <2>5, <2>6
  <1>5. CASE format = "LI"
    <2>1. Forms(op) = {dest \o <<NumberIn(AnyNumber)>>}
      BY <1>5 DEF Forms
    <2>2. NumberIn(AnyNumber) \in Plain
      BY DEF Plain
    <2>3. dest \o <<NumberIn(AnyNumber)>> \in Seq(Plain)
      <3>1. <<NumberIn(AnyNumber)>> \in Seq(Plain)
        BY <2>2
      <3>2. QED BY <1>0, <1>23, <3>1
    <2>4. QED BY <2>1, <2>3, <1>22
  <1>6. CASE format = "LUI"
    <2>1. Forms(op) = {dest \o i : i \in Imm20}
      BY <1>6 DEF Forms
    <2>2. {"LO12", "PCREL_LO12", "HI20", "PCREL_HI20"} \subseteq ModesOf(op)
      <3>1. op \in {"LUI", "AUIPC"} /\ AddsNothing(op)
        BY <1>6, FormatIs, ImmediatesAdd
      <3>2. QED BY <3>1 DEF ModesOf, Modes, FitsIn, HighModes, LowModes
    <2> HIDE DEF dest
    <2>3. ASSUME NEW i \in Imm20
          PROVE  IsForm(dest \o i, ModesOf(op))
      <3>1. IsForm(dest \o i, {"LO12", "PCREL_LO12", "HI20", "PCREL_HI20"})
        BY <1>0, ImmediateModes, PlainThen
      <3>2. QED BY <2>2, <3>1, MoreForms
    <2>4. QED BY <2>1, <2>3, <1>20
  <1>7. CASE format = "LA"
    <2>1. Forms(op) = {dest \o target, target}
      BY <1>7 DEF Forms
    <2>2. {"LBL"} \subseteq ModesOf(op)
      BY <1>7, FormatIs, TargetsNamed, TargetFits
    <2>3. IsForm(dest \o target, {"LBL"})
      BY <1>0, PlainThen
    <2>4. IsForm(dest \o target, ModesOf(op)) /\ IsForm(target, ModesOf(op))
      BY <2>2, <2>3, <1>0, MoreForms
    <2>5. QED BY <2>1, <2>4
  <1>8. CASE format = "JALR"
    <2>1. Forms(op) = {dest \o src1 \o i : i \in Imm12} \union Indirect(dest)
      BY <1>8 DEF Forms
    <2>2. ForLow \subseteq ModesOf(op)
      <3>1. AddsNothing(op)
        BY <1>8, FormatIs, ImmediatesAdd
      <3>2. QED BY <3>1, LowModesFit
    <2>3. dest \o src1 \in Seq(Plain)
      BY <1>0, <1>23
    <2> HIDE DEF dest, src1, Indirect, ForLow
    <2>4. ASSUME NEW i \in Imm12
          PROVE  IsForm(dest \o src1 \o i, ModesOf(op))
      <3>1. IsForm(i, ForLow)
        BY ImmediateModes DEF ForLow
      <3>2. IsForm(dest \o src1 \o i, ForLow)
        BY <2>3, <3>1, PlainThen
      <3>3. QED BY <2>2, <3>2, MoreForms
    <2>5. ASSUME NEW f \in Indirect(dest)
          PROVE  IsForm(f, ModesOf(op))
      <3>1. IsForm(f, ForLow)
        BY <1>0, <1>21
      <3>2. QED BY <2>2, <3>1, MoreForms
    <2>6. QED BY <2>1, <2>4, <2>5, <1>20
  <1>9. CASE format = "BRANCH"
    <2>1. Forms(op) = {src1 \o src2 \o target}
      BY <1>9 DEF Forms
    <2>2. {"LBL"} \subseteq ModesOf(op)
      BY <1>9, FormatIs, TargetsNamed, TargetFits
    <2>3. src1 \o src2 \in Seq(Plain)
      BY <1>0, <1>23
    <2> HIDE DEF src1, src2, target
    <2>4. IsForm(src1 \o src2 \o target, {"LBL"})
      BY <2>3, <1>0, PlainThen
    <2>5. QED BY <2>1, <2>2, <2>4, MoreForms
  <1>10. CASE format = "BRANCH_Z"
    <2>1. Forms(op) = {src1 \o target}
      BY <1>10 DEF Forms
    <2>2. {"LBL"} \subseteq ModesOf(op)
      BY <1>10, FormatIs, TargetsNamed, TargetFits
    <2>4. IsForm(src1 \o target, {"LBL"})
      BY <1>0, PlainThen
    <2>5. QED BY <2>1, <2>2, <2>4, MoreForms
  <1>11. CASE format = "JUMP"
    <2>1. Forms(op) = {target}
      BY <1>11 DEF Forms
    <2>2. {"LBL"} \subseteq ModesOf(op)
      BY <1>11, FormatIs, TargetsNamed, TargetFits
    <2>3. QED BY <2>1, <2>2, <1>0, MoreForms
  <1>12. CASE format = "SYSTEM"
    <2>1. Forms(op) = {<<>>}
      BY <1>12 DEF Forms
    <2>2. QED BY <2>1, <1>22, Registers
  <1>13. QED BY <1>1, <1>2, <1>3, <1>4, <1>5, <1>6, <1>7, <1>8, <1>9, <1>10, <1>11, <1>12, FormatIs

-----------------------------------------------------------------------------
(* What a line without errors adds *)

ParserFields ==
  {"object", "curSection", "numErrors", "backLabels", "forwardLabels", "progressive", "failed", "crashed"}
IsParser(p) == ParserFields \subseteq DOMAIN p /\ p.numErrors \in Nat /\ p.crashed \in BOOLEAN
Fine(p) == p.numErrors = 0 /\ ~p.crashed

\* After an error nothing is fine any more.
LEMMA ErrorsStay ==
  ASSUME NEW p, IsParser(p)
  PROVE  /\ IsParser(parserEmitError(p)) /\ ~Fine(parserEmitError(p))
         /\ IsParser(SyntaxError(p)) /\ ~Fine(SyntaxError(p))
  <1>1. IsParser(parserEmitError(p)) /\ parserEmitError(p).numErrors = p.numErrors + 1
    BY DEF IsParser, ParserFields, parserEmitError
  <1>2. IsParser(SyntaxError(p)) /\ SyntaxError(p).numErrors = p.numErrors + 1
    <2> DEFINE r == parserEmitError(p)
    <2>1. SyntaxError(p) = [r EXCEPT !.failed = TRUE]
      BY DEF SyntaxError
    <2>2. IsParser(r) /\ r.numErrors = p.numErrors + 1
      BY <1>1
    <2> HIDE DEF r
    <2>3. QED BY <2>1, <2>2 DEF IsParser, ParserFields
  <1>3. QED BY <1>1, <1>2 DEF IsParser, Fine

LEMMA EndOfLineIs ==
  ASSUME NEW p, IsParser(p), NEW tokens
  PROVE  /\ IsParser(EndOfLine(p, tokens))
         /\ Fine(EndOfLine(p, tokens)) => Fine(p) /\ tokens = <<>> /\ EndOfLine(p, tokens) = p
  BY ErrorsStay DEF EndOfLine

LEMMA EmitIs ==
  ASSUME NEW p, IsParser(p), NEW i
  PROVE  /\ IsParser(Emit(p, i)) /\ (Fine(Emit(p, i)) => Fine(p))
         /\ IsParser(EmitAll(p, i)) /\ (Fine(EmitAll(p, i)) => Fine(p))
  BY DEF IsParser, ParserFields, Fine, Emit, EmitAll

LEMMA AfterReferenceIs ==
  ASSUME NEW p, IsParser(p), NEW t
  PROVE  /\ IsParser(AfterReference(p, t)) /\ (Fine(AfterReference(p, t)) => Fine(p))
         /\ Kind(t) = "ID" => AfterReference(p, t) = p
  <1>1. IsParser(parserGetLocalLabel(p, t[2])) /\ (Fine(parserGetLocalLabel(p, t[2])) => Fine(p))
    BY DEF IsParser, ParserFields, Fine, parserGetLocalLabel
  <1>2. ~Fine([p EXCEPT !.crashed = TRUE, !.failed = TRUE]) /\ IsParser([p EXCEPT !.crashed = TRUE, !.failed = TRUE])
    BY DEF IsParser, ParserFields, Fine
  <1>3. QED BY <1>1, <1>2 DEF AfterReference, Dangles, IsBack

-----------------------------------------------------------------------------
(* Instructions *)

LEMMA AcceptedIs ==
  ASSUME NEW form, NEW tokens, Len(form) \in Nat, Len(tokens) \in Nat
  PROVE  /\ Accepted(form, tokens) \in 0..Len(tokens) /\ Accepted(form, tokens) <= Len(form)
         /\ Accepted(form, tokens) = Len(form) =>
              Len(form) <= Len(tokens) /\ \A k \in 1..Len(form) : Accepts(form[k], tokens[k])
  <1> DEFINE a == Len(form)
             b == Len(tokens)
             n == Min({a, b})
             V == {k - 1 : k \in {j \in 1..n : ~Accepts(form[j], tokens[j])}} \union {n}
  <1>1. n \in {a, b} /\ n <= a /\ n <= b
    <2>1. {a, b} \in SUBSET Nat /\ {a, b} # {}
      OBVIOUS
    <2> HIDE DEF a, b
    <2>2. QED BY <2>1, LeastIsLeast
  <1>2. Accepted(form, tokens) = Min(V)
    BY DEF Accepted
  <1>3. n \in Nat
    BY <1>1
  <1> HIDE DEF n
  <1>4. V \in SUBSET Nat /\ V # {}
    BY <1>3
  <1>5. Min(V) \in V /\ \A y \in V : Min(V) <= y
    <2> HIDE DEF V
    <2>1. QED BY <1>4, LeastIsLeast
  <1>6. n \in V
    OBVIOUS
  <1>7. Min(V) <= n /\ Min(V) \in Nat
    BY <1>4, <1>5, <1>6
  <1> DEFINE z == Min(V)
  <1>8. ASSUME z = a, NEW k \in 1..a
        PROVE  Accepts(form[k], tokens[k])
    <2>1. n = a
      BY <1>1, <1>3, <1>7, <1>8
    <2>2. ~Accepts(form[k], tokens[k]) => k - 1 \in V
      BY <2>1
    <2>3. ~(k - 1 \in V)
      <3>1. \A y \in V : a <= y
        BY <1>5, <1>8
      <3>2. ~(a <= k - 1)
        BY <1>8
      <3>3. QED BY <3>1, <3>2
    <2>4. QED BY <2>2, <2>3
  <1> HIDE DEF z
  <1>9. z \in Nat /\ z <= n /\ (z = a => a <= b) /\ z <= a /\ z <= b
    BY <1>1, <1>3, <1>7 DEF z
  <1>10. QED BY <1>2, <1>8, <1>9 DEF z

LEMMA PlainRefuses ==
  ASSUME NEW slot \in Plain, NEW t, Accepts(slot, t)
  PROVE  slot[1] # "LABEL" /\ Kind(t) # "LOCAL_REF"
  <1>1. slot[1] \in {"REGISTER", "NUMBER", ",", "(", ")", "%lo", "%pcrel_lo", "%hi", "%pcrel_hi"}
    <2>1. CASE \E range : slot = NumberIn(range)
      BY <2>1 DEF NumberIn
    <2>2. CASE slot \in {Reg("dest"), Reg("src1"), Reg("src2"), Comma, <<"(">>, <<")">>,
                        <<"%lo">>, <<"%pcrel_lo">>, <<"%hi">>, <<"%pcrel_hi">>}
      <3>1. ASSUME NEW f \in {"dest", "src1", "src2"}, slot = <<"REGISTER", f>>
            PROVE  slot[1] = "REGISTER"
        BY <3>1
      <3>2. ASSUME NEW c \in {",", "(", ")", "%lo", "%pcrel_lo", "%hi", "%pcrel_hi"}, slot = <<c>>
            PROVE  slot[1] = c
        BY <3>2
      <3>3. CASE \E c \in {",", "(", ")", "%lo", "%pcrel_lo", "%hi", "%pcrel_hi"} : slot = <<c>>
        BY <3>2, <3>3
      <3>4. QED BY <2>2, <3>1, <3>3 DEF Reg, Comma
    <2>3. QED BY <2>1, <2>2 DEF Plain
  <1>2. slot[1] = "REGISTER" => Kind(t) = "REGISTER"
    BY DEF Accepts
  <1>3. slot[1] = "NUMBER" => Kind(t) = "NUMBER"
    BY DEF Accepts
  <1>4. slot[1] \notin {"REGISTER", "NUMBER", "LABEL"} => Kind(t) = slot[1]
    BY DEF Accepts
  <1>5. QED BY <1>1, <1>2, <1>3, <1>4

\* The form an instruction is held to is one of its opcode.
ChosenForm(op, tokens) ==
  CHOOSE f \in Forms(op) : \A g \in Forms(op) : Accepted(g, tokens) <= Accepted(f, tokens)

LEMMA FormLength ==
  ASSUME NEW M, NEW f, IsForm(f, M)
  PROVE  Len(f) \in Nat /\ DOMAIN f = 1..Len(f) /\ SubSeq(f, 1, Len(f)) = f
  <1>1. \E T : f \in Seq(T)
    BY DEF IsForm, LabelAt
  <1>2. QED BY <1>1

LEMMA FormIsChosen ==
  ASSUME NEW op \in Mnemonics, NEW tokens, Len(tokens) \in Nat
  PROVE  ChosenForm(op, tokens) \in Forms(op)
  <1> DEFINE V == {Accepted(f, tokens) : f \in Forms(op)}
  <1>1. ASSUME NEW f \in Forms(op)
        PROVE  Accepted(f, tokens) \in 0..Len(tokens)
    <2>1. Len(f) \in Nat
      BY FormsFit, FormLength
    <2>2. QED BY <2>1, AcceptedIs
  <1>2. V \in SUBSET (0..Len(tokens)) /\ V # {}
    BY <1>1, FormsFit
  <1>3. Max(V) \in V /\ \A y \in V : y <= Max(V)
    <2> HIDE DEF V
    <2>1. QED BY <1>2, GreatestOf
  <1>4. PICK f \in Forms(op) : Accepted(f, tokens) = Max(V)
    BY <1>3
  <1>5. \A g \in Forms(op) : Accepted(g, tokens) <= Accepted(f, tokens)
    BY <1>3, <1>4
  <1>6. QED BY <1>5 DEF ChosenForm

\* The instruction of a line, and the reference in it
InstructionAdded(p, q, tokens) ==
  \E instr :
    /\ OfFile(instr)
    /\ \/ /\ \A j \in DOMAIN tokens : Kind(tokens[j]) # "LOCAL_REF"
          /\ q = Emit(p, Code(instr, line))
       \/ \E a \in DOMAIN tokens :
            /\ Kind(tokens[a]) = "LOCAL_REF"
            /\ \A j \in DOMAIN tokens : j # a => Kind(tokens[j]) # "LOCAL_REF"
            /\ Fine(AfterReference(p, tokens[a]))
            /\ instr.label = LabelOf(AfterReference(p, tokens[a]), tokens[a])
            /\ q = Emit(AfterReference(p, tokens[a]), Code(instr, line))

\* How expectInstruction ends when it has made an instruction, or what came instead
InstructionEnd(q, n, form, instr, tokens) ==
  CASE q.crashed -> q
    [] ~q.crashed /\ n < Len(form) -> SyntaxError(q)
    [] ~q.crashed /\ n = Len(form) -> EndOfLine(Emit(q, Code(instr, line)), SubSeq(tokens, n + 1, Len(tokens)))

LEMMA InstructionEnds ==
  ASSUME NEW q, IsParser(q), NEW form, NEW n \in Int, Len(form) \in Nat, n <= Len(form), NEW instr,
         NEW tokens, NEW r, r = InstructionEnd(q, n, form, instr, tokens)
  PROVE  /\ IsParser(r) /\ (Fine(r) => Fine(q))
         /\ Fine(r) => n = Len(form) /\ r = Emit(q, Code(instr, line)) /\ SubSeq(tokens, n + 1, Len(tokens)) = <<>>
  <1>1. CASE q.crashed
    <2>1. r = q
      BY <1>1 DEF InstructionEnd
    <2>2. QED BY <1>1, <2>1 DEF Fine
  <1>2. CASE ~q.crashed /\ n < Len(form)
    <2>1. r = SyntaxError(q)
      BY <1>2 DEF InstructionEnd
    <2>2. QED BY <2>1, ErrorsStay
  <1>3. CASE ~q.crashed /\ n = Len(form)
    <2> DEFINE e == Emit(q, Code(instr, line))
               rest == SubSeq(tokens, n + 1, Len(tokens))
    <2>1. r = EndOfLine(e, rest)
      BY <1>3 DEF InstructionEnd
    <2>2. IsParser(e) /\ (Fine(e) => Fine(q))
      BY EmitIs
    <2> HIDE DEF e, rest
    <2>3. IsParser(r) /\ (Fine(r) => Fine(e) /\ rest = <<>> /\ r = e)
      BY <2>1, <2>2, EndOfLineIs
    <2>4. QED BY <1>3, <2>2, <2>3 DEF e, rest
  <1>4. n < Len(form) \/ n = Len(form)
    OBVIOUS
  <1>5. QED BY <1>1, <1>2, <1>3, <1>4 DEF IsParser

LEMMA NothingLeft ==
  ASSUME NEW T, NEW q \in Seq(T), NEW n \in Nat, n <= Len(q), SubSeq(q, n + 1, Len(q)) = <<>>
  PROVE  Len(q) = n
  <1> DEFINE m == Len(q)
             r == SubSeq(q, n + 1, m)
  <1>1. m \in Nat
    OBVIOUS
  <1>2. ASSUME n < m
        PROVE  FALSE
    <2>1. Len(r) = m - n
      BY <1>1, <1>2
    <2> HIDE DEF r, m
    <2>2. r = <<>>
      BY DEF r, m
    <2>3. Len(r) = 0
      BY <2>2
    <2>4. QED BY <1>1, <1>2, <2>1, <2>3
  <1>3. QED BY <1>1, <1>2

\* The instruction op that names the label l in the mode m
Naming(op, d, s1, s2, m, l) ==
  [WithLabel(Instr(op, d, s1, s2), m, l) EXCEPT !.opcode = IF m = "LBL" THEN Named(op) ELSE op]

LEMMA NamingFits ==
  ASSUME NEW op \in Mnemonics, NEW d, NEW s1, NEW s2, NEW m \in ModesOf(op), NEW l
  PROVE  OfFile(Naming(op, d, s1, s2, m, l)) /\ Naming(op, d, s1, s2, m, l).label = l
  <1> DEFINE i == Naming(op, d, s1, s2, m, l)
  <1>1. /\ DOMAIN i = {"opcode", "dest", "src1", "src2", "immMode", "constant", "label"}
        /\ i.immMode = m /\ i.label = l /\ i.opcode = IF m = "LBL" THEN Named(op) ELSE op
    BY DEF Naming, WithLabel, Instr
  <1> HIDE DEF i
  <1>2. m \in Modes /\ FitsIn(op, m)
    BY DEF ModesOf
  <1>3. OfFile(i)
    BY <1>1, <1>2 DEF OfFile, TakesWhatFits, FitsIn, Modes, HighModes, LowModes
  <1>4. QED BY <1>1, <1>3 DEF i

LEMMA ConstantFits ==
  ASSUME NEW op, NEW d, NEW s1, NEW s2, NEW c
  PROVE  OfFile(WithConstant(Instr(op, d, s1, s2), c))
  <1> DEFINE j == WithConstant(Instr(op, d, s1, s2), c)
  <1>1. /\ DOMAIN j = {"opcode", "dest", "src1", "src2", "immMode", "constant", "label"}
        /\ j.immMode = "CONST"
    BY DEF WithConstant, Instr
  <1> HIDE DEF j
  <1>2. QED BY <1>1 DEF OfFile, TakesWhatFits, HighModes, LowModes, j

LEMMA InstructionLine ==
  ASSUME NEW p, IsParser(p), NEW op \in Mnemonics, NEW T, NEW tokens \in Seq(T), NEW r,
         r = expectInstruction(p, op, tokens)
  PROVE  IsParser(r) /\ (Fine(r) => Fine(p) /\ InstructionAdded(p, r, tokens))
  <1> DEFINE form == ChosenForm(op, tokens)
             n    == Accepted(form, tokens)
             a    == SelectInSeq(SubSeq(form, 1, n), LAMBDA slot : slot[1] = "LABEL")
             q    == IF a = 0 THEN p ELSE AfterReference(p, tokens[a])
             mode == form[a][3]
             registers == Instr(op, Field(form, tokens, "dest", IF op \in {"LA", "JAL"} THEN 1 ELSE 0),
                                Field(form, tokens, "src1", 0), Field(form, tokens, "src2", 0))
             instr == IF a = 0 THEN WithConstant(registers, Field(form, tokens, "constant", 0))
                      ELSE [WithLabel(registers, mode, LabelOf(q, tokens[a]))
                              EXCEPT !.opcode = IF mode = "LBL" THEN Named(op) ELSE op]
  <1>1. r = InstructionEnd(q, n, form, instr, tokens)
    BY DEF expectInstruction, ChosenForm, InstructionEnd
  <1>2. Len(tokens) \in Nat /\ DOMAIN tokens = 1..Len(tokens)
    OBVIOUS
  <1> HIDE DEF form
  <1>3. form \in Forms(op) /\ IsForm(form, ModesOf(op))
    BY <1>2, FormIsChosen, FormsFit DEF form
  <1>4. Len(form) \in Nat /\ DOMAIN form = 1..Len(form) /\ SubSeq(form, 1, Len(form)) = form
    BY <1>3, FormLength
  <1> HIDE DEF n
  <1>5. /\ n \in 0..Len(tokens) /\ n <= Len(form)
        /\ n = Len(form) => Len(form) <= Len(tokens) /\ \A k \in 1..Len(form) : Accepts(form[k], tokens[k])
    BY <1>2, <1>4, AcceptedIs DEF n
  <1> HIDE DEF a, q, instr
  <1>6. IsParser(q) /\ (Fine(q) => Fine(p))
    BY AfterReferenceIs DEF q
  <1>7. /\ IsParser(r) /\ (Fine(r) => Fine(q))
        /\ Fine(r) => n = Len(form) /\ r = Emit(q, Code(instr, line)) /\ SubSeq(tokens, n + 1, Len(tokens)) = <<>>
    <2> HIDE DEF registers
    <2>1. n \in Int
      <3>1. n \in 0..Len(tokens)
        BY <1>5, Zenon
      <3> HIDE DEF mode
      <3>2. QED BY <3>1
    <2>3. IsParser(q) /\ n <= Len(form) /\ Len(form) \in Nat
      BY <1>4, <1>5, <1>6, Zenon
    <2>2. QED BY <2>1, <2>3, <1>1, InstructionEnds
  <1>8. ASSUME Fine(r)
        PROVE  InstructionAdded(p, r, tokens)
    <2>1. n = Len(form) /\ SubSeq(tokens, n + 1, Len(tokens)) = <<>> /\ r = Emit(q, Code(instr, line)) /\ Fine(q)
      BY <1>7, <1>8
    <2>2. Len(tokens) = n
      BY <2>1, <1>5, NothingLeft
    <2>3. DOMAIN tokens = 1..Len(form) /\ \A k \in 1..Len(form) : Accepts(form[k], tokens[k])
      BY <1>2, <1>5, <2>1, <2>2
    <2> DEFINE V == {i \in 1..Len(form) : form[i][1] = "LABEL"}
    <2>4. a = IF V # {} THEN Min(V) ELSE 0
      BY <2>1, <1>4 DEF a, SelectInSeq
    <2>5. CASE form \in Seq(Plain)
      <3>1. \A k \in 1..Len(form) : form[k] \in Plain
        BY <2>5
      <3>2. \A k \in 1..Len(form) : form[k][1] # "LABEL" /\ Kind(tokens[k]) # "LOCAL_REF"
        BY <3>1, <2>3, PlainRefuses
      <3>3. a = 0
        BY <3>2, <2>4
      <3>4. q = p /\ OfFile(instr)
        BY <3>3, ConstantFits DEF q, instr
      <3>5. QED BY <3>2, <3>4, <2>1, <2>3 DEF InstructionAdded
    <2>6. ASSUME NEW m \in ModesOf(op), NEW k \in DOMAIN form, LabelAt(form, k, m)
          PROVE  InstructionAdded(p, r, tokens)
      <3>1. form[k] = Label(m) /\ \A j \in DOMAIN form : j # k => form[j] \in Plain
        BY <2>6 DEF LabelAt
      <3>2. form[k][1] = "LABEL" /\ form[k][3] = m
        BY <3>1 DEF Label
      <3>3. \A j \in 1..Len(form) : j # k => form[j][1] # "LABEL" /\ Kind(tokens[j]) # "LOCAL_REF"
        BY <3>1, <1>4, <2>3, PlainRefuses
      <3>4. k \in 1..Len(form) /\ k # 0
        BY <1>4
      <3>5. V = {k}
        BY <3>2, <3>3, <3>4
      <3>6. Min({k}) = k
        BY <3>4 DEF Min
      <3>7. a = k
        BY <2>4, <3>5, <3>6
      <3>8. q = AfterReference(p, tokens[k])
        BY <3>4, <3>7 DEF q
      <3>9. OfFile(instr) /\ instr.label = LabelOf(q, tokens[k])
        <4>1. instr = [WithLabel(registers, m, LabelOf(q, tokens[k])) EXCEPT !.opcode = IF m = "LBL" THEN Named(op) ELSE op]
          BY <3>2, <3>4, <3>7 DEF instr
        <4> DEFINE d == Field(form, tokens, "dest", IF op \in {"LA", "JAL"} THEN 1 ELSE 0)
                   s1 == Field(form, tokens, "src1", 0)
                   s2 == Field(form, tokens, "src2", 0)
                   l == LabelOf(q, tokens[k])
        <4>2. registers = Instr(op, d, s1, s2)
          OBVIOUS
        <4> HIDE DEF registers, d, s1, s2, l
        <4>3. instr = Naming(op, d, s1, s2, m, l)
          BY <4>1, <4>2 DEF l, Naming
        <4>4. OfFile(instr) /\ instr.label = l
          BY <4>3, NamingFits
        <4>5. QED BY <4>4 DEF l
      <3>10. Kind(tokens[k]) \in {"ID", "LOCAL_REF"}
        <4>1. Accepts(form[k], tokens[k])
          BY <2>3, <3>4
        <4>2. QED BY <4>1, <3>2 DEF Accepts
      <3>11. CASE Kind(tokens[k]) = "ID"
        <4>1. q = p
          BY <3>8, <3>11, AfterReferenceIs
        <4>2. \A j \in DOMAIN tokens : Kind(tokens[j]) # "LOCAL_REF"
          BY <2>3, <3>3, <3>11
        <4>3. QED BY <2>1, <3>9, <4>1, <4>2 DEF InstructionAdded
      <3>12. CASE Kind(tokens[k]) = "LOCAL_REF"
        <4>1. k \in DOMAIN tokens /\ \A j \in DOMAIN tokens : j # k => Kind(tokens[j]) # "LOCAL_REF"
          BY <2>3, <3>3, <3>4
        <4>2. QED BY <2>1, <3>8, <3>9, <3>12, <4>1 DEF InstructionAdded
      <3>13. QED BY <3>10, <3>11, <3>12
    <2>7. QED BY <1>3, <2>5, <2>6 DEF IsForm
  <1>9. QED BY <1>6, <1>7, <1>8

-----------------------------------------------------------------------------
(* Objects that grow *)

IsTyped(o) == DOMAIN o = Sections /\ \A s \in Sections : IsSeq(o[s])
Typed(p) ==
  /\ IsParser(p)
  /\ p.curSection \in Sections
  /\ IsTyped(p.object)
  /\ IsSeq(p.backLabels) /\ IsSeq(p.forwardLabels)
  /\ p.progressive \in Nat

\* The items of o are items of r, in the same places.
Kept(o, r) == \A s \in Sections : \A i \in DOMAIN o[s] : i \in DOMAIN r[s] /\ r[s][i] = o[s][i]
OnlyObject(p, q) ==
  /\ q.backLabels = p.backLabels /\ q.forwardLabels = p.forwardLabels
  /\ q.progressive = p.progressive /\ q.curSection = p.curSection

LEMMA EmitAllAdds ==
  ASSUME NEW p, Typed(p), NEW T, NEW items \in Seq(T), NEW r, r = EmitAll(p, items)
  PROVE  /\ Typed(r) /\ OnlyObject(p, r) /\ Kept(p.object, r.object)
         /\ \A s \in Sections : \A i \in DOMAIN r.object[s] \ DOMAIN p.object[s] :
              s = p.curSection /\ \E j \in DOMAIN items : r.object[s][i] = items[j]
  <1> DEFINE c == p.curSection
             o == p.object
             a == o[c]
             b == a \o items
             U == Range(a) \union T
  <1>1. c \in Sections /\ IsTyped(o) /\ a \in Seq(Range(a))
    BY DEF Typed, IsTyped, IsSeq
  <1>2. r.object = [o EXCEPT ![c] = b] /\ OnlyObject(p, r) /\ IsParser(r)
    <2>1. r = [p EXCEPT !.object = [p.object EXCEPT ![c] = p.object[c] \o items]]
      BY DEF EmitAll
    <2> DEFINE u == [p.object EXCEPT ![c] = p.object[c] \o items]
    <2>2. u = [o EXCEPT ![c] = b]
      OBVIOUS
    <2> HIDE DEF u
    <2>3. r = [p EXCEPT !.object = u] /\ ParserFields \subseteq DOMAIN p
      BY <2>1 DEF u, Typed, IsParser
    <2>4. r.object = u /\ OnlyObject(p, r) /\ r.numErrors = p.numErrors /\ r.crashed = p.crashed /\ DOMAIN r = DOMAIN p
      BY <2>3 DEF ParserFields, OnlyObject
    <2>5. QED BY <2>2, <2>4 DEF Typed, IsParser
  <1> HIDE DEF a
  <1>3. /\ a \in Seq(U) /\ items \in Seq(U)
        /\ Len(a) \in Nat /\ Len(items) \in Nat /\ DOMAIN a = 1..Len(a) /\ DOMAIN items = 1..Len(items)
    BY <1>1
  <1>4. /\ b \in Seq(U) /\ Len(b) = Len(a) + Len(items)
        /\ \A k \in 1..(Len(a) + Len(items)) : b[k] = IF k <= Len(a) THEN a[k] ELSE items[k - Len(a)]
    <2> HIDE DEF U
    <2>1. QED BY <1>3, ConcatProperties
  <1>5. b \in Seq(Range(b)) /\ DOMAIN b = 1..Len(b)
    BY <1>4, SequenceOfItsElements
  <1> HIDE DEF b, U
  <1>6. ASSUME NEW k \in DOMAIN a
        PROVE  k \in DOMAIN b /\ b[k] = a[k]
    <2>1. k \in 1..(Len(a) + Len(items)) /\ k <= Len(a)
      BY <1>3
    <2>2. QED BY <2>1, <1>4, <1>5
  <1>7. ASSUME NEW k \in DOMAIN b, k \notin DOMAIN a
        PROVE  \E j \in DOMAIN items : b[k] = items[j]
    <2>1. k \in 1..(Len(a) + Len(items))
      BY <1>4, <1>5
    <2>2. ~(k <= Len(a)) /\ k - Len(a) \in DOMAIN items
      BY <2>1, <1>3, <1>7
    <2>3. QED BY <2>1, <2>2, <1>4
  <1>8. DOMAIN r.object = Sections /\ r.object[c] = b /\ \A s \in Sections : s # c => r.object[s] = o[s]
    BY <1>1, <1>2 DEF IsTyped
  <1> HIDE DEF c, o
  <1>9. Kept(o, r.object)
    BY <1>6, <1>8 DEF Kept, a
  <1>10. ASSUME NEW s \in Sections, NEW i \in DOMAIN r.object[s] \ DOMAIN o[s]
         PROVE  s = c /\ \E j \in DOMAIN items : r.object[s][i] = items[j]
    BY <1>7, <1>8 DEF a
  <1>11. IsTyped(r.object)
    BY <1>1, <1>5, <1>8 DEF IsTyped, IsSeq
  <1>12. Typed(r)
    BY <1>2, <1>11 DEF Typed, OnlyObject
  <1>13. QED BY <1>2, <1>9, <1>10, <1>12 DEF c, o

\* The place of one more item of a section
Next1(o, s) == Len(o[s]) + 1
OneMoreItem(p, r, i) ==
  /\ Typed(r) /\ OnlyObject(p, r) /\ Kept(p.object, r.object)
  /\ Next1(p.object, p.curSection) \in DOMAIN r.object[p.curSection]
  /\ Next1(p.object, p.curSection) \notin DOMAIN p.object[p.curSection]
  /\ r.object[p.curSection][Next1(p.object, p.curSection)] = i
  /\ \A s \in Sections : \A k \in DOMAIN r.object[s] \ DOMAIN p.object[s] :
       s = p.curSection /\ k = Next1(p.object, p.curSection)

LEMMA EmitAdds ==
  ASSUME NEW p, Typed(p), NEW i, NEW r, r = Emit(p, i)
  PROVE  OneMoreItem(p, r, i)
  <1> DEFINE c == p.curSection
             o == p.object
             a == o[c]
             b == Append(a, i)
             U == Range(a) \union {i}
  <1>1. c \in Sections /\ IsTyped(o) /\ a \in Seq(Range(a))
    BY DEF Typed, IsTyped, IsSeq
  <1>2. r.object = [o EXCEPT ![c] = b] /\ OnlyObject(p, r) /\ IsParser(r)
    BY DEF Typed, IsParser, ParserFields, Emit, objSecAppend, OnlyObject
  <1> HIDE DEF a
  <1>3. a \in Seq(U) /\ Len(a) \in Nat /\ DOMAIN a = 1..Len(a)
    BY <1>1
  <1>4. /\ b \in Seq(U) /\ Len(b) = Len(a) + 1 /\ b[Len(a) + 1] = i
        /\ \A k \in 1..Len(a) : b[k] = a[k]
    BY <1>3
  <1>5. b \in Seq(Range(b)) /\ DOMAIN b = 1..Len(b)
    BY <1>4, SequenceOfItsElements
  <1> HIDE DEF b, U
  <1>6. ASSUME NEW k \in DOMAIN a
        PROVE  k \in DOMAIN b /\ b[k] = a[k]
    BY <1>3, <1>4, <1>5
  <1>7. ASSUME NEW k \in DOMAIN b, k \notin DOMAIN a
        PROVE  k = Len(a) + 1
    BY <1>3, <1>4, <1>5, <1>7
  <1>8. DOMAIN r.object = Sections /\ r.object[c] = b /\ \A s \in Sections : s # c => r.object[s] = o[s]
    BY <1>1, <1>2 DEF IsTyped
  <1>9. Len(a) + 1 \in DOMAIN b /\ Len(a) + 1 \notin DOMAIN a
    BY <1>3, <1>4, <1>5
  <1> HIDE DEF c, o
  <1>10. Kept(o, r.object)
    BY <1>6, <1>8 DEF Kept, a
  <1>11. ASSUME NEW s \in Sections, NEW k \in DOMAIN r.object[s] \ DOMAIN o[s]
         PROVE  s = c /\ k = Len(a) + 1
    BY <1>7, <1>8 DEF a
  <1>12. IsTyped(r.object)
    BY <1>1, <1>5, <1>8 DEF IsTyped, IsSeq
  <1>13. Typed(r)
    BY <1>2, <1>12 DEF Typed, OnlyObject
  <1>14. Next1(o, c) = Len(a) + 1
    BY DEF Next1, a
  <1> HIDE DEF Next1
  <1>15. QED BY <1>2, <1>4, <1>8, <1>9, <1>10, <1>11, <1>13, <1>14 DEF OneMoreItem, c, o, a

-----------------------------------------------------------------------------
(* Data *)

\* Items other than instructions and labels
PlainItem(s, i) ==
  /\ WellFormedItem(s, i) /\ i.word = <<>> /\ i.class # "INSTR"
  /\ i.label = NoLabel /\ i.line = line
AddsPlain(p, r) ==
  /\ Typed(r) /\ OnlyObject(p, r) /\ Kept(p.object, r.object)
  /\ \A s \in Sections : \A i \in DOMAIN r.object[s] \ DOMAIN p.object[s] : PlainItem(s, r.object[s][i])

LEMMA OnePlain ==
  ASSUME NEW p, Typed(p), NEW i, PlainItem(p.curSection, i)
  PROVE  AddsPlain(p, Emit(p, i))
  <1> DEFINE r == Emit(p, i)
  <1>1. OneMoreItem(p, r, i)
    BY EmitAdds
  <1> HIDE DEF r
  <1>2. AddsPlain(p, r)
    BY <1>1 DEF OneMoreItem, AddsPlain
  <1>3. QED BY <1>2 DEF r

LEMMA ManyPlain ==
  ASSUME NEW p, Typed(p), NEW T, NEW items \in Seq(T), \A i \in T : PlainItem(p.curSection, i)
  PROVE  AddsPlain(p, EmitAll(p, items))
  <1> DEFINE r == EmitAll(p, items)
  <1>1. /\ Typed(r) /\ OnlyObject(p, r) /\ Kept(p.object, r.object)
        /\ \A s \in Sections : \A i \in DOMAIN r.object[s] \ DOMAIN p.object[s] :
             s = p.curSection /\ \E j \in DOMAIN items : r.object[s][i] = items[j]
    BY EmitAllAdds
  <1>2. \A j \in DOMAIN items : items[j] \in T
    OBVIOUS
  <1> HIDE DEF r
  <1>3. AddsPlain(p, r)
    BY <1>1, <1>2 DEF AddsPlain
  <1>4. QED BY <1>3 DEF r

ItemFields == {"class", "label", "address", "size", "instr", "modulo", "nopFill", "word", "offset"}

LEMMA DataIsPlain ==
  ASSUME NEW s, NEW bytes, Len(bytes) \in Nat
  PROVE  PlainItem(s, Data(bytes, line))
  <1> DEFINE i == Data(bytes, line)
  <1>1. /\ ItemFields \subseteq DOMAIN i
        /\ i.class = "DATA" /\ i.size = Len(bytes) /\ i.modulo = 1 /\ i.nopFill = FALSE
        /\ i.word = <<>> /\ i.label = NoLabel /\ i.line = line
    BY DEF Data, Item, ItemFields
  <1> HIDE DEF i
  <1>2. PlainItem(s, i)
    BY <1>1 DEF PlainItem, WellFormedItem, ItemFields
  <1>3. QED BY <1>2 DEF i

LEMMA SpaceIsPlain ==
  ASSUME NEW s, NEW n \in Nat
  PROVE  PlainItem(s, Space(n, line))
  <1> DEFINE i == Space(n, line)
  <1>1. /\ ItemFields \subseteq DOMAIN i
        /\ i.class = "DATA" /\ i.size = n /\ i.modulo = 1 /\ i.nopFill = FALSE
        /\ i.word = <<>> /\ i.label = NoLabel /\ i.line = line
    BY DEF Space, Item, ItemFields
  <1> HIDE DEF i
  <1>2. PlainItem(s, i)
    BY <1>1 DEF PlainItem, WellFormedItem, ItemFields
  <1>3. QED BY <1>2 DEF i

LEMMA AlignmentIsPlain ==
  ASSUME NEW s, NEW m \in Nat \ {0}, NEW fill \in BOOLEAN, fill => s = "text", NEW b
  PROVE  PlainItem(s, Alignment(m, fill, b, line))
  <1> DEFINE i == Alignment(m, fill, b, line)
  <1>1. /\ ItemFields \subseteq DOMAIN i
        /\ i.class = "ALIGN" /\ i.size = 0 /\ i.modulo = m /\ i.nopFill = fill
        /\ i.word = <<>> /\ i.label = NoLabel /\ i.line = line
    BY DEF Alignment, Item, ItemFields
  <1> HIDE DEF i
  <1>2. PlainItem(s, i)
    BY <1>1 DEF PlainItem, WellFormedItem, ItemFields
  <1>3. QED BY <1>2 DEF i

\* What a line of data does to the parser
DataAdded(p, r) == IsParser(r) /\ (Fine(r) => Fine(p) /\ (Typed(p) => AddsPlain(p, r)))

LEMMA ErrorAdds ==
  ASSUME NEW p, IsParser(p)
  PROVE  DataAdded(p, SyntaxError(p))
  BY ErrorsStay DEF DataAdded

LEMMA ItemAdds ==
  ASSUME NEW p, IsParser(p), NEW i, PlainItem(p.curSection, i), NEW tokens
  PROVE  DataAdded(p, EndOfLine(Emit(p, i), tokens))
  <1> DEFINE e == Emit(p, i)
             r == EndOfLine(e, tokens)
  <1>1. IsParser(e) /\ (Fine(e) => Fine(p)) /\ (Typed(p) => AddsPlain(p, e))
    BY EmitIs, OnePlain
  <1> HIDE DEF e
  <1>2. IsParser(r) /\ (Fine(r) => Fine(e) /\ r = e)
    BY <1>1, EndOfLineIs
  <1> HIDE DEF r
  <1>3. DataAdded(p, r)
    BY <1>1, <1>2 DEF DataAdded
  <1>4. QED BY <1>3 DEF r, e

LEMMA SpaceLine ==
  ASSUME NEW p, IsParser(p), NEW tokens, IsLine(tokens)
  PROVE  DataAdded(p, expectSpace(p, tokens))
  <1>1. CASE Starts(tokens, "NUMBER")
    <2> DEFINE n == Wrap(Head(tokens)[2])
    <2>1. Head(tokens) \in Range(tokens)
      BY <1>1 DEF IsLine, Starts, Range
    <2>2. Head(tokens)[2] \in Int
      BY <1>1, <2>1 DEF IsLine, IsToken, Starts
    <2>3. n \in Nat
      BY <2>2, WrapProperties, Constants1
    <2> HIDE DEF n
    <2>4. PlainItem(p.curSection, Space(n, line))
      BY <2>3, SpaceIsPlain
    <2>5. expectSpace(p, tokens) = EndOfLine(Emit(p, Space(n, line)), Tail(tokens))
      BY <1>1 DEF expectSpace, n
    <2>6. QED BY <2>4, <2>5, ItemAdds
  <1>2. CASE ~Starts(tokens, "NUMBER")
    BY <1>2, ErrorAdds DEF expectSpace
  <1>3. QED BY <1>1, <1>2

LEMMA AlignLine ==
  ASSUME NEW p, IsParser(p), NEW tokens, IsLine(tokens), NEW directive
  PROVE  DataAdded(p, expectAlign(p, directive, tokens))
  <1> DEFINE amount == Head(tokens)[2]
             modulo == IF directive = ".align" THEN 2 ^ amount ELSE amount
             wrong  == amount <= 0 \/ (directive = ".align" /\ amount >= WordBits)
             fill   == p.curSection = "text"
             b      == tokens[3][2] % ByteSize
             r      == expectAlign(p, directive, tokens)
  <1>1. CASE ~Starts(tokens, "NUMBER")
    <2>1. r = SyntaxError(p)
      BY <1>1 DEF expectAlign
    <2>2. QED BY <2>1, ErrorAdds
  <1>2. CASE Starts(tokens, "NUMBER") /\ wrong
    <2>1. r = SyntaxError(p)
      BY <1>2 DEF expectAlign
    <2>2. QED BY <2>1, ErrorAdds
  <1>3. CASE Starts(tokens, "NUMBER") /\ ~wrong
    <2>1. Head(tokens) \in Range(tokens)
      BY <1>3 DEF IsLine, Starts, Range
    <2>2. amount \in Int
      BY <1>3, <2>1 DEF IsLine, IsToken, Starts
    <2>3. modulo \in Nat \ {0}
      <3>1. amount \in Nat \ {0}
        BY <1>3, <2>2
      <3>2. CASE directive = ".align"
        <4>1. amount \in 1..(WordBits - 1)
          BY <1>3, <2>2, <3>2, ImmediateAssumption
        <4>2. QED BY <3>2, <4>1, AlignmentAssumption
      <3>3. CASE directive # ".align"
        BY <3>1, <3>3
      <3>4. QED BY <3>2, <3>3
    <2>4. \/ r = EndOfLine(Emit(p, Alignment(modulo, fill, 0, line)), Tail(tokens))
          \/ r = EndOfLine(Emit(p, Alignment(modulo, FALSE, b, line)), SubSeq(tokens, 4, Len(tokens)))
          \/ r = SyntaxError(p)
      BY <1>3 DEF expectAlign
    <2> HIDE DEF modulo, b, r
    <2>5. PlainItem(p.curSection, Alignment(modulo, fill, 0, line)) /\ PlainItem(p.curSection, Alignment(modulo, FALSE, b, line))
      BY <2>3, AlignmentIsPlain
    <2> HIDE DEF fill
    <2>6. DataAdded(p, r)
      BY <2>4, <2>5, ItemAdds, ErrorAdds
    <2>7. QED BY <2>6 DEF r
  <1>4. QED BY <1>1, <1>2, <1>3

\* The elements of a list are the tokens before, between and after the commas.
LEMMA OddIsOdd ==
  ASSUME NEW k \in Int
  PROVE  (2 * k - 1) % 2 = 1
  <1> DEFINE q == (2 * k - 1) \div 2
             r == (2 * k - 1) % 2
  <1>1. 2 * k - 1 = 2 * q + r /\ r \in 0..1 /\ q \in Int
    OBVIOUS
  <1> HIDE DEF q, r
  <1>2. r # 0
    BY <1>1
  <1>3. r = 1
    BY <1>1, <1>2
  <1>4. QED BY <1>3 DEF r

LEMMA ElementIsPlain ==
  ASSUME NEW s, NEW directive \in {".word", ".half", ".byte", ".ascii"}, NEW t, IsToken(t), IsElement(directive, t)
  PROVE  /\ ItemsOf(directive, t) \in Seq(Range(ItemsOf(directive, t)))
         /\ \A i \in Range(ItemsOf(directive, t)) : PlainItem(s, i)
  <1> DEFINE q == ItemsOf(directive, t)
  <1>1. CASE Kind(t) = "NUMBER"
    <2>1. directive # ".ascii"
      BY <1>1 DEF IsElement
    <2> DEFINE n == CASE directive = ".word" -> WordBytes
                      [] directive = ".half" -> HalfBytes
                      [] directive = ".byte" -> 1
               b == LittleEndian(t[2], n)
    <2>2. n \in Nat
      BY <2>1, WidthAssumption DEF HalfBytes
    <2> HIDE DEF n
    <2>3. Len(b) \in Nat
      <3>1. b \in Seq(Range(b))
        <4>1. b \in [1..n -> Range(b)]
          BY DEF LittleEndian, Range
        <4>2. QED BY <2>2, <4>1
      <3>2. QED BY <3>1
    <2>4. q = <<Data(b, line)>>
      BY <1>1 DEF ItemsOf, n
    <2> DEFINE i == Data(b, line)
    <2>5. PlainItem(s, i)
      BY <2>3, DataIsPlain
    <2> HIDE DEF i, q
    <2>6. q = <<i>>
      BY <2>4 DEF i
    <2>7. q \in Seq({i}) /\ Range(q) = {i}
      BY <2>6 DEF Range
    <2>8. QED BY <2>5, <2>7, SequenceOfItsElements DEF q
  <1>2. CASE Kind(t) # "NUMBER"
    <2>1. Kind(t) \in {"CHARACTER", "STRING"}
      BY <1>2 DEF IsElement
    <2> DEFINE u == t[2]
    <2>2. u \in Seq(Range(u))
      BY <2>1 DEF IsToken
    <2>3. q = [k \in DOMAIN u |-> Data(<<u[k]>>, line)]
      BY <1>2 DEF ItemsOf
    <2>4. DOMAIN u = 1..Len(u) /\ Len(u) \in Nat
      BY <2>2, SequenceOfItsElements
    <2> HIDE DEF u, q
    <2>5. q \in [1..Len(u) -> Range(q)]
      BY <2>3, <2>4 DEF Range
    <2>6. q \in Seq(Range(q))
      BY <2>4, <2>5
    <2>7. ASSUME NEW k \in DOMAIN u
          PROVE  PlainItem(s, q[k])
      <3> DEFINE b == <<u[k]>>
      <3>1. Len(b) \in Nat /\ q[k] = Data(b, line)
        BY <2>3
      <3> HIDE DEF b
      <3>2. QED BY <3>1, DataIsPlain
    <2>8. \A i \in Range(q) : PlainItem(s, i)
      BY <2>3, <2>7 DEF Range
    <2>9. QED BY <2>6, <2>8 DEF q
  <1>3. QED BY <1>1, <1>2

LEMMA DataLine ==
  ASSUME NEW p, IsParser(p), NEW tokens, IsLine(tokens), NEW directive \in {".word", ".half", ".byte", ".ascii"}
  PROVE  DataAdded(p, expectData(p, directive, tokens))
  <1> DEFINE IsList(k) == \A i \in 1..(2 * k - 1) :
                            IF i % 2 = 1 THEN IsElement(directive, tokens[i]) ELSE tokens[i] = Comma
             V == {k \in 0..((Len(tokens) + 1) \div 2) : k = 0 \/ IsList(k)}
             n == Max(V)
             items == FlattenSeq([k \in 1..n |-> ItemsOf(directive, tokens[2 * k - 1])])
             r == expectData(p, directive, tokens)
  <1>1. r = IF n = 0 THEN SyntaxError(p) ELSE EndOfLine(EmitAll(p, items), SubSeq(tokens, 2 * n, Len(tokens)))
    BY DEF expectData
  <1>2. Len(tokens) \in Nat /\ DOMAIN tokens = 1..Len(tokens) /\ \A k \in 1..Len(tokens) : IsToken(tokens[k])
    <2>1. tokens \in Seq(Range(tokens)) /\ \A t \in Range(tokens) : IsToken(t)
      BY DEF IsLine
    <2>2. Len(tokens) \in Nat /\ DOMAIN tokens = 1..Len(tokens)
      BY <2>1, SequenceOfItsElements
    <2>3. QED BY <2>1, <2>2 DEF Range
  <1> DEFINE m == (Len(tokens) + 1) \div 2
  <1>3. m \in Nat /\ 2 * m <= Len(tokens) + 1
    BY <1>2
  <1>4. V \in SUBSET (0..m) /\ V # {}
    <2>1. 0 \in V
      BY <1>3
    <2>2. QED BY <2>1
  <1>5. n \in V
    <2> HIDE DEF V, m
    <2>1. QED BY <1>3, <1>4, GreatestOf
  <1> HIDE DEF r
  <1>6. CASE n = 0
    BY <1>1, <1>6, ErrorAdds DEF r
  <1>7. CASE n # 0
    <2>1. n \in Nat /\ n <= m /\ IsList(n)
      <3> HIDE DEF m, n, IsList
      <3>1. n \in 0..m /\ (n = 0 \/ IsList(n))
        BY <1>5 DEF m
      <3>2. QED BY <3>1, <1>3, <1>7
    <2> HIDE DEF n, m
    <2> DEFINE c == p.curSection
               T == {i \in UNION {Range(ItemsOf(directive, tokens[2 * k - 1])) : k \in 1..n} : PlainItem(c, i)}
               f == [k \in 1..n |-> ItemsOf(directive, tokens[2 * k - 1])]
    <2>2. ASSUME NEW k \in 1..n
          PROVE  ItemsOf(directive, tokens[2 * k - 1]) \in Seq(T)
      <3> DEFINE j == 2 * k - 1
                 q == ItemsOf(directive, tokens[2 * k - 1])
      <3>1. j \in 1..(2 * n - 1) /\ j \in 1..Len(tokens)
        BY <1>2, <1>3, <2>1
      <3>2. j % 2 = 1
        BY OddIsOdd
      <3>3. IsElement(directive, tokens[j])
        <4> HIDE DEF j
        <4>1. QED BY <2>1, <3>1, <3>2
      <3>4. IsToken(tokens[j])
        BY <1>2, <3>1
      <3>5. q \in Seq(Range(q)) /\ \A i \in Range(q) : PlainItem(c, i)
        BY <3>3, <3>4, ElementIsPlain
      <3> HIDE DEF q
      <3>6. Range(q) \subseteq T
        BY <3>5 DEF q
      <3> HIDE DEF T
      <3>7. q \in Seq(T)
        BY <3>5, <3>6
      <3>8. QED BY <3>7 DEF q
    <2>3. f \in [1..n -> Seq(T)]
      <3> HIDE DEF T
      <3>1. QED BY <2>2
    <2>4. FlattenSeq(f) \in Seq(T)
      <3> HIDE DEF T, f
      <3>1. QED BY <2>1, <2>3, FlattenTyped
    <2>5. items = FlattenSeq(f)
      OBVIOUS
    <2> HIDE DEF items, f
    <2>6. \A i \in T : PlainItem(c, i)
      OBVIOUS
    <2> DEFINE e == EmitAll(p, items)
    <2>7. IsParser(e) /\ (Fine(e) => Fine(p)) /\ (Typed(p) => AddsPlain(p, e))
      <3> HIDE DEF T
      <3>1. IsParser(e) /\ (Fine(e) => Fine(p))
        BY EmitIs
      <3>2. items \in Seq(T)
        BY <2>4, <2>5
      <3>3. Typed(p) => AddsPlain(p, e)
        BY <2>6, <3>2, ManyPlain
      <3>4. QED BY <3>1, <3>3
    <2> HIDE DEF e
    <2> DEFINE rest == SubSeq(tokens, 2 * n, Len(tokens))
    <2>8. r = EndOfLine(e, rest)
      BY <1>1, <1>7 DEF e
    <2> HIDE DEF rest
    <2>9. IsParser(r) /\ (Fine(r) => Fine(e) /\ r = e)
      BY <2>7, <2>8, EndOfLineIs
    <2>10. DataAdded(p, r)
      BY <2>7, <2>9 DEF DataAdded
    <2>11. QED BY <2>10 DEF r
  <1>8. QED BY <1>6, <1>7

\* What a line adds after the label it declares
ContentAdded(p, r, tokens) ==
  /\ IsParser(r)
  /\ Fine(r) => /\ Fine(p)
                /\ \/ Kind(Head(tokens)) # "LOCAL_REF" /\ Kind(Head(tokens)) # "MNEMONIC" /\ (Typed(p) => AddsPlain(p, r))
                   \/ Kind(Head(tokens)) = "MNEMONIC" /\ InstructionAdded(p, r, Tail(tokens))

LEMMA LineOfRest ==
  ASSUME NEW tokens, IsLine(tokens), tokens # <<>>
  PROVE  IsLine(Tail(tokens)) /\ IsToken(Head(tokens))
  <1> DEFINE T == Range(tokens)
  <1>1. tokens \in Seq(T) /\ \A t \in T : IsToken(t)
    BY DEF IsLine
  <1>2. Head(tokens) \in T
    BY <1>1 DEF Range
  <1> HIDE DEF T
  <1>3. Tail(tokens) \in Seq(T)
    BY <1>1
  <1>4. Range(Tail(tokens)) \subseteq T
    BY <1>3 DEF Range
  <1>5. Tail(tokens) \in Seq(Range(Tail(tokens)))
    BY <1>3, SequenceOfItsElements
  <1>6. QED BY <1>1, <1>2, <1>4, <1>5 DEF IsLine

LEMMA ContentLine ==
  ASSUME NEW p, IsParser(p), NEW tokens, IsLine(tokens), tokens # <<>>
  PROVE  ContentAdded(p, expectLineContent(p, tokens), tokens)
  <1> DEFINE kind == Kind(Head(tokens))
             rest == Tail(tokens)
             r    == expectLineContent(p, tokens)
  <1>1. IsLine(rest) /\ IsToken(Head(tokens))
    BY LineOfRest
  <1> HIDE DEF rest
  <1>2. CASE kind = "MNEMONIC"
    <2>1. r = expectInstruction(p, Head(tokens)[2], rest)
      BY <1>2 DEF expectLineContent, rest
    <2>2. Head(tokens)[2] \in Mnemonics
      BY <1>1, <1>2 DEF IsToken
    <2>3. rest \in Seq(Range(rest))
      BY <1>1 DEF IsLine
    <2> DEFINE op == Head(tokens)[2]
    <2> HIDE DEF r, op
    <2>4. IsParser(r) /\ (Fine(r) => Fine(p) /\ InstructionAdded(p, r, rest))
      BY <2>1, <2>2, <2>3, InstructionLine DEF op
    <2>5. QED BY <1>2, <2>4 DEF ContentAdded, rest, r
  <1>3. ASSUME kind # "MNEMONIC", kind # "LOCAL_REF", DataAdded(p, r)
        PROVE  ContentAdded(p, r, tokens)
    BY <1>3 DEF DataAdded, ContentAdded
  <1>4. CASE kind = ".space"
    <2>1. r = expectSpace(p, rest)
      BY <1>4 DEF expectLineContent, rest
    <2>2. QED BY <2>1, <1>1, <1>3, <1>4, SpaceLine
  <1>5. CASE kind \in {".word", ".half", ".byte", ".ascii"}
    <2>1. r = expectData(p, kind, rest)
      BY <1>5 DEF expectLineContent, rest
    <2>2. DataAdded(p, r)
      <3> HIDE DEF r, kind
      <3>1. QED BY <2>1, <1>1, <1>5, DataLine
    <2>3. QED BY <2>2, <1>3, <1>5
  <1>6. CASE kind \in {".align", ".balign"}
    <2>1. r = expectAlign(p, kind, rest)
      BY <1>6 DEF expectLineContent, rest
    <2>2. QED BY <2>1, <1>1, <1>3, <1>6, AlignLine
  <1>7. CASE kind \notin {"MNEMONIC", ".space", ".word", ".half", ".byte", ".ascii", ".align", ".balign"}
    <2>1. r = SyntaxError(p)
      BY <1>7 DEF expectLineContent
    <2>2. IsParser(r) /\ ~Fine(r)
      BY <2>1, ErrorsStay
    <2>3. QED BY <2>2 DEF ContentAdded
  <1>8. QED BY <1>2, <1>4, <1>5, <1>6, <1>7

-----------------------------------------------------------------------------
(* Local labels.  d lines of the file f have had their declarations read.  *)

DeclaresIn(f, k, n) == Declaration(f[k]) /\ f[k][1] = Constant(n)
\* k is the last line to declare n, or the first after the line l.
Latest(f, k, d, n) == k \in 1..d /\ DeclaresIn(f, k, n) /\ \A j \in (k + 1)..d : ~DeclaresIn(f, j, n)
Earliest(f, k, l, d, n) == k \in (l + 1)..d /\ DeclaresIn(f, k, n) /\ \A j \in (l + 1)..(k - 1) : ~DeclaresIn(f, j, n)

LocalName(n, g) == <<".local", n, g>>
IsLocal(l) == l # NoLabel /\ l[1] = ".local"
Absent(o, l) == \A s \in Sections : \A i \in DOMAIN o[s] : o[s][i].label # l
OnlyAt(o, l, s, i) ==
  /\ s \in Sections /\ i \in DOMAIN o[s] /\ o[s][i].label = l
  /\ \A u \in Sections : \A j \in DOMAIN o[u] : o[u][j].label = l => u = s /\ j = i
DeclaredOn(o, l, e) ==
  IsLocal(l) /\ \E s \in Sections : \E i \in DOMAIN o[s] : OnlyAt(o, l, s, i) /\ o[s][i].line = e

GoodItem(s, i, d) == WellFormedItem(s, i) /\ ParsedItem(i) /\ i.line \in 1..d
ItemsGood(o, d) == \A s \in Sections : \A i \in DOMAIN o[s] : GoodItem(s, o[s][i], d)

\* The latest label of a number is the one that its last declaration made.
BackGood(f, p, d) ==
  \A n : Find(p.backLabels, n) # 0 =>
    \E k : Latest(f, k, d, n) /\ DeclaredOn(p.object, p.backLabels[Find(p.backLabels, n)].label, k)

\* Labels that wait have names of their own and are declared nowhere.
ForwardGood(p) ==
  \A j \in DOMAIN p.forwardLabels :
    LET l == p.forwardLabels[j]
    IN /\ \E g \in Nat : g < p.progressive /\ l.label = LocalName(l.identifier, g)
       /\ Absent(p.object, l.label)
       /\ \A i \in DOMAIN p.forwardLabels : p.forwardLabels[i].identifier = l.identifier => i = j
Fresh(p) == \A n : \A g \in Nat : ~(g < p.progressive) => Absent(p.object, LocalName(n, g))

Waits(p, label, n) ==
  \E j \in DOMAIN p.forwardLabels : p.forwardLabels[j].identifier = n /\ p.forwardLabels[j].label = label

\* What the reference n of the line l stands for
RefersSoFar(f, p, d, l, label, n) ==
  \/ n < 0 /\ \E k : Latest(f, k, l, -n) /\ DeclaredOn(p.object, label, k)
  \/ ~(n < 0) /\ \E k : Earliest(f, k, l, d, n) /\ DeclaredOn(p.object, label, k)
  \/ ~(n < 0) /\ (\A k \in (l + 1)..d : ~DeclaresIn(f, k, n)) /\ Waits(p, label, n)
RefersWell(f, p, d, i) ==
  i.class = "INSTR" =>
    \A t \in DOMAIN f[i.line] :
      Kind(f[i.line][t]) = "LOCAL_REF" => RefersSoFar(f, p, d, i.line, i.instr.label, f[i.line][t][2])
RefsGood(f, p, d) == \A s \in Sections : \A i \in DOMAIN p.object[s] : RefersWell(f, p, d, p.object[s][i])

Good(f, p, d) ==
  /\ Typed(p) /\ d \in Nat
  /\ ItemsGood(p.object, d) /\ BackGood(f, p, d) /\ ForwardGood(p) /\ Fresh(p) /\ RefsGood(f, p, d)

LEMMA DeclaredIsThere ==
  ASSUME NEW o, NEW l, NEW e, DeclaredOn(o, l, e)
  PROVE  ~Absent(o, l)
  BY DEF DeclaredOn, OnlyAt, Absent

LEMMA StaysAbsent ==
  ASSUME NEW o, NEW r, Kept(o, r), NEW l, Absent(o, l),
         \A s \in Sections : \A i \in DOMAIN r[s] \ DOMAIN o[s] : r[s][i].label # l
  PROVE  Absent(r, l)
  <1> SUFFICES ASSUME NEW s \in Sections, NEW i \in DOMAIN r[s] PROVE r[s][i].label # l
    BY DEF Absent
  <1>1. CASE i \in DOMAIN o[s]
    BY <1>1 DEF Kept, Absent
  <1>2. CASE i \notin DOMAIN o[s]
    BY <1>2
  <1>3. QED BY <1>1, <1>2

LEMMA StaysDeclared ==
  ASSUME NEW o, NEW r, Kept(o, r), NEW l, NEW e, DeclaredOn(o, l, e),
         \A s \in Sections : \A i \in DOMAIN r[s] \ DOMAIN o[s] : r[s][i].label # l
  PROVE  DeclaredOn(r, l, e)
  <1>1. PICK s \in Sections : \E i \in DOMAIN o[s] : OnlyAt(o, l, s, i) /\ o[s][i].line = e
    BY DEF DeclaredOn
  <1>6. PICK i \in DOMAIN o[s] : OnlyAt(o, l, s, i) /\ o[s][i].line = e
    BY <1>1
  <1>2. i \in DOMAIN r[s] /\ r[s][i] = o[s][i]
    BY DEF Kept
  <1>3. ASSUME NEW u \in Sections, NEW j \in DOMAIN r[u], r[u][j].label = l
        PROVE  u = s /\ j = i
    <2>1. j \in DOMAIN o[u]
      BY <1>3
    <2>2. o[u][j].label = l
      BY <1>3, <2>1 DEF Kept
    <2>3. QED BY <1>6, <2>1, <2>2 DEF OnlyAt
  <1>4. OnlyAt(r, l, s, i)
    BY <1>2, <1>3, <1>6 DEF OnlyAt
  <1>5. IsLocal(l)
    BY DEF DeclaredOn
  <1>7. QED BY <1>2, <1>4, <1>5, <1>6 DEF DeclaredOn

\* Lines without a declaration
LEMMA LatestStays ==
  ASSUME NEW f, NEW d \in Nat, NEW n, ~DeclaresIn(f, d + 1, n), NEW k, Latest(f, k, d, n)
  PROVE  Latest(f, k, d + 1, n)
  <1>1. k \in 1..(d + 1) /\ k \in Int
    BY DEF Latest
  <1>2. ASSUME NEW j \in (k + 1)..(d + 1)
        PROVE  ~DeclaresIn(f, j, n)
    <2>1. j = d + 1 \/ j \in (k + 1)..d
      BY <1>1
    <2>2. QED BY <2>1 DEF Latest
  <1>3. QED BY <1>1, <1>2 DEF Latest

LEMMA EarliestStays ==
  ASSUME NEW f, NEW d \in Nat, NEW n, NEW l \in Int, NEW k, Earliest(f, k, l, d, n)
  PROVE  Earliest(f, k, l, d + 1, n)
  <1>1. k \in (l + 1)..(d + 1)
    BY DEF Earliest
  <1>2. QED BY <1>1 DEF Earliest

LEMMA NoneSoFar ==
  ASSUME NEW f, NEW d \in Nat, NEW n, ~DeclaresIn(f, d + 1, n), NEW l \in Int,
         \A k \in (l + 1)..d : ~DeclaresIn(f, k, n)
  PROVE  \A k \in (l + 1)..(d + 1) : ~DeclaresIn(f, k, n)
  <1>1. ASSUME NEW k \in (l + 1)..(d + 1)
        PROVE  ~DeclaresIn(f, k, n)
    <2>1. k = d + 1 \/ k \in (l + 1)..d
      OBVIOUS
    <2>2. QED BY <2>1
  <1>2. QED BY <1>1

LEMMA OneLineMore ==
  ASSUME NEW f, NEW p, NEW d \in Nat, Good(f, p, d), \A n : ~DeclaresIn(f, d + 1, n)
  PROVE  Good(f, p, d + 1)
  <1>1. ItemsGood(p.object, d + 1)
    <2>1. \A k \in 1..d : k \in 1..(d + 1)
      OBVIOUS
    <2>2. QED BY <2>1 DEF Good, ItemsGood, GoodItem
  <1>2. BackGood(f, p, d + 1)
    BY LatestStays DEF Good, BackGood
  <1>3. RefsGood(f, p, d + 1)
    <2> SUFFICES ASSUME NEW s \in Sections, NEW i \in DOMAIN p.object[s], p.object[s][i].class = "INSTR",
                        NEW t \in DOMAIN f[p.object[s][i].line], Kind(f[p.object[s][i].line][t]) = "LOCAL_REF"
                 PROVE  RefersSoFar(f, p, d + 1, p.object[s][i].line, p.object[s][i].instr.label, f[p.object[s][i].line][t][2])
      BY DEF RefsGood, RefersWell
    <2> DEFINE l == p.object[s][i].line
               label == p.object[s][i].instr.label
               n == f[l][t][2]
    <2>1. RefersSoFar(f, p, d, l, label, n)
      BY DEF Good, RefsGood, RefersWell
    <2>2. l \in Int
      BY DEF Good, ItemsGood, GoodItem
    <2> HIDE DEF l, label, n
    <2>3. RefersSoFar(f, p, d + 1, l, label, n)
      BY <2>1, <2>2, EarliestStays, NoneSoFar DEF RefersSoFar
    <2>4. QED BY <2>3 DEF l, label, n
  <1>4. d + 1 \in Nat
    OBVIOUS
  <1>5. QED BY <1>1, <1>2, <1>3, <1>4 DEF Good

\* Items that declare no local label
LEMMA ReferenceStays ==
  ASSUME NEW f, NEW p, NEW r, NEW d, NEW l, NEW label, NEW n, RefersSoFar(f, p, d, l, label, n),
         \A e : DeclaredOn(p.object, label, e) => DeclaredOn(r.object, label, e),
         Waits(p, label, n) => Waits(r, label, n)
  PROVE  RefersSoFar(f, r, d, l, label, n)
  BY DEF RefersSoFar

\* Items that are no local labels
NewItem(f, p, r, d, s, i) == GoodItem(s, i, d) /\ ~IsLocal(i.label) /\ RefersWell(f, r, d, i)

LEMMA NamesAreLocal ==
  ASSUME NEW n, NEW g
  PROVE  IsLocal(LocalName(n, g))
  <1>1. Len(LocalName(n, g)) = 3 /\ Len(NoLabel) = 0 /\ LocalName(n, g)[1] = ".local"
    BY DEF LocalName, NoLabel
  <1>2. QED BY <1>1 DEF IsLocal

LEMMA NamesDiffer ==
  ASSUME NEW n, NEW g, NEW m, NEW h, LocalName(n, g) = LocalName(m, h)
  PROVE  n = m /\ g = h
  <1>1. LocalName(n, g)[2] = n /\ LocalName(n, g)[3] = g /\ LocalName(m, h)[2] = m /\ LocalName(m, h)[3] = h
    BY DEF LocalName
  <1>2. QED BY <1>1

LEMMA ItemsMore ==
  ASSUME NEW f, NEW p, NEW r, NEW d, Good(f, p, d), Typed(r), OnlyObject(p, r), Kept(p.object, r.object),
         \A s \in Sections : \A i \in DOMAIN r.object[s] \ DOMAIN p.object[s] :
           NewItem(f, p, r, d, s, r.object[s][i])
  PROVE  Good(f, r, d)
  <1> DEFINE o == p.object
             u == r.object
  <1>1. \A s \in Sections : \A i \in DOMAIN u[s] :
          \/ i \in DOMAIN o[s] /\ u[s][i] = o[s][i]
          \/ NewItem(f, p, r, d, s, u[s][i])
    <2> HIDE DEF NewItem
    <2>1. QED BY DEF Kept
  <1>2. ItemsGood(u, d)
    BY <1>1 DEF ItemsGood, NewItem, Good
  <1>3. ASSUME NEW l, IsLocal(l)
        PROVE  /\ Absent(o, l) => Absent(u, l)
               /\ \A e : DeclaredOn(o, l, e) => DeclaredOn(u, l, e)
    <2>1. \A s \in Sections : \A i \in DOMAIN u[s] \ DOMAIN o[s] : u[s][i].label # l
      BY <1>3 DEF NewItem
    <2>2. QED BY <2>1, StaysAbsent, StaysDeclared
  <1>4. \A l, e : DeclaredOn(o, l, e) => DeclaredOn(u, l, e)
    BY <1>3 DEF DeclaredOn
  <1> HIDE DEF o, u
  <1>5. BackGood(f, r, d)
    BY <1>4 DEF Good, BackGood, OnlyObject, o, u
  <1>6. \A n, g : Absent(o, LocalName(n, g)) => Absent(u, LocalName(n, g))
    BY <1>3, NamesAreLocal
  <1>7. Fresh(r)
    BY <1>6 DEF Good, Fresh, OnlyObject, o, u
  <1>8. ForwardGood(r)
    <2> SUFFICES ASSUME NEW j \in DOMAIN p.forwardLabels
                 PROVE  Absent(u, p.forwardLabels[j].label)
      BY DEF Good, ForwardGood, OnlyObject, u
    <2>1. PICK g \in Nat : p.forwardLabels[j].label = LocalName(p.forwardLabels[j].identifier, g)
      BY DEF Good, ForwardGood
    <2>2. Absent(o, p.forwardLabels[j].label)
      BY DEF Good, ForwardGood, o
    <2>3. QED BY <2>1, <2>2, <1>6
  <1>9. ASSUME NEW l, NEW label, NEW n, RefersSoFar(f, p, d, l, label, n)
        PROVE  RefersSoFar(f, r, d, l, label, n)
    <2>1. Waits(p, label, n) => Waits(r, label, n)
      BY DEF Waits, OnlyObject
    <2>2. QED BY <2>1, <1>4, <1>9, ReferenceStays DEF o, u
  <1>10. RefsGood(f, r, d)
    <2> SUFFICES ASSUME NEW s \in Sections, NEW i \in DOMAIN u[s] PROVE RefersWell(f, r, d, u[s][i])
      BY DEF RefsGood, u
    <2>1. CASE i \in DOMAIN o[s] /\ u[s][i] = o[s][i]
      <3>1. RefersWell(f, p, d, o[s][i])
        BY <2>1 DEF Good, RefsGood, o
      <3>2. QED BY <2>1, <3>1, <1>9 DEF RefersWell
    <2>2. CASE NewItem(f, p, r, d, s, u[s][i])
      BY <2>2 DEF NewItem
    <2>3. QED BY <1>1, <2>1, <2>2 DEF o, u
  <1>11. QED BY <1>2, <1>5, <1>7, <1>8, <1>10 DEF Good, u

-----------------------------------------------------------------------------
(* A label for the next declaration *)

\* One more element before the others
LEMMA Before1 ==
  ASSUME NEW q, IsSeq(q), NEW e
  PROVE  /\ IsSeq(<<e>> \o q) /\ Len(q) \in Nat /\ Len(<<e>> \o q) = Len(q) + 1
         /\ DOMAIN q = 1..Len(q) /\ DOMAIN (<<e>> \o q) = 1..(Len(q) + 1)
         /\ (<<e>> \o q)[1] = e
         /\ \A k \in 1..Len(q) : (<<e>> \o q)[k + 1] = q[k]
  <1> DEFINE T == Range(q) \union {e}
             a == <<e>>
             r == a \o q
  <1>1. q \in Seq(Range(q))
    BY DEF IsSeq
  <1>2. a \in Seq(T) /\ q \in Seq(T) /\ Len(a) = 1 /\ a[1] = e /\ Len(q) \in Nat /\ DOMAIN q = 1..Len(q)
    BY <1>1
  <1> HIDE DEF a, T
  <1>3. /\ r \in Seq(T) /\ Len(r) = Len(a) + Len(q)
        /\ \A k \in 1..(Len(a) + Len(q)) : r[k] = IF k <= Len(a) THEN a[k] ELSE q[k - Len(a)]
    BY <1>2, ConcatProperties
  <1>4. r \in Seq(Range(r)) /\ DOMAIN r = 1..Len(r)
    BY <1>3, SequenceOfItsElements
  <1> HIDE DEF r
  <1>5. Len(r) = Len(q) + 1 /\ r[1] = e
    BY <1>2, <1>3
  <1>6. ASSUME NEW k \in 1..Len(q)
        PROVE  r[k + 1] = q[k]
    <2>1. k + 1 \in 1..(Len(a) + Len(q)) /\ ~(k + 1 <= Len(a)) /\ (k + 1) - Len(a) = k
      BY <1>2
    <2>2. QED BY <2>1, <1>3
  <1>7. QED BY <1>2, <1>4, <1>5, <1>6 DEF IsSeq, r, a

LEMMA LocalLabelIs ==
  ASSUME NEW p, IsParser(p), NEW n
  PROVE  /\ IsParser(parserGetLocalLabel(p, n)) /\ (Fine(parserGetLocalLabel(p, n)) <=> Fine(p))
         /\ parserGetLocalLabel(p, n).object = p.object
         /\ parserGetLocalLabel(p, n).curSection = p.curSection
         /\ parserGetLocalLabel(p, n).backLabels = p.backLabels
  BY DEF IsParser, ParserFields, Fine, parserGetLocalLabel

\* A parser that only has other labels that wait
LEMMA OnlyForward ==
  ASSUME NEW f, NEW p, NEW q, NEW d, Good(f, p, d), IsParser(q),
         q.object = p.object, q.curSection = p.curSection, q.backLabels = p.backLabels,
         IsSeq(q.forwardLabels), q.progressive \in Nat, ForwardGood(q), Fresh(q),
         \A label, n : Waits(p, label, n) => Waits(q, label, n)
  PROVE  Good(f, q, d)
  <1>1. Typed(q)
    BY DEF Good, Typed
  <1>2. BackGood(f, q, d) /\ ItemsGood(q.object, d)
    BY DEF Good, BackGood
  <1>3. \A l, label, n : RefersSoFar(f, p, d, l, label, n) => RefersSoFar(f, q, d, l, label, n)
    BY DEF RefersSoFar
  <1>4. RefsGood(f, q, d)
    BY <1>3 DEF Good, RefsGood, RefersWell
  <1>5. QED BY <1>1, <1>2, <1>4 DEF Good

LEMMA LocalLabelGood ==
  ASSUME NEW f, NEW p, NEW d, Good(f, p, d), NEW n
  PROVE  Good(f, parserGetLocalLabel(p, n), d) /\ Find(parserGetLocalLabel(p, n).forwardLabels, n) # 0
  <1> DEFINE q == parserGetLocalLabel(p, n)
             F == p.forwardLabels
             g == p.progressive
             e == [identifier |-> n, label |-> <<".local", n, g>>]
  <1>1. IsParser(p) /\ IsSeq(F) /\ g \in Nat
    BY DEF Good, Typed
  <1>2. CASE Find(F, n) # 0
    BY <1>2 DEF parserGetLocalLabel
  <1>3. CASE Find(F, n) = 0
    <2> DEFINE G == <<e>> \o F
               m == Len(F)
    <2>1. q.forwardLabels = G /\ q.progressive = g + 1
      BY <1>1, <1>3 DEF IsParser, ParserFields, parserGetLocalLabel
    <2>2. /\ IsParser(q) /\ q.object = p.object /\ q.curSection = p.curSection /\ q.backLabels = p.backLabels
      BY <1>1, LocalLabelIs
    <2>3. e.identifier = n /\ e.label = LocalName(n, g)
      BY DEF LocalName
    <2> HIDE DEF e, q, F
    <2>4. /\ IsSeq(G) /\ m \in Nat /\ Len(G) = m + 1
          /\ DOMAIN F = 1..m /\ DOMAIN G = 1..(m + 1)
          /\ G[1] = e
          /\ \A k \in 1..m : G[k + 1] = F[k]
      BY <1>1, Before1
    <2> HIDE DEF G
    <2>5. \A k \in 1..m : F[k].identifier # n
      BY <1>3, <2>4, FindIs
    <2>6. ASSUME NEW j \in DOMAIN G
          PROVE  j = 1 \/ (j - 1 \in DOMAIN F /\ j # 1 /\ G[j] = F[j - 1])
      <3>1. CASE j = 1
        BY <3>1
      <3>2. CASE j # 1
        <4>1. j - 1 \in 1..m /\ (j - 1) + 1 = j
          BY <2>4, <3>2
        <4>2. QED BY <2>4, <3>2, <4>1
      <3>3. QED BY <3>1, <3>2
    <2>7. Fresh(q)
      <3>1. \A h \in Nat : ~(h < g + 1) => ~(h < g)
        BY <1>1
      <3>2. QED BY <2>1, <2>2, <3>1 DEF Good, Fresh
    <2>8. Absent(p.object, LocalName(n, g))
      BY <1>1 DEF Good, Fresh
    <2> HIDE DEF F, g, m
    <2>9. ForwardGood(q)
      <3> SUFFICES ASSUME NEW j \in DOMAIN G
                   PROVE  /\ \E h \in Nat : h < g + 1 /\ G[j].label = LocalName(G[j].identifier, h)
                          /\ Absent(p.object, G[j].label)
                          /\ \A i \in DOMAIN G : G[i].identifier = G[j].identifier => i = j
        BY <2>1, <2>2 DEF ForwardGood
      <3>1. CASE j = 1
        <4>1. g \in Nat /\ g < g + 1
          BY <1>1
        <4>2. ASSUME NEW i \in DOMAIN G, G[i].identifier = n
              PROVE  i = 1
          BY <2>4, <2>5, <2>6, <4>2
        <4>3. QED BY <2>3, <2>4, <2>8, <3>1, <4>1, <4>2
      <3>2. CASE j # 1
        <4>1. j - 1 \in DOMAIN F /\ G[j] = F[j - 1]
          BY <2>6, <3>2
        <4> DEFINE y == j - 1
        <4> HIDE DEF y
        <4>2. y \in DOMAIN F /\ G[j] = F[y]
          BY <4>1 DEF y
        <4>3. PICK h \in Nat : h < g /\ F[y].label = LocalName(F[y].identifier, h)
          BY <4>2 DEF Good, ForwardGood, F, g
        <4>4. h < g + 1
          BY <1>1, <4>3
        <4>5. Absent(p.object, F[y].label) /\ \A i \in DOMAIN F : F[i].identifier = F[y].identifier => i = y
          BY <4>2 DEF Good, ForwardGood, F
        <4>6. ASSUME NEW i \in DOMAIN G, G[i].identifier = F[y].identifier
              PROVE  i = j
          <5>1. F[y].identifier # n
            BY <2>4, <2>5, <4>2
          <5>2. i # 1
            BY <2>3, <2>4, <4>6, <5>1
          <5>3. i - 1 \in DOMAIN F /\ G[i] = F[i - 1]
            BY <2>6, <5>2
          <5>4. i - 1 = y
            BY <4>5, <4>6, <5>3
          <5>5. i \in Int /\ j \in Int
            BY <2>4
          <5>6. QED BY <5>4, <5>5 DEF y
        <4>7. QED BY <4>2, <4>3, <4>4, <4>5, <4>6
      <3>3. QED BY <3>1, <3>2
    <2>10. ASSUME NEW label, NEW i, Waits(p, label, i)
           PROVE  Waits(q, label, i)
      <3>1. PICK j \in DOMAIN F : F[j].identifier = i /\ F[j].label = label
        BY <2>10 DEF Waits, F
      <3>2. j + 1 \in DOMAIN G /\ G[j + 1] = F[j]
        BY <2>4
      <3>3. QED BY <2>1, <3>1, <3>2 DEF Waits
    <2>11. g + 1 \in Nat
      BY <1>1
    <2>12. Good(f, q, d)
      BY <2>1, <2>2, <2>4, <2>7, <2>9, <2>10, <2>11, OnlyForward
    <2>13. Find(G, n) # 0
      <3>1. Len(G) \in Nat /\ 1 \in 1..Len(G) /\ G[1].identifier = n
        BY <2>3, <2>4
      <3>2. QED BY <3>1, FindIs
    <2>14. QED BY <2>1, <2>12, <2>13 DEF q
  <1>4. QED BY <1>2, <1>3 DEF F

-----------------------------------------------------------------------------
(* A reference *)

LEMMA CodeIs ==
  ASSUME NEW s, NEW instr, OfFile(instr)
  PROVE  /\ WellFormedItem(s, Code(instr, line)) /\ ParsedItem(Code(instr, line))
         /\ Code(instr, line).class = "INSTR" /\ Code(instr, line).instr = instr
         /\ Code(instr, line).line = line /\ ~IsLocal(Code(instr, line).label)
  <1> DEFINE i == Code(instr, line)
  <1>1. /\ ItemFields \subseteq DOMAIN i
        /\ i.class = "INSTR" /\ i.size = 0 /\ i.modulo = 1 /\ i.nopFill = FALSE
        /\ i.word = <<>> /\ i.label = NoLabel /\ i.line = line /\ i.instr = instr
    BY DEF Code, Item, ItemFields
  <1> HIDE DEF i
  <1>2. QED BY <1>1 DEF WellFormedItem, ItemFields, ParsedItem, IsLocal, i

LEMMA CodeMore ==
  ASSUME NEW f, NEW p, NEW d, Good(f, p, d), d = line, d # 0, NEW instr, OfFile(instr), NEW r,
         r = Emit(p, Code(instr, line)), RefersWell(f, r, d, Code(instr, line))
  PROVE  Good(f, r, d)
  <1> DEFINE i == Code(instr, line)
  <1>1. OneMoreItem(p, r, i)
    BY EmitAdds DEF Good
  <1>2. \A s \in Sections : GoodItem(s, i, d) /\ ~IsLocal(i.label)
    BY CodeIs DEF GoodItem, Good
  <1> HIDE DEF i
  <1>3. RefersWell(f, r, d, i)
    BY DEF i
  <1>4. \A s \in Sections : NewItem(f, p, r, d, s, i)
    BY <1>2, <1>3 DEF NewItem
  <1>5. \A s \in Sections : \A k \in DOMAIN r.object[s] \ DOMAIN p.object[s] : NewItem(f, p, r, d, s, r.object[s][k])
    BY <1>1, <1>4 DEF OneMoreItem
  <1>6. QED BY <1>1, <1>5, ItemsMore DEF OneMoreItem

\* What a token refers to
Refers(f, q, d, t) == RefersSoFar(f, q, d, d, LabelOf(q, t), t[2])

LEMMA BackReference ==
  ASSUME NEW f, NEW p, NEW d, Good(f, p, d), NEW t, IsBack(t), ~Dangles(p, t)
  PROVE  Refers(f, p, d, t)
  <1> DEFINE n == -t[2]
             l == p.backLabels[Find(p.backLabels, n)].label
  <1>1. Find(p.backLabels, n) # 0 /\ t[2] < 0
    BY DEF Dangles, IsBack
  <1>2. LabelOf(p, t) = l
    BY DEF LabelOf, IsBack
  <1>3. PICK k : Latest(f, k, d, n) /\ DeclaredOn(p.object, l, k)
    BY <1>1 DEF Good, BackGood
  <1> HIDE DEF l
  <1>4. RefersSoFar(f, p, d, d, l, t[2])
    BY <1>1, <1>3 DEF RefersSoFar
  <1>5. QED BY <1>2, <1>4 DEF Refers

LEMMA ForwardReference ==
  ASSUME NEW f, NEW q, NEW d, Good(f, q, d), NEW t, ~IsBack(t), Kind(t) = "LOCAL_REF", Find(q.forwardLabels, t[2]) # 0
  PROVE  Refers(f, q, d, t)
  <1> DEFINE F == q.forwardLabels
             j == Find(F, t[2])
             l == F[j].label
  <1>1. LabelOf(q, t) = l /\ ~(t[2] < 0)
    BY DEF LabelOf, IsBack
  <1>2. IsSeq(F) /\ d \in Nat
    BY DEF Good, Typed
  <1>3. Len(F) \in Nat /\ DOMAIN F = 1..Len(F)
    BY <1>2, SequenceOfItsElements DEF IsSeq
  <1> HIDE DEF F
  <1>4. j \in 1..Len(F) /\ F[j].identifier = t[2]
    BY <1>3, FindIs DEF F
  <1>5. \A k \in (d + 1)..d : ~DeclaresIn(f, k, t[2])
    BY <1>2
  <1> HIDE DEF j, l
  <1>6. F[j].label = l
    BY DEF l
  <1>7. RefersSoFar(f, q, d, d, l, t[2])
    <2>1. Waits(q, l, t[2])
      BY <1>3, <1>4, <1>6 DEF Waits, F
    <2>2. QED BY <2>1, <1>1, <1>5 DEF RefersSoFar
  <1>8. QED BY <1>1, <1>7 DEF Refers

LEMMA ReferenceGood ==
  ASSUME NEW f, NEW p, NEW d, Good(f, p, d), NEW t, Kind(t) = "LOCAL_REF",
         Fine(AfterReference(p, t)), NEW q, q = AfterReference(p, t)
  PROVE  Good(f, q, d) /\ Refers(f, q, d, t)
  <1>1. ~Dangles(p, t)
    <2>1. ASSUME Dangles(p, t) PROVE FALSE
      <3>1. q = [p EXCEPT !.crashed = TRUE, !.failed = TRUE]
        BY <2>1 DEF AfterReference
      <3>2. q.crashed = TRUE
        BY <3>1 DEF Good, Typed, IsParser, ParserFields
      <3>3. QED BY <3>2 DEF Fine
    <2>2. QED BY <2>1
  <1>2. CASE IsBack(t)
    <2>1. q = p
      BY <1>1, <1>2 DEF AfterReference
    <2>2. QED BY <2>1, <1>1, <1>2, BackReference
  <1>3. CASE ~IsBack(t)
    <2>1. q = parserGetLocalLabel(p, t[2])
      BY <1>1, <1>3 DEF AfterReference
    <2>2. Good(f, q, d) /\ Find(q.forwardLabels, t[2]) # 0
      BY <2>1, LocalLabelGood
    <2>3. QED BY <2>2, <1>3, ForwardReference
  <1>4. QED BY <1>2, <1>3

\* The references of the line d are in tokens, which come after the first of its tokens.
ReferencesIn(f, d, tokens, first) ==
  \A k \in DOMAIN f[d] : Kind(f[d][k]) = "LOCAL_REF" => k - first \in DOMAIN tokens /\ tokens[k - first] = f[d][k]

\* The instruction of a line
LEMMA InstructionGood ==
  ASSUME NEW f, NEW p, NEW d, Good(f, p, d), d = line, d # 0, NEW tokens, NEW r, InstructionAdded(p, r, tokens),
         NEW first \in Int, ReferencesIn(f, d, tokens, first)
  PROVE  Good(f, r, d)
  <1>1. PICK instr :
          /\ OfFile(instr)
          /\ \/ /\ \A j \in DOMAIN tokens : Kind(tokens[j]) # "LOCAL_REF"
                /\ r = Emit(p, Code(instr, line))
             \/ \E a \in DOMAIN tokens :
                  /\ Kind(tokens[a]) = "LOCAL_REF"
                  /\ \A j \in DOMAIN tokens : j # a => Kind(tokens[j]) # "LOCAL_REF"
                  /\ Fine(AfterReference(p, tokens[a]))
                  /\ instr.label = LabelOf(AfterReference(p, tokens[a]), tokens[a])
                  /\ r = Emit(AfterReference(p, tokens[a]), Code(instr, line))
    BY DEF InstructionAdded
  <1> DEFINE i == Code(instr, line)
  <1>2. i.class = "INSTR" /\ i.instr = instr /\ i.line = d
    BY <1>1, CodeIs
  <1> HIDE DEF i
  <1>3. CASE /\ \A j \in DOMAIN tokens : Kind(tokens[j]) # "LOCAL_REF"
             /\ r = Emit(p, i)
    <2>1. \A k \in DOMAIN f[d] : Kind(f[d][k]) # "LOCAL_REF"
      BY <1>3 DEF ReferencesIn
    <2>2. RefersWell(f, r, d, i)
      BY <2>1, <1>2 DEF RefersWell
    <2>3. QED BY <2>2, <1>1, <1>3, CodeMore DEF i
  <1>4. ASSUME NEW a \in DOMAIN tokens,
               Kind(tokens[a]) = "LOCAL_REF",
               \A j \in DOMAIN tokens : j # a => Kind(tokens[j]) # "LOCAL_REF",
               Fine(AfterReference(p, tokens[a])),
               instr.label = LabelOf(AfterReference(p, tokens[a]), tokens[a]),
               r = Emit(AfterReference(p, tokens[a]), i)
        PROVE  Good(f, r, d)
    <2> DEFINE t == tokens[a]
               q == AfterReference(p, t)
    <2>1. Good(f, q, d) /\ Refers(f, q, d, t)
      <3> HIDE DEF t
      <3>1. Kind(t) = "LOCAL_REF" /\ Fine(AfterReference(p, t))
        BY <1>4 DEF t
      <3>2. QED BY <3>1, ReferenceGood
    <2> HIDE DEF q
    <2>2. r = Emit(q, i) /\ instr.label = LabelOf(q, t)
      BY <1>4 DEF q
    <2>3. OneMoreItem(q, r, i)
      BY <2>1, <2>2, EmitAdds DEF Good
    <2>4. ~IsLocal(i.label)
      BY <1>1, CodeIs DEF i
    <2>5. ASSUME NEW l, NEW e, DeclaredOn(q.object, l, e)
          PROVE  DeclaredOn(r.object, l, e)
      <3>1. IsLocal(l)
        BY <2>5 DEF DeclaredOn
      <3>2. /\ Kept(q.object, r.object)
            /\ \A s \in Sections : \A k \in DOMAIN r.object[s] \ DOMAIN q.object[s] : r.object[s][k].label # l
        BY <2>3, <2>4, <3>1 DEF OneMoreItem
      <3>3. QED BY <2>5, <3>2, StaysDeclared
    <2> HIDE DEF t
    <2>6. \A l, n : Waits(q, l, n) => Waits(r, l, n)
      BY <2>3 DEF OneMoreItem, OnlyObject, Waits
    <2>7. RefersSoFar(f, r, d, d, LabelOf(q, t), t[2])
      BY <2>1, <2>5, <2>6, ReferenceStays DEF Refers
    <2>8. ASSUME NEW k \in DOMAIN f[d], Kind(f[d][k]) = "LOCAL_REF"
          PROVE  f[d][k] = t
      <3>1. k - first \in DOMAIN tokens /\ tokens[k - first] = f[d][k]
        BY <2>8 DEF ReferencesIn
      <3>2. k - first = a
        BY <3>1, <2>8, <1>4
      <3>3. QED BY <3>1, <3>2 DEF t
    <2>9. RefersWell(f, r, d, i)
      BY <1>2, <2>2, <2>7, <2>8 DEF RefersWell
    <2>10. QED BY <1>1, <2>1, <2>2, <2>9, CodeMore DEF i
  <1>5. QED BY <1>1, <1>3, <1>4 DEF i

-----------------------------------------------------------------------------
(* A declaration *)

LEMMA VoidIs ==
  ASSUME NEW s, NEW l
  PROVE  /\ WellFormedItem(s, Void(l, line)) /\ ParsedItem(Void(l, line))
         /\ Void(l, line).class = "VOID" /\ Void(l, line).line = line /\ Void(l, line).label = l
  <1> DEFINE i == Void(l, line)
  <1>1. /\ ItemFields \subseteq DOMAIN i
        /\ i.class = "VOID" /\ i.size = 0 /\ i.modulo = 1 /\ i.nopFill = FALSE
        /\ i.word = <<>> /\ i.label = l /\ i.line = line
    BY DEF Void, Item, ItemFields
  <1> HIDE DEF i
  <1>2. QED BY <1>1 DEF WellFormedItem, ItemFields, ParsedItem, i

\* w is what u has and o does not, in the place k of the section c.
AddedAt(o, u, c, k, w) ==
  /\ k \in DOMAIN u[c] /\ k \notin DOMAIN o[c] /\ u[c][k] = w
  /\ \A s \in Sections : \A j \in DOMAIN u[s] \ DOMAIN o[s] : s = c /\ j = k

\* r is q after the label that waited in the place i has been declared.
MovedFields(q, r, i) ==
  LET F == q.forwardLabels
      B == q.backLabels
      G == r.forwardLabels
      C == r.backLabels
      o == q.object
      u == r.object
      c == q.curSection
  IN /\ i \in DOMAIN F
     /\ IsSeq(F) /\ IsSeq(B) /\ Typed(r)
     /\ HasGap(G, F, i) /\ C = <<F[i]>> \o B
     /\ r.progressive = q.progressive /\ Kept(o, u) /\ c \in Sections
     /\ \E k : AddedAt(o, u, c, k, Void(F[i].label, line))

LEMMA MovedIs ==
  ASSUME NEW q, Typed(q), NEW i \in DOMAIN q.forwardLabels, NEW l, l = q.forwardLabels[i], NEW v,
         v = [q EXCEPT !.forwardLabels = RemoveAt(@, i), !.backLabels = <<l>> \o @],
         NEW r, r = Emit(v, Void(l.label, line))
  PROVE  MovedFields(q, r, i)
  <1> DEFINE F == q.forwardLabels
             B == q.backLabels
  <1>1. IsSeq(F) /\ IsSeq(B) /\ IsParser(q) /\ i \in DOMAIN F
    BY DEF Typed
  <1>2. /\ v.forwardLabels = RemoveAt(F, i) /\ v.backLabels = <<l>> \o B
        /\ v.object = q.object /\ v.progressive = q.progressive /\ v.curSection = q.curSection /\ IsParser(v)
    BY <1>1 DEF IsParser, ParserFields
  <1> HIDE DEF F, B
  <1>3. F \in Seq(Range(F)) /\ i \in 1..Len(F)
    BY <1>1, SequenceOfItsElements DEF IsSeq
  <1>4. RemoveAt(F, i) \in Seq(Range(F)) /\ HasGap(RemoveAt(F, i), F, i)
    BY <1>3, GapPlaces
  <1>5. IsSeq(RemoveAt(F, i))
    BY <1>4, SequenceOfItsElements DEF IsSeq
  <1>6. IsSeq(<<l>> \o B)
    BY <1>1, Before1
  <1>7. Typed(v)
    BY <1>2, <1>5, <1>6 DEF Typed
  <1>8. OneMoreItem(v, r, Void(l.label, line))
    BY <1>7, EmitAdds
  <1> DEFINE w == Void(l.label, line)
             c == q.curSection
             k == Next1(q.object, c)
  <1> HIDE DEF w
  <1>9. /\ Typed(r) /\ r.forwardLabels = v.forwardLabels /\ r.backLabels = v.backLabels
        /\ r.progressive = q.progressive /\ Kept(q.object, r.object)
    BY <1>2, <1>8 DEF OneMoreItem, OnlyObject
  <1>10. AddedAt(q.object, r.object, c, k, w)
    <2>1. Next1(v.object, v.curSection) = k /\ v.object = q.object /\ v.curSection = c
      BY <1>2
    <2> HIDE DEF k, c
    <2>2. OneMoreItem(v, r, w)
      BY <1>8 DEF w
    <2>3. QED BY <2>1, <2>2 DEF OneMoreItem, AddedAt
  <1> HIDE DEF k
  <1>11. c \in Sections
    BY DEF Typed
  <1>12. F[i] = l
    BY DEF F
  <1>13. w = Void(F[i].label, line)
    BY <1>12 DEF w
  <1> HIDE DEF c
  <1>14. \E y : AddedAt(q.object, r.object, c, y, Void(F[i].label, line))
    BY <1>10, <1>13
  <1>15. r.forwardLabels = RemoveAt(F, i) /\ r.backLabels = <<F[i]>> \o B
    BY <1>2, <1>9, <1>12
  <1>16. QED BY <1>1, <1>4, <1>9, <1>11, <1>14, <1>15 DEF MovedFields, F, B, c

\* The labels that go on waiting
LEMMA OthersWait ==
  ASSUME NEW F, IsSeq(F), NEW i \in DOMAIN F, NEW G, IsSeq(G), HasGap(G, F, i)
  PROVE  /\ \A a \in DOMAIN G : \E b \in DOMAIN F : b # i /\ G[a] = F[b]
         /\ \A b \in DOMAIN F : b # i => \E a \in DOMAIN G : G[a] = F[b]
         /\ \A a1, a2 \in DOMAIN G : a1 # a2 => \E b1, b2 \in DOMAIN F : b1 # b2 /\ G[a1] = F[b1] /\ G[a2] = F[b2]
  <1>1. Len(F) \in Nat /\ DOMAIN F = 1..Len(F) /\ Len(G) \in Nat /\ DOMAIN G = 1..Len(G)
    BY SequenceOfItsElements DEF IsSeq
  <1>2. Len(G) = Len(F) - 1 /\ i \in 1..Len(F)
    BY <1>1 DEF HasGap
  <1> DEFINE b(a) == IF a < i THEN a ELSE a + 1
  <1>3. ASSUME NEW a \in DOMAIN G
        PROVE  b(a) \in DOMAIN F /\ b(a) # i /\ G[a] = F[b(a)] /\ a \in Int
    <2>1. CASE a < i
      <3>1. a \in 1..(i - 1) /\ a \in 1..Len(F)
        BY <1>1, <1>2, <2>1
      <3>2. G[a] = F[a]
        BY <3>1 DEF HasGap
      <3>3. QED BY <1>1, <1>2, <2>1, <3>1, <3>2
    <2>2. CASE ~(a < i)
      <3>1. a \in i..Len(G) /\ a + 1 \in 1..Len(F)
        BY <1>1, <1>2, <2>2
      <3>2. G[a] = F[a + 1]
        BY <3>1 DEF HasGap
      <3>3. QED BY <1>1, <1>2, <2>2, <3>1, <3>2
    <2>3. QED BY <2>1, <2>2
  <1>4. ASSUME NEW a1 \in DOMAIN G, NEW a2 \in DOMAIN G, a1 # a2
        PROVE  b(a1) # b(a2)
    BY <1>1, <1>2, <1>4
  <1>5. ASSUME NEW y \in DOMAIN F, y # i
        PROVE  \E a \in DOMAIN G : G[a] = F[y]
    <2>1. CASE y < i
      <3>1. y \in DOMAIN G /\ b(y) = y
        BY <1>1, <1>2, <2>1
      <3>2. QED BY <3>1, <1>3
    <2>2. CASE ~(y < i)
      <3>1. y - 1 \in DOMAIN G /\ b(y - 1) = y
        BY <1>1, <1>2, <1>5, <2>2
      <3>2. QED BY <3>1, <1>3
    <2>3. QED BY <2>1, <2>2
  <1> HIDE DEF b
  <1>6. QED BY <1>3, <1>4, <1>5

\* Where a number is found after one has been put before the others
LEMMA FindBefore ==
  ASSUME NEW B, IsSeq(B), NEW l, NEW n
  PROVE  /\ l.identifier = n => Find(<<l>> \o B, n) = 1
         /\ l.identifier # n /\ Find(<<l>> \o B, n) # 0 =>
              Find(B, n) # 0 /\ (<<l>> \o B)[Find(<<l>> \o B, n)].label = B[Find(B, n)].label
  <1> DEFINE C == <<l>> \o B
             m == Len(B)
             i == Find(C, n)
             j == Find(B, n)
  <1>1. /\ m \in Nat /\ Len(C) = m + 1 /\ C[1] = l /\ \A k \in 1..m : C[k + 1] = B[k]
    BY Before1
  <1> HIDE DEF C
  <1>2. /\ i # 0 => /\ i \in 1..(m + 1) /\ C[i].identifier = n
                    /\ \A k \in 1..(m + 1) : C[k].identifier = n => i <= k
        /\ i = 0 => \A k \in 1..(m + 1) : C[k].identifier # n
    <2>1. Len(C) \in Nat
      BY <1>1
    <2>2. QED BY <2>1, <1>1, FindIs
  <1>3. /\ j # 0 => /\ j \in 1..m /\ B[j].identifier = n
                    /\ \A k \in 1..m : B[k].identifier = n => j <= k
        /\ j = 0 => \A k \in 1..m : B[k].identifier # n
    BY <1>1, FindIs
  <1> HIDE DEF i, j, m
  <1>4. ASSUME l.identifier = n
        PROVE  i = 1
    <2>1. 1 \in 1..(m + 1) /\ C[1].identifier = n
      BY <1>1, <1>4
    <2>2. i # 0 /\ i <= 1
      BY <1>2, <2>1
    <2>3. QED BY <2>2, <1>2
  <1>5. ASSUME l.identifier # n, i # 0
        PROVE  j # 0 /\ C[i].label = B[j].label
    <2>1. i # 1
      BY <1>1, <1>2, <1>5
    <2> DEFINE y == i - 1
    <2>2. y \in 1..m /\ y + 1 = i
      BY <1>1, <1>2, <1>5, <2>1
    <2> HIDE DEF y
    <2>3. C[i] = B[y] /\ B[y].identifier = n
      BY <1>1, <1>2, <1>5, <2>2
    <2>4. j # 0 /\ j <= y
      BY <1>3, <2>2, <2>3
    <2>5. j \in 1..m /\ j + 1 \in 1..(m + 1) /\ C[j + 1] = B[j] /\ C[j + 1].identifier = n
      BY <1>1, <1>3, <2>4
    <2>6. i <= j + 1
      BY <1>2, <1>5, <2>5
    <2>7. y = j
      BY <2>2, <2>4, <2>5, <2>6
    <2>8. QED BY <2>3, <2>4, <2>7
  <1>6. QED BY <1>4, <1>5 DEF i, j, C

LEMMA MovedDeclared ==
  ASSUME NEW o, NEW u, IsTyped(u), Kept(o, u), NEW c \in Sections, NEW k, NEW w, AddedAt(o, u, c, k, w)
  PROVE  /\ \A l, e : l # w.label /\ DeclaredOn(o, l, e) => DeclaredOn(u, l, e)
         /\ \A l : l # w.label /\ Absent(o, l) => Absent(u, l)
         /\ IsLocal(w.label) /\ Absent(o, w.label) => DeclaredOn(u, w.label, w.line)
  <1>1. ASSUME NEW l, l # w.label
        PROVE  /\ \A e : DeclaredOn(o, l, e) => DeclaredOn(u, l, e)
               /\ Absent(o, l) => Absent(u, l)
    <2>1. \A s \in Sections : \A i \in DOMAIN u[s] \ DOMAIN o[s] : u[s][i].label # l
      BY <1>1 DEF AddedAt
    <2>2. QED BY <2>1, StaysAbsent, StaysDeclared
  <1>2. ASSUME IsLocal(w.label), Absent(o, w.label)
        PROVE  DeclaredOn(u, w.label, w.line)
    <2>1. k \in DOMAIN u[c] /\ u[c][k] = w
      BY DEF AddedAt
    <2>2. ASSUME NEW s \in Sections, NEW j \in DOMAIN u[s], u[s][j].label = w.label
          PROVE  s = c /\ j = k
      <3>1. CASE j \in DOMAIN o[s]
        BY <1>2, <2>2, <3>1 DEF Kept, Absent
      <3>2. CASE j \notin DOMAIN o[s]
        BY <3>2 DEF AddedAt
      <3>3. QED BY <3>1, <3>2
    <2>3. OnlyAt(u, w.label, c, k)
      BY <2>1, <2>2 DEF OnlyAt
    <2>4. QED BY <1>2, <2>1, <2>3 DEF DeclaredOn
  <1>3. QED BY <1>1, <1>2

LEMMA DeclarationGood ==
  ASSUME NEW f, NEW q, NEW d, Good(f, q, d), line = d + 1, NEW n, DeclaresIn(f, d + 1, n),
         NEW i, i = Find(q.forwardLabels, n), i # 0, NEW r, MovedFields(q, r, i)
  PROVE  Good(f, r, d + 1)
  <1> DEFINE F == q.forwardLabels
             B == q.backLabels
             G == r.forwardLabels
             o == q.object
             u == r.object
             c == q.curSection
             name == F[i].label
             w == Void(name, line)
  <1>1. d \in Nat /\ d + 1 \in Nat /\ d + 1 \in 1..(d + 1)
    BY DEF Good
  <1>2. /\ IsSeq(F) /\ IsSeq(B) /\ IsSeq(G) /\ i \in DOMAIN F /\ HasGap(G, F, i)
        /\ r.backLabels = <<F[i]>> \o B /\ r.progressive = q.progressive
        /\ Typed(r) /\ IsTyped(u) /\ Kept(o, u) /\ c \in Sections
    BY DEF MovedFields, Typed
  <1>3. PICK k : AddedAt(o, u, c, k, w)
    BY DEF MovedFields
  <1>4. F[i].identifier = n
    <2>1. Len(F) \in Nat
      BY <1>2, SequenceOfItsElements DEF IsSeq
    <2> HIDE DEF F
    <2>2. QED BY <2>1, FindIs DEF F
  <1>5. PICK g \in Nat : g < q.progressive /\ name = LocalName(n, g)
    BY <1>2, <1>4 DEF Good, ForwardGood
  <1>6. Absent(o, name)
    BY <1>2 DEF Good, ForwardGood
  <1>7. \A j \in DOMAIN F : F[j].identifier = n => j = i
    BY <1>2, <1>4 DEF Good, ForwardGood
  <1>8. IsLocal(name)
    BY <1>5, NamesAreLocal
  <1> HIDE DEF name
  <1>9. w.label = name /\ w.line = d + 1 /\ w.class = "VOID"
    BY VoidIs
  <1>10. \A s \in Sections : GoodItem(s, w, d + 1)
    BY <1>1, VoidIs DEF GoodItem
  <1> HIDE DEF w, c, o, u, F, B, G
  <1>11. /\ \A l, e : l # name /\ DeclaredOn(o, l, e) => DeclaredOn(u, l, e)
         /\ \A l : l # name /\ Absent(o, l) => Absent(u, l)
         /\ DeclaredOn(u, name, d + 1)
    BY <1>2, <1>3, <1>6, <1>8, <1>9, MovedDeclared
  <1>12. \A l, e : DeclaredOn(o, l, e) => DeclaredOn(u, l, e)
    BY <1>6, <1>11, DeclaredIsThere
  <1>13. \A m : DeclaresIn(f, d + 1, m) => m = n
    BY DEF DeclaresIn, Constant
  <1>14. \A s \in Sections : \A j \in DOMAIN u[s] : (j \in DOMAIN o[s] /\ u[s][j] = o[s][j]) \/ u[s][j] = w
    BY <1>2, <1>3 DEF Kept, AddedAt
  <1>15. ItemsGood(u, d + 1)
    <2>1. \A j \in 1..d : j \in 1..(d + 1)
      BY <1>1
    <2>2. QED BY <2>1, <1>10, <1>14 DEF ItemsGood, GoodItem, Good, o
  <1>16. BackGood(f, r, d + 1)
    <2> SUFFICES ASSUME NEW m, Find(<<F[i]>> \o B, m) # 0
                 PROVE  \E y : Latest(f, y, d + 1, m) /\ DeclaredOn(u, (<<F[i]>> \o B)[Find(<<F[i]>> \o B, m)].label, y)
      BY <1>2 DEF BackGood, u
    <2>1. CASE m = n
      <3>1. Find(<<F[i]>> \o B, m) = 1
        BY <1>2, <1>4, <2>1, FindBefore
      <3>2. (<<F[i]>> \o B)[1] = F[i]
        BY <1>2, Before1
      <3>3. Latest(f, d + 1, d + 1, n)
        BY <1>1 DEF Latest
      <3>4. QED BY <2>1, <3>1, <3>2, <3>3, <1>11 DEF name
    <2>2. CASE m # n
      <3>1. Find(B, m) # 0 /\ (<<F[i]>> \o B)[Find(<<F[i]>> \o B, m)].label = B[Find(B, m)].label
        <4> DEFINE l == F[i]
        <4>1. l.identifier # m
          BY <1>4, <2>2
        <4> HIDE DEF l
        <4>2. Find(<<l>> \o B, m) # 0
          BY DEF l
        <4>3. Find(B, m) # 0 /\ (<<l>> \o B)[Find(<<l>> \o B, m)].label = B[Find(B, m)].label
          BY <1>2, <4>1, <4>2, FindBefore
        <4>4. QED BY <4>3 DEF l
      <3>2. PICK y : Latest(f, y, d, m) /\ DeclaredOn(o, B[Find(B, m)].label, y)
        BY <3>1 DEF Good, BackGood, B, o
      <3>3. Latest(f, y, d + 1, m)
        BY <3>2, <2>2, <1>1, <1>13, LatestStays
      <3>4. QED BY <3>1, <3>2, <3>3, <1>12
    <2>3. QED BY <2>1, <2>2
  <1>17. /\ \A a \in DOMAIN G : \E b \in DOMAIN F : b # i /\ G[a] = F[b]
         /\ \A b \in DOMAIN F : b # i => \E a \in DOMAIN G : G[a] = F[b]
         /\ \A a1, a2 \in DOMAIN G : a1 # a2 => \E b1, b2 \in DOMAIN F : b1 # b2 /\ G[a1] = F[b1] /\ G[a2] = F[b2]
    BY <1>2, OthersWait
  <1>18. ForwardGood(r)
    <2> SUFFICES ASSUME NEW a \in DOMAIN G
                 PROVE  /\ \E h \in Nat : h < q.progressive /\ G[a].label = LocalName(G[a].identifier, h)
                        /\ Absent(u, G[a].label)
                        /\ \A y \in DOMAIN G : G[y].identifier = G[a].identifier => y = a
      BY <1>2 DEF ForwardGood, G, u
    <2>1. PICK b \in DOMAIN F : b # i /\ G[a] = F[b]
      BY <1>17
    <2>2. PICK h \in Nat : h < q.progressive /\ F[b].label = LocalName(F[b].identifier, h)
      BY DEF Good, ForwardGood, F
    <2>3. Absent(o, F[b].label)
      BY DEF Good, ForwardGood, F, o
    <2>4. F[b].label # name
      BY <1>5, <1>7, <2>1, <2>2, NamesDiffer
    <2>5. \A b1, b2 \in DOMAIN F : F[b1].identifier = F[b2].identifier => b1 = b2
      BY DEF Good, ForwardGood, F
    <2>6. ASSUME NEW y \in DOMAIN G, G[y].identifier = G[a].identifier
          PROVE  y = a
      BY <1>17, <2>5, <2>6
    <2>7. QED BY <1>11, <2>1, <2>2, <2>3, <2>4, <2>6
  <1>19. Fresh(r)
    <2> SUFFICES ASSUME NEW m, NEW h \in Nat, ~(h < q.progressive)
                 PROVE  Absent(u, LocalName(m, h))
      BY <1>2 DEF Fresh, u
    <2>1. Absent(o, LocalName(m, h))
      BY DEF Good, Fresh, o
    <2>2. LocalName(m, h) # name
      BY <1>5, NamesDiffer
    <2>3. QED BY <2>1, <2>2, <1>11
  <1>20. ASSUME NEW l \in 1..d, NEW label, NEW m, RefersSoFar(f, q, d, l, label, m)
         PROVE  RefersSoFar(f, r, d + 1, l, label, m)
    <2>1. l \in Int
      OBVIOUS
    <2>2. CASE m < 0
      <3>1. PICK y : Latest(f, y, l, -m) /\ DeclaredOn(o, label, y)
        BY <1>20, <2>2 DEF RefersSoFar, o
      <3>2. QED BY <3>1, <2>2, <1>12 DEF RefersSoFar, u
    <2>3. CASE ~(m < 0) /\ \E y : Earliest(f, y, l, d, m) /\ DeclaredOn(o, label, y)
      <3>1. PICK y : Earliest(f, y, l, d, m) /\ DeclaredOn(o, label, y)
        BY <2>3
      <3>2. Earliest(f, y, l, d + 1, m)
        BY <3>1, <1>1, <2>1, EarliestStays
      <3>3. QED BY <3>1, <3>2, <2>3, <1>12 DEF RefersSoFar, u
    <2>4. CASE ~(m < 0) /\ (\A y \in (l + 1)..d : ~DeclaresIn(f, y, m)) /\ Waits(q, label, m)
      <3>1. PICK j \in DOMAIN F : F[j].identifier = m /\ F[j].label = label
        BY <2>4 DEF Waits, F
      <3>2. CASE m = n
        <4>1. label = name
          BY <1>7, <3>1, <3>2 DEF name
        <4>2. Earliest(f, d + 1, l, d + 1, m)
          <5>1. d + 1 \in (l + 1)..(d + 1) /\ (d + 1) - 1 = d
            BY <1>1
          <5>2. QED BY <5>1, <2>4, <3>2 DEF Earliest
        <4>3. QED BY <4>1, <4>2, <2>4, <1>11 DEF RefersSoFar, u
      <3>3. CASE m # n
        <4>1. j # i
          BY <1>4, <3>1, <3>3
        <4>2. \E a \in DOMAIN G : G[a] = F[j]
          BY <1>17, <4>1
        <4>3. Waits(r, label, m)
          BY <4>2, <3>1 DEF Waits, G
        <4>4. \A y \in (l + 1)..(d + 1) : ~DeclaresIn(f, y, m)
          BY <1>1, <1>13, <2>1, <2>4, <3>3, NoneSoFar
        <4>5. QED BY <4>3, <4>4, <2>4 DEF RefersSoFar
      <3>4. QED BY <3>2, <3>3
    <2>5. QED BY <1>20, <2>2, <2>3, <2>4 DEF RefersSoFar, o
  <1>21. RefsGood(f, r, d + 1)
    <2> SUFFICES ASSUME NEW s \in Sections, NEW j \in DOMAIN u[s] PROVE RefersWell(f, r, d + 1, u[s][j])
      BY DEF RefsGood, u
    <2>1. CASE u[s][j] = w
      BY <2>1, <1>9 DEF RefersWell
    <2>2. CASE j \in DOMAIN o[s] /\ u[s][j] = o[s][j]
      <3>1. RefersWell(f, q, d, o[s][j]) /\ o[s][j].line \in 1..d
        BY <2>2 DEF Good, RefsGood, ItemsGood, GoodItem, o
      <3>2. QED BY <2>2, <3>1, <1>20 DEF RefersWell
    <2>3. QED BY <1>14, <2>1, <2>2
  <1>22. QED BY <1>1, <1>2, <1>15, <1>16, <1>18, <1>19, <1>21 DEF Good, u

-----------------------------------------------------------------------------
(* A line *)

LEMMA PlainGood ==
  ASSUME NEW f, NEW p, NEW d, Good(f, p, d), d = line, d # 0, NEW r, AddsPlain(p, r)
  PROVE  Good(f, r, d)
  <1>1. d \in 1..d
    BY DEF Good
  <1>2. ~IsLocal(NoLabel)
    BY DEF IsLocal
  <1>3. ASSUME NEW s, NEW i, PlainItem(s, i)
        PROVE  NewItem(f, p, r, d, s, i)
    BY <1>1, <1>2, <1>3 DEF PlainItem, NewItem, GoodItem, ParsedItem, RefersWell
  <1>4. QED BY <1>3, ItemsMore DEF AddsPlain

LEMMA ReferencesInRest ==
  ASSUME NEW f, NEW d, NEW T, NEW tokens \in Seq(T), tokens # <<>>, NEW first \in Int, NEW second, second = first + 1,
         DOMAIN f[d] \subseteq Int, ReferencesIn(f, d, tokens, first), Kind(Head(tokens)) # "LOCAL_REF"
  PROVE  ReferencesIn(f, d, Tail(tokens), second)
  <1> DEFINE rest == Tail(tokens)
  <1>1. /\ DOMAIN tokens = 1..Len(tokens) /\ Len(tokens) \in Nat /\ Head(tokens) = tokens[1]
        /\ DOMAIN rest = 1..(Len(tokens) - 1) /\ \A k \in 1..(Len(tokens) - 1) : rest[k] = tokens[k + 1]
    OBVIOUS
  <1> HIDE DEF rest
  <1> SUFFICES ASSUME NEW k \in DOMAIN f[d], Kind(f[d][k]) = "LOCAL_REF"
               PROVE  k - second \in DOMAIN rest /\ rest[k - second] = f[d][k]
    BY DEF ReferencesIn, rest
  <1> DEFINE j == k - first
             y == k - second
  <1>2. j \in DOMAIN tokens /\ tokens[j] = f[d][k]
    BY DEF ReferencesIn
  <1>3. j # 1
    BY <1>1, <1>2
  <1>4. y + 1 = j /\ y \in Int /\ j \in Int
    OBVIOUS
  <1> HIDE DEF j, y
  <1>5. y \in 1..(Len(tokens) - 1)
    BY <1>1, <1>2, <1>3, <1>4
  <1>6. QED BY <1>1, <1>2, <1>4, <1>5 DEF y

\* What there is of a parser after part of a line
GoodSoFar(f, p, d) == IsParser(p) /\ (Fine(p) => Good(f, p, d))

LEMMA ContentGood ==
  ASSUME NEW f, NEW d, d = line, d # 0, DOMAIN f[d] \subseteq Int, NEW p, GoodSoFar(f, p, d),
         NEW tokens, IsLine(tokens), tokens # <<>>, NEW first \in Int, ReferencesIn(f, d, tokens, first)
  PROVE  GoodSoFar(f, expectLineContent(p, tokens), d)
  <1> DEFINE r == expectLineContent(p, tokens)
  <1>1. ContentAdded(p, r, tokens)
    BY ContentLine DEF GoodSoFar
  <1> HIDE DEF r
  <1>2. ASSUME Fine(r)
        PROVE  Good(f, r, d)
    <2>1. Good(f, p, d) /\ Typed(p)
      BY <1>1, <1>2 DEF ContentAdded, GoodSoFar, Good
    <2>2. CASE AddsPlain(p, r)
      BY <2>1, <2>2, PlainGood
    <2>3. CASE Kind(Head(tokens)) = "MNEMONIC" /\ InstructionAdded(p, r, Tail(tokens))
      <3>1. tokens \in Seq(Range(tokens))
        BY DEF IsLine
      <3>2. ReferencesIn(f, d, Tail(tokens), first + 1)
        BY <2>3, <3>1, ReferencesInRest
      <3>3. first + 1 \in Int
        OBVIOUS
      <3>4. QED BY <2>1, <2>3, <3>2, <3>3, InstructionGood
    <2>4. QED BY <1>1, <1>2, <2>1, <2>2, <2>3 DEF ContentAdded
  <1>3. QED BY <1>1, <1>2 DEF GoodSoFar, ContentAdded, r

LEMMA AfterLabelGood ==
  ASSUME NEW f, NEW d, d = line, d # 0, DOMAIN f[d] \subseteq Int, NEW p, GoodSoFar(f, p, d),
         NEW tokens, IsLine(tokens), NEW first \in Int, ReferencesIn(f, d, tokens, first)
  PROVE  GoodSoFar(f, AfterLabel(p, tokens), d)
  BY ContentGood DEF AfterLabel

\* A local label
LEMMA LocalGood ==
  ASSUME NEW f, NEW d \in Nat, line = d + 1, NEW p, GoodSoFar(f, p, d), NEW n, DeclaresIn(f, d + 1, n)
  PROVE  GoodSoFar(f, parserDeclareLocalLabel(p, n), d + 1)
  <1> DEFINE q == parserGetLocalLabel(p, n)
             i == Find(q.forwardLabels, n)
             l == q.forwardLabels[i]
             v == [q EXCEPT !.forwardLabels = RemoveAt(@, i), !.backLabels = <<l>> \o @]
             r == parserDeclareLocalLabel(p, n)
  <1>1. r = Emit(v, Void(l.label, line))
    BY DEF parserDeclareLocalLabel
  <1>2. IsParser(q) /\ (Fine(q) => Fine(p))
    BY LocalLabelIs DEF GoodSoFar
  <1>3. ASSUME Good(f, p, d)
        PROVE  Good(f, q, d) /\ i # 0
    BY <1>3, LocalLabelGood
  <1> HIDE DEF q, r
  <1>4. IsParser(v) /\ (Fine(v) => Fine(q))
    BY <1>2 DEF IsParser, ParserFields, Fine
  <1>5. IsParser(r) /\ (Fine(r) => Fine(v))
    <2> HIDE DEF v
    <2>1. QED BY <1>1, <1>4, EmitIs
  <1>6. ASSUME Fine(r)
        PROVE  Good(f, r, d + 1)
    <2>1. Good(f, p, d)
      BY <1>2, <1>4, <1>5, <1>6 DEF GoodSoFar
    <2>2. Good(f, q, d) /\ i # 0 /\ Typed(q)
      BY <2>1, <1>3 DEF Good
    <2>3. Len(q.forwardLabels) \in Nat /\ DOMAIN q.forwardLabels = 1..Len(q.forwardLabels)
      BY <2>2, SequenceOfItsElements DEF Typed, IsSeq
    <2>4. i \in DOMAIN q.forwardLabels
      BY <2>2, <2>3, FindIs
    <2> DEFINE w == v
               k == i
    <2> HIDE DEF k, i
    <2>5. l = q.forwardLabels[i] /\ v = [q EXCEPT !.forwardLabels = RemoveAt(@, i), !.backLabels = <<l>> \o @]
      OBVIOUS
    <2> HIDE DEF l, v
    <2>6. MovedFields(q, r, i)
      BY <1>1, <2>2, <2>4, <2>5, MovedIs
    <2>7. i = Find(q.forwardLabels, n)
      BY DEF i
    <2>8. QED BY <2>2, <2>6, <2>7, DeclarationGood
  <1>7. QED BY <1>5, <1>6 DEF GoodSoFar, r

\* A named label
LEMMA NamedGood ==
  ASSUME NEW f, NEW d, d = line, d # 0, NEW p, GoodSoFar(f, p, d), NEW label, label[1] # ".local"
  PROVE  GoodSoFar(f, DeclareNamed(p, label), d)
  <1> DEFINE w == Void(label, line)
             r == Emit(p, w)
  <1>1. CASE IsDeclared(p.object, label)
    <2>1. DeclareNamed(p, label) = parserEmitError(p)
      BY <1>1 DEF DeclareNamed
    <2>2. QED BY <2>1, ErrorsStay DEF GoodSoFar
  <1>2. CASE ~IsDeclared(p.object, label)
    <2>1. DeclareNamed(p, label) = r
      BY <1>2 DEF DeclareNamed
    <2>2. w.label = label /\ w.class = "VOID" /\ w.line = d /\ \A s \in Sections : WellFormedItem(s, w) /\ ParsedItem(w)
      BY VoidIs
    <2> HIDE DEF w
    <2>3. IsParser(r) /\ (Fine(r) => Fine(p))
      BY EmitIs DEF GoodSoFar
    <2> HIDE DEF r
    <2>4. ASSUME Fine(r)
          PROVE  Good(f, r, d)
      <3>1. Good(f, p, d) /\ Typed(p) /\ d \in 1..d
        BY <2>3, <2>4 DEF GoodSoFar, Good
      <3>2. OneMoreItem(p, r, w)
        BY <3>1, EmitAdds DEF r
      <3>3. \A s \in Sections : NewItem(f, p, r, d, s, w)
        BY <2>2, <3>1 DEF NewItem, GoodItem, IsLocal, RefersWell
      <3>4. QED BY <3>1, <3>2, <3>3, ItemsMore DEF OneMoreItem
    <2>5. QED BY <2>1, <2>3, <2>4 DEF GoodSoFar
  <1>3. QED BY <1>1, <1>2

LEMMA AlikeGood ==
  ASSUME NEW f, NEW d, NEW p, GoodSoFar(f, p, d), NEW r, IsParser(r), Fine(r) => Fine(p),
         r.object = p.object, r.backLabels = p.backLabels, r.forwardLabels = p.forwardLabels,
         r.progressive = p.progressive, r.curSection = p.curSection \/ r.curSection \in Sections
  PROVE  GoodSoFar(f, r, d)
  <1>1. ASSUME Good(f, p, d)
        PROVE  Good(f, r, d)
    <2>1. Typed(r)
      BY <1>1 DEF Good, Typed
    <2>2. \A l, label, n : RefersSoFar(f, p, d, l, label, n) => RefersSoFar(f, r, d, l, label, n)
      BY DEF RefersSoFar, Waits
    <2>3. RefsGood(f, r, d)
      BY <1>1, <2>2 DEF Good, RefsGood, RefersWell
    <2>4. BackGood(f, r, d) /\ ForwardGood(r) /\ Fresh(r)
      BY <1>1 DEF Good, BackGood, ForwardGood, Fresh
    <2>5. QED BY <1>1, <2>1, <2>3, <2>4 DEF Good
  <1>2. QED BY <1>1 DEF GoodSoFar

LEMMA SectionGood ==
  ASSUME NEW f, NEW d, NEW p, GoodSoFar(f, p, d), NEW s \in Sections
  PROVE  GoodSoFar(f, [p EXCEPT !.curSection = s], d)
  <1> DEFINE r == [p EXCEPT !.curSection = s]
  <1>1. /\ IsParser(r) /\ r.object = p.object /\ r.backLabels = p.backLabels /\ r.forwardLabels = p.forwardLabels
        /\ r.progressive = p.progressive /\ r.curSection = s /\ (Fine(r) => Fine(p))
    BY DEF GoodSoFar, IsParser, ParserFields, Fine
  <1> HIDE DEF r
  <1>2. GoodSoFar(f, r, d)
    BY <1>1, AlikeGood
  <1>3. QED BY <1>2 DEF r

LEMMA NoDeclarationGood ==
  ASSUME NEW f, NEW d \in Nat, NEW p, GoodSoFar(f, p, d), \A n : ~DeclaresIn(f, d + 1, n)
  PROVE  GoodSoFar(f, p, d + 1)
  BY OneLineMore DEF GoodSoFar

LEMMA EndGood ==
  ASSUME NEW f, NEW d, NEW p, GoodSoFar(f, p, d), NEW tokens
  PROVE  GoodSoFar(f, EndOfLine(p, tokens), d) /\ GoodSoFar(f, SyntaxError(p), d)
  <1>1. IsParser(p)
    BY DEF GoodSoFar
  <1>2. GoodSoFar(f, EndOfLine(p, tokens), d)
    BY <1>1, EndOfLineIs DEF GoodSoFar
  <1>3. GoodSoFar(f, SyntaxError(p), d)
    BY <1>1, ErrorsStay DEF GoodSoFar
  <1>4. QED BY <1>2, <1>3

LEMMA LineGood ==
  ASSUME NEW f, NEW d \in Nat, line = d + 1, NEW p, GoodSoFar(f, p, d), NEW tokens, tokens = f[d + 1], IsLine(tokens)
  PROVE  GoodSoFar(f, expectLine(p, tokens), d + 1)
  <1> DEFINE kind == Kind(Head(tokens))
             rest == Tail(tokens)
             r    == expectLine(p, tokens)
  <1>1. tokens \in Seq(Range(tokens)) /\ DOMAIN tokens = 1..Len(tokens) /\ Len(tokens) \in Nat
    BY SequenceOfItsElements DEF IsLine
  <1>2. DOMAIN f[d + 1] \subseteq Int /\ d + 1 # 0
    BY <1>1
  <1>3. ReferencesIn(f, d + 1, tokens, 0)
    <2>1. \A k \in DOMAIN tokens : k - 0 = k
      BY <1>1
    <2>2. QED BY <2>1 DEF ReferencesIn
  <1>4. CASE tokens = <<>>
    <2>1. ~Declaration(f[d + 1])
      BY <1>1, <1>4 DEF Declaration
    <2>2. \A n : ~DeclaresIn(f, d + 1, n)
      BY <2>1 DEF DeclaresIn
    <2>3. r = p
      BY <1>4 DEF expectLine
    <2>4. QED BY <2>2, <2>3, NoDeclarationGood
  <1>5. CASE tokens # <<>>
    <2>1. IsLine(rest) /\ IsToken(Head(tokens)) /\ Head(tokens) = tokens[1] /\ 1 \in DOMAIN tokens
      BY <1>1, <1>5, LineOfRest
    <2>2. ASSUME kind # "NUMBER" \/ ~Declaration(tokens)
          PROVE  GoodSoFar(f, p, d + 1)
      <3>1. \A n : ~DeclaresIn(f, d + 1, n)
        BY <2>1, <2>2 DEF DeclaresIn, Constant, Kind
      <3>2. QED BY <3>1, NoDeclarationGood
    <2>3. ASSUME Declaration(tokens), kind \in {"NUMBER", "ID"}
          PROVE  IsLine(Tail(rest)) /\ ReferencesIn(f, d + 1, Tail(rest), 2)
      <3>1. Len(tokens) > 1 /\ tokens[2] = <<":">>
        BY <2>3 DEF Declaration
      <3>2. rest # <<>> /\ Head(rest) = <<":">> /\ rest \in Seq(Range(tokens))
        <4> DEFINE T == Range(tokens)
        <4> HIDE DEF T
        <4>1. tokens \in Seq(T)
          BY <1>1 DEF T
        <4>2. rest \in Seq(T) /\ Len(rest) = Len(tokens) - 1 /\ rest[1] = tokens[2]
          BY <3>1, <4>1
        <4> HIDE DEF rest
        <4>3. Head(rest) = rest[1] /\ Len(rest) # 0
          BY <1>1, <3>1, <4>2
        <4>4. QED BY <3>1, <4>2, <4>3 DEF T
      <3>3. Kind(Head(rest)) # "LOCAL_REF" /\ Kind(Head(tokens)) # "LOCAL_REF"
        BY <2>3, <3>2 DEF Kind
      <3>4. 1 = 0 + 1 /\ 2 = 1 + 1
        OBVIOUS
      <3>5. ReferencesIn(f, d + 1, rest, 1)
        <4> DEFINE e == d + 1
                   T == Range(tokens)
        <4> HIDE DEF e, T
        <4>1. DOMAIN f[e] \subseteq Int /\ ReferencesIn(f, e, tokens, 0)
          BY <1>2, <1>3 DEF e
        <4>2. tokens \in Seq(T) /\ tokens # <<>> /\ Kind(Head(tokens)) # "LOCAL_REF" /\ 0 \in Int
          BY <1>1, <1>5, <3>3 DEF T
        <4>3. ReferencesIn(f, e, Tail(tokens), 1)
          BY <3>4, <4>1, <4>2, ReferencesInRest
        <4>4. QED BY <4>3 DEF e
      <3> HIDE DEF rest
      <3>7. ReferencesIn(f, d + 1, Tail(rest), 2)
        BY <1>2, <3>2, <3>3, <3>4, <3>5, ReferencesInRest
      <3>8. IsLine(Tail(rest))
        BY <2>1, <3>2, LineOfRest
      <3>9. QED BY <3>7, <3>8
    <2> HIDE DEF rest
    <2>4. CASE kind \in {".text", ".data"}
      <3> DEFINE q == [p EXCEPT !.curSection = IF kind = ".text" THEN "text" ELSE "data"]
      <3>1. r = EndOfLine(q, rest)
        BY <1>5, <2>4 DEF expectLine, rest
      <3>2. (IF kind = ".text" THEN "text" ELSE "data") \in Sections
        BY DEF Sections
      <3>3. GoodSoFar(f, q, d + 1)
        BY <2>2, <2>4, <3>2, SectionGood
      <3> HIDE DEF q, r
      <3>4. GoodSoFar(f, r, d + 1)
        BY <3>1, <3>3, EndGood
      <3>5. QED BY <3>4 DEF r
    <2>5. CASE kind = ".global"
      <3>1. r = EndOfLine(p, Tail(rest)) \/ r = SyntaxError(p)
        BY <1>5, <2>5 DEF expectLine, rest
      <3>2. GoodSoFar(f, p, d + 1)
        BY <2>2, <2>5
      <3>3. QED BY <3>1, <3>2, EndGood
    <2>6. CASE kind = "NUMBER"
      <3> DEFINE n == Head(tokens)[2]
                 q == parserDeclareLocalLabel(p, n)
      <3>1. CASE n < 0 \/ ~Declaration(tokens)
        <4>1. r = SyntaxError(p)
          BY <1>5, <2>6, <3>1 DEF expectLine
        <4>2. IsParser(r) /\ ~Fine(r)
          BY <4>1, ErrorsStay DEF GoodSoFar
        <4>3. QED BY <4>2 DEF GoodSoFar
      <3>2. CASE ~(n < 0) /\ Declaration(tokens)
        <4>1. r = AfterLabel(q, Tail(rest))
          BY <1>5, <2>6, <3>2 DEF expectLine, rest
        <4>2. DeclaresIn(f, d + 1, n)
          BY <2>1, <2>6, <3>2 DEF DeclaresIn, IsToken
        <4>3. GoodSoFar(f, q, d + 1)
          <5> HIDE DEF n
          <5>1. QED BY <4>2, LocalGood
        <4>4. IsLine(Tail(rest)) /\ ReferencesIn(f, d + 1, Tail(rest), 2)
          BY <2>3, <2>6, <3>2
        <4> HIDE DEF q, r
        <4>5. GoodSoFar(f, r, d + 1)
          BY <1>2, <4>1, <4>3, <4>4, AfterLabelGood
        <4>6. QED BY <4>5 DEF r
      <3>3. QED BY <3>1, <3>2
    <2>7. CASE kind = "ID"
      <3> DEFINE label == Head(tokens)[2]
                 q == DeclareNamed(p, label)
      <3>1. GoodSoFar(f, p, d + 1)
        BY <2>2, <2>7
      <3>2. CASE ~Declaration(tokens)
        <4>1. r = SyntaxError(p)
          BY <1>5, <2>7, <3>2 DEF expectLine
        <4>2. QED BY <3>1, <4>1, EndGood
      <3>3. CASE Declaration(tokens)
        <4>1. r = AfterLabel(q, Tail(rest))
          BY <1>5, <2>7, <3>3 DEF expectLine, rest
        <4>2. label[1] # ".local"
          BY <2>1, <2>7 DEF IsToken
        <4>3. GoodSoFar(f, q, d + 1)
          <5> HIDE DEF label
          <5>1. QED BY <1>2, <3>1, <4>2, NamedGood
        <4>4. IsLine(Tail(rest)) /\ ReferencesIn(f, d + 1, Tail(rest), 2)
          BY <2>3, <2>7, <3>3
        <4> HIDE DEF q, r
        <4>5. GoodSoFar(f, r, d + 1)
          BY <1>2, <4>1, <4>3, <4>4, AfterLabelGood
        <4>6. QED BY <4>5 DEF r
      <3>4. QED BY <3>2, <3>3
    <2>8. CASE kind \notin {".text", ".data", ".global", "NUMBER", "ID"}
      <3>1. r = expectLineContent(p, tokens)
        BY <1>5, <2>8 DEF expectLine
      <3>2. GoodSoFar(f, p, d + 1)
        BY <2>2, <2>8
      <3> HIDE DEF r
      <3>3. GoodSoFar(f, r, d + 1)
        BY <1>2, <1>3, <1>5, <3>1, <3>2, ContentGood
      <3>4. QED BY <3>3 DEF r
    <2>9. QED BY <2>4, <2>5, <2>6, <2>7, <2>8
  <1>6. QED BY <1>4, <1>5

-----------------------------------------------------------------------------
(* Files *)

LayoutPhases == {"expand", "address", "resolve", "encode", "elf", "load"}

\* A file is read line by line, and makes an object that the layout starts from.
FileInvariant ==
  /\ phase \in {"compile", "write"} => line = 1 /\ parser = InitialParser
  /\ phase \in {"compile", "write", "parse"} => LayoutInit
  /\ phase = "parse" => ~parser.crashed
  /\ phase = "parse" /\ IsFile(file) => line \in 1..(Len(file) + 1) /\ GoodSoFar(file, parser, line - 1)
  /\ phase \in LayoutPhases /\ IsFile(file) => References

LEMMA InitialGood ==
  ASSUME NEW f
  PROVE  GoodSoFar(f, InitialParser, 0) /\ ~InitialParser.crashed
  <1> DEFINE p == InitialParser
  <1>1. /\ IsParser(p) /\ p.object = newObject /\ p.curSection = "text" /\ ~p.crashed
        /\ p.backLabels = <<>> /\ p.forwardLabels = <<>> /\ p.progressive = 0
    BY DEF InitialParser, IsParser, ParserFields
  <1> HIDE DEF p
  <1>2. DOMAIN p.object = Sections /\ \A s \in Sections : p.object[s] = <<>>
    BY <1>1 DEF newObject
  <1>3. IsSeq(<<>>) /\ DOMAIN <<>> = {}
    BY DEF IsSeq
  <1>4. Typed(p)
    BY <1>1, <1>2, <1>3 DEF Typed, IsTyped, Sections
  <1>5. \A n : Find(<<>>, n) = 0
    <2>1. ASSUME NEW n, Find(<<>>, n) # 0 PROVE FALSE
      <3>1. Len(<<>>) \in Nat /\ Len(<<>>) = 0
        OBVIOUS
      <3>2. Find(<<>>, n) \in 1..Len(<<>>)
        BY <2>1, <3>1, FindIs
      <3>3. QED BY <3>1, <3>2
    <2>2. QED BY <2>1
  <1>6. BackGood(f, p, 0) /\ ForwardGood(p)
    BY <1>1, <1>3, <1>5 DEF BackGood, ForwardGood
  <1>7. ItemsGood(p.object, 0) /\ Fresh(p) /\ RefsGood(f, p, 0)
    BY <1>2, <1>3 DEF ItemsGood, Fresh, Absent, RefsGood
  <1>8. Good(f, p, 0)
    BY <1>4, <1>6, <1>7 DEF Good
  <1>9. QED BY <1>1, <1>8 DEF GoodSoFar, p

LEMMA FileStarts == Init => FileInvariant
  <1> SUFFICES ASSUME Init PROVE FileInvariant
    OBVIOUS
  <1>1. line = 1 /\ parser = InitialParser /\ LayoutInit /\ phase \in {"compile", "parse"}
    BY DEF Init
  <1>2. IsFile(file) => 1 \in 1..(Len(file) + 1)
    BY DEF IsFile
  <1>3. GoodSoFar(file, InitialParser, 0) /\ ~InitialParser.crashed
    BY InitialGood
  <1>4. 1 - 1 = 0
    OBVIOUS
  <1>5. QED BY <1>1, <1>2, <1>3, <1>4 DEF FileInvariant, LayoutPhases

LEMMA ParseStep == FileInvariant /\ Parse => FileInvariant'
  <1> SUFFICES ASSUME FileInvariant, Parse PROVE FileInvariant'
    OBVIOUS
  <1> DEFINE p == [parser EXCEPT !.failed = FALSE]
             d == line - 1
  <1>1. /\ phase = "parse" /\ line <= Len(file) /\ parser' = expectLine(p, file[line]) /\ line' = line + 1
        /\ file' = file /\ phase' \in {"crashed", "rejected", "parse"} /\ (phase' = "parse" => ~parser'.crashed)
        /\ UNCHANGED layoutVars
    BY DEF Parse, ParseLine
  <1>2. LayoutInit'
    BY <1>1 DEF FileInvariant, LayoutInit, layoutVars
  <1>3. ASSUME IsFile(file)
        PROVE  line' \in 1..(Len(file) + 1) /\ GoodSoFar(file, parser', line' - 1)
    <2>1. line \in 1..(Len(file) + 1) /\ GoodSoFar(file, parser, d)
      BY <1>1, <1>3 DEF FileInvariant
    <2>2. file \in Seq(Range(file)) /\ \A tokens \in Range(file) : IsLine(tokens)
      BY <1>3 DEF IsFile
    <2>3. Len(file) \in Nat /\ DOMAIN file = 1..Len(file)
      BY <2>2, SequenceOfItsElements
    <2>4. d \in Nat /\ line = d + 1 /\ line \in DOMAIN file /\ line' \in 1..(Len(file) + 1) /\ line' - 1 = d + 1
      BY <1>1, <2>1, <2>3
    <2>5. IsLine(file[line])
      BY <2>2, <2>4 DEF Range
    <2>6. GoodSoFar(file, p, d)
      <3>1. /\ IsParser(p) /\ p.object = parser.object /\ p.curSection = parser.curSection
            /\ p.backLabels = parser.backLabels /\ p.forwardLabels = parser.forwardLabels
            /\ p.progressive = parser.progressive /\ (Fine(p) => Fine(parser))
        BY <2>1 DEF GoodSoFar, IsParser, ParserFields, Fine
      <3> HIDE DEF p, d
      <3>2. QED BY <2>1, <3>1, AlikeGood
    <2> HIDE DEF p, d
    <2>7. GoodSoFar(file, expectLine(p, file[line]), d + 1)
      BY <2>4, <2>5, <2>6, LineGood
    <2>8. QED BY <1>1, <2>4, <2>7
  <1>4. QED BY <1>1, <1>2, <1>3 DEF FileInvariant, LayoutPhases

LEMMA EndOfFileStep == FileInvariant /\ EndOfFile => FileInvariant'
  <1> SUFFICES ASSUME FileInvariant, EndOfFile PROVE FileInvariant'
    OBVIOUS
  <1>1. /\ phase = "parse" /\ line > Len(file) /\ UNCHANGED <<file, line, parser, sec, pos, curAddr, start, size, fileOffset>>
        /\ \/ phase' = "rejected"
           \/ phase' = "expand" /\ object' = parser.object /\ ~(parser.numErrors > 0)
    BY DEF EndOfFile, parserVars
  <1>2. CASE phase' = "rejected"
    BY <1>2 DEF FileInvariant, LayoutPhases
  <1>3. CASE phase' = "expand" /\ object' = parser.object /\ ~(parser.numErrors > 0)
    <2>1. ASSUME IsFile(file)
          PROVE  References'
      <3>1. GoodSoFar(file, parser, line - 1) /\ ~parser.crashed
        BY <1>1, <2>1 DEF FileInvariant
      <3>2. Good(file, parser, line - 1)
        BY <1>3, <3>1 DEF GoodSoFar, Fine, IsParser
      <3>3. IsTyped(parser.object) /\ ItemsGood(parser.object, line - 1)
        BY <3>2 DEF Good, Typed
      <3>4. ItemsWellFormed' /\ ReferencesFit'
        BY <1>3, <3>3 DEF ItemsWellFormed, ReferencesFit, IsTyped, IsSeq, ItemsGood, GoodItem, Range
      <3>5. LayoutInit'
        BY <1>1 DEF FileInvariant, LayoutInit
      <3>6. (phase = "expand" /\ LayoutInit /\ ItemsWellFormed /\ ReferencesFit => References)'
        BY ReferencesStart, PTL
      <3>7. QED BY <1>3, <3>4, <3>5, <3>6
    <2>2. QED BY <1>1, <1>3, <2>1 DEF FileInvariant, LayoutPhases
  <1>4. QED BY <1>1, <1>2, <1>3

LEMMA LayStep == FileInvariant /\ (Lay \/ Boot) => FileInvariant'
  <1> SUFFICES ASSUME FileInvariant, Lay \/ Boot PROVE FileInvariant'
    OBVIOUS
  <1>1. LayoutNext \/ Load
    BY DEF Lay, Boot
  <1>2. phase \in LayoutPhases /\ phase' \notin {"compile", "write", "parse"} /\ file' = file
    <2>1. file' = file
      BY DEF Lay, Boot, parserVars
    <2>2. phase \in LayoutPhases /\ phase' \notin {"compile", "write", "parse"}
      BY <1>1 DEF LayoutNext, Expand, Expanded, Place, AllPlaced, Resolve, AllResolved, Encode, AllEncoded, Write,
                  SectionWritten, Load, EndOfSection, AtItem, LayoutPhases
    <2>3. QED BY <2>1, <2>2
  <1>3. References => References'
    BY <1>1, ReferencesStep
  <1>4. QED BY <1>2, <1>3 DEF FileInvariant

LEMMA FileStep == FileInvariant /\ [Next]_vars => FileInvariant'
  <1> SUFFICES ASSUME FileInvariant, [Next]_vars PROVE FileInvariant'
    OBVIOUS
  <1>1. CASE Compile
    <2>1. UNCHANGED <<file, line, parser, sec, pos, curAddr, object, start, size, fileOffset>>
      BY <1>1 DEF Compile, parserVars, layoutVars
    <2>2. phase = "compile" /\ phase' \in {"compile", "error", "write"}
      BY <1>1 DEF Compile, CompilerNext, Declare, Undeclared, Number, Variable, Element, Unary, Binary, Logical, Assign,
                  AssignElement, If, Else, EndIf, While, WhileCondition, EndWhile, Do, DoWhile, Return, Read, WriteOut,
                  EndOfProgram, Uses, At, NextMark
    <2>3. QED BY <2>1, <2>2 DEF FileInvariant, LayoutPhases, LayoutInit
  <1>2. CASE WriteFile
    <2>1. /\ phase = "write" /\ phase' = "parse"
          /\ UNCHANGED <<line, parser, sec, pos, curAddr, object, start, size, fileOffset>>
      BY <1>2 DEF WriteFile, layoutVars
    <2>2. line' = 1 /\ parser' = InitialParser /\ LayoutInit'
      BY <2>1 DEF FileInvariant, LayoutInit
    <2>3. GoodSoFar(file', InitialParser, 0) /\ ~InitialParser.crashed
      BY InitialGood
    <2>4. IsFile(file') => 1 \in 1..(Len(file') + 1)
      BY DEF IsFile
    <2>5. 1 - 1 = 0
      OBVIOUS
    <2>6. QED BY <2>1, <2>2, <2>3, <2>4, <2>5 DEF FileInvariant, LayoutPhases
  <1>3. CASE Run
    <2>1. phase \notin {"compile", "write", "parse"} /\ phase' \in {"run", "exited", "fault"}
      BY <1>3 DEF Run, Compute, LoadWord, StoreWord, Jump, Branch, PrintInt, PrintChar, ReadInt, Exit, Fault, Calls,
                  RunningOn, Running
    <2>2. QED BY <2>1 DEF FileInvariant, LayoutPhases
  <1>4. CASE Finished \/ UNCHANGED vars
    <2>1. UNCHANGED <<phase, file, line, parser, sec, pos, curAddr, object, start, size, fileOffset>>
      BY <1>4 DEF Finished, vars, parserVars, layoutVars
    <2>2. References => References'
      BY <2>1, ReferencesStep DEF layoutVars
    <2>3. QED BY <2>1, <2>2 DEF FileInvariant, LayoutInit
  <1>5. QED BY <1>1, <1>2, <1>3, <1>4, ParseStep, EndOfFileStep, LayStep DEF Next

-----------------------------------------------------------------------------
(* Local labels of a file that was read *)

LEMMA DeclarationFound ==
  ASSUME NEW o, NEW label, NEW e, DeclaredOn(o, label, e)
  PROVE  IsDeclared(o, label) /\ ItemAt(o, PlaceOf(o, label)).line = e
  <1>1. PICK u \in Sections : \E i \in DOMAIN o[u] : OnlyAt(o, label, u, i) /\ o[u][i].line = e
    BY DEF DeclaredOn
  <1>2. PICK i \in DOMAIN o[u] : OnlyAt(o, label, u, i) /\ o[u][i].line = e
    BY <1>1
  <1>3. \A q : q \in PlacesOf(o, label) <=> q = <<u, i>>
    <2>1. \A q : q \in PlacesOf(o, label) <=>
                  \E v \in Sections : \E j \in DOMAIN o[v] : o[v][j].label = label /\ q = <<v, j>>
      BY DEF PlacesOf
    <2>2. QED BY <1>2, <2>1 DEF OnlyAt
  <1>4. PlaceOf(o, label) = <<u, i>> /\ IsDeclared(o, label)
    BY <1>3 DEF PlaceOf, IsDeclared
  <1>5. QED BY <1>2, <1>4 DEF ItemAt

LEMMA DeclarationMissing ==
  ASSUME NEW o, NEW label, Absent(o, label)
  PROVE  ~IsDeclared(o, label)
  BY DEF Absent, IsDeclared, PlacesOf

LEMMA LastDeclaration ==
  ASSUME NEW f, NEW k, NEW l \in Nat, NEW n, Latest(f, k, l, n)
  PROVE  Max({j \in 1..l : DeclaresIn(f, j, n)}) = k
  <1> DEFINE Q == {j \in 1..l : DeclaresIn(f, j, n)}
  <1>1. k \in Q /\ k \in Int
    BY DEF Latest
  <1>2. \A j \in Q : k >= j
    BY <1>1 DEF Latest
  <1>3. \A j \in Q : j \in Int
    OBVIOUS
  <1> HIDE DEF Q
  <1>4. \A z \in Q : (\A j \in Q : z >= j) => z = k
    BY <1>1, <1>2, <1>3
  <1>5. Max(Q) \in Q /\ \A j \in Q : Max(Q) >= j
    BY <1>1, <1>2 DEF Max
  <1>6. QED BY <1>4, <1>5 DEF Q

LEMMA FirstDeclaration ==
  ASSUME NEW f, NEW k, NEW l \in Nat, NEW d \in Nat, NEW n, Earliest(f, k, l, d, n)
  PROVE  Min({j \in (l + 1)..d : DeclaresIn(f, j, n)}) = k
  <1> DEFINE Q == {j \in (l + 1)..d : DeclaresIn(f, j, n)}
  <1>1. k \in Q /\ k \in Int
    BY DEF Earliest
  <1>2. \A j \in Q : k =< j
    BY <1>1 DEF Earliest
  <1>3. \A j \in Q : j \in Int
    OBVIOUS
  <1> HIDE DEF Q
  <1>4. \A z \in Q : (\A j \in Q : z =< j) => z = k
    BY <1>1, <1>2, <1>3
  <1>5. Min(Q) \in Q /\ \A j \in Q : Min(Q) =< j
    BY <1>1, <1>2 DEF Min
  <1>6. QED BY <1>4, <1>5 DEF Q

\* A reference of a file that was read to its end
LEMMA ReferenceFound ==
  ASSUME NEW d, d = Len(file), d \in Nat, NEW l \in 1..d, NEW label, NEW n \in Int, n # 0,
         ForwardGood(parser), RefersSoFar(file, parser, d, l, label, n)
  PROVE  RefersTo(l, label, n)
  <1>1. \A k, m : Declares(k, m) <=> DeclaresIn(file, k, m)
    BY DEF Declares, DeclaresIn
  <1>2. CASE n < 0 /\ \E k : Latest(file, k, l, -n) /\ DeclaredOn(parser.object, label, k)
    <2>1. PICK k : Latest(file, k, l, -n) /\ DeclaredOn(parser.object, label, k)
      BY <1>2
    <2>2. NearestLine(l, n) = Max({j \in 1..l : DeclaresIn(file, j, -n)})
      BY <1>1, <1>2 DEF NearestLine
    <2>3. Max({j \in 1..l : DeclaresIn(file, j, -n)}) = k
      BY <2>1, LastDeclaration
    <2>4. IsDeclared(parser.object, label) /\ ItemAt(parser.object, PlaceOf(parser.object, label)).line = k
      BY <2>1, DeclarationFound
    <2>5. ~(n > 0)
      BY <1>2
    <2>6. QED BY <2>2, <2>3, <2>4, <2>5 DEF RefersTo
  <1>3. CASE ~(n < 0) /\ \E k : Earliest(file, k, l, d, n) /\ DeclaredOn(parser.object, label, k)
    <2>1. PICK k : Earliest(file, k, l, d, n) /\ DeclaredOn(parser.object, label, k)
      BY <1>3
    <2>2. NearestLine(l, n) = Min({j \in (l + 1)..d : DeclaresIn(file, j, n)})
      BY <1>1, <1>3 DEF NearestLine
    <2>3. Min({j \in (l + 1)..d : DeclaresIn(file, j, n)}) = k
      <3>1. l \in Nat
        OBVIOUS
      <3>2. QED BY <2>1, <3>1, FirstDeclaration
    <2>4. IsDeclared(parser.object, label) /\ ItemAt(parser.object, PlaceOf(parser.object, label)).line = k
      BY <2>1, DeclarationFound
    <2>5. k \in (l + 1)..Len(file) /\ Declares(k, n)
      BY <1>1, <2>1 DEF Earliest
    <2>6. QED BY <2>2, <2>3, <2>4, <2>5 DEF RefersTo
  <1>4. CASE ~(n < 0) /\ (\A k \in (l + 1)..d : ~DeclaresIn(file, k, n)) /\ Waits(parser, label, n)
    <2>1. ~IsDeclared(parser.object, label)
      <3>1. Absent(parser.object, label)
        BY <1>4 DEF Waits, ForwardGood
      <3>2. QED BY <3>1, DeclarationMissing
    <2>2. n > 0 /\ \A k \in (l + 1)..Len(file) : ~Declares(k, n)
      BY <1>1, <1>4
    <2>3. QED BY <2>1, <2>2 DEF RefersTo
  <1>5. QED BY <1>2, <1>3, <1>4 DEF RefersSoFar

LEMMA FilesLabels == FileInvariant /\ IsFile(file) => LocalLabelsNearest
  <1> SUFFICES ASSUME FileInvariant, IsFile(file), phase = "parse", line > Len(file), parser.numErrors = 0
               PROVE  \A s \in Sections : \A i \in Range(parser.object[s]) :
                        i.class = "INSTR" =>
                          \A k \in DOMAIN file[i.line] :
                            Kind(file[i.line][k]) = "LOCAL_REF" => RefersTo(i.line, i.instr.label, file[i.line][k][2])
    BY DEF LocalLabelsNearest
  <1> DEFINE d == Len(file)
  <1>1. file \in Seq(Range(file)) /\ \A tokens \in Range(file) : IsLine(tokens)
    BY DEF IsFile
  <1>2. d \in Nat /\ DOMAIN file = 1..d
    BY <1>1, SequenceOfItsElements
  <1>3. line \in 1..(d + 1) /\ GoodSoFar(file, parser, line - 1) /\ ~parser.crashed
    BY DEF FileInvariant
  <1>4. line - 1 = d
    BY <1>2, <1>3
  <1> HIDE DEF d
  <1>5. Good(file, parser, d)
    BY <1>3, <1>4 DEF GoodSoFar, Fine
  <1> SUFFICES ASSUME NEW s \in Sections, NEW i \in Range(parser.object[s]), i.class = "INSTR",
                      NEW k \in DOMAIN file[i.line], Kind(file[i.line][k]) = "LOCAL_REF"
               PROVE  RefersTo(i.line, i.instr.label, file[i.line][k][2])
    OBVIOUS
  <1>6. PICK j \in DOMAIN parser.object[s] : i = parser.object[s][j]
    BY DEF Range
  <1>7. i.line \in 1..d
    BY <1>5, <1>6 DEF Good, ItemsGood, GoodItem
  <1>8. RefersSoFar(file, parser, d, i.line, i.instr.label, file[i.line][k][2])
    BY <1>5, <1>6 DEF Good, RefsGood, RefersWell
  <1>9. file[i.line][k][2] \in Int \ {0}
    <2>1. IsLine(file[i.line])
      BY <1>1, <1>2, <1>7 DEF Range
    <2>2. IsToken(file[i.line][k])
      BY <2>1 DEF IsLine, Range
    <2>3. QED BY <2>2 DEF IsToken
  <1>10. d = Len(file) /\ ForwardGood(parser)
    BY <1>5 DEF d, Good
  <1>11. QED BY <1>2, <1>7, <1>8, <1>9, <1>10, ReferenceFound

-----------------------------------------------------------------------------
(* Code that can be written *)

CodeFields == {"opcode", "rd", "rs1", "rs2", "imm", "label", "addressParam"}
NamesLabel == {"LA", "J", "BEQ", "BNE"}
AcseOpcodes == BinaryOperators \union {"MULI", "LI", "LA", "LW", "SW", "BEQ", "BNE", "J"} \union DOMAIN SyscallID

Fit(i, opcodes, labels) ==
  /\ DOMAIN i = CodeFields /\ i.opcode \in opcodes /\ i.imm \in Int
  /\ i.opcode \in NamesLabel => i.addressParam \in labels
Writable(i, opcodes, labels) == Fit(i, opcodes, labels) /\ i.label \in {0} \union labels

Ready(p) ==
  /\ GoodLabels(p)
  /\ \A n \in DOMAIN p.instructions : Fit(p.instructions[n], AcseOpcodes, DOMAIN p.labels)
  /\ \A n \in DOMAIN p.symbols : p.symbols[n].arraySize \in Int
\* What was ready stays so, and labels are not lost.
Writes(p, q) == Ready(q) /\ DOMAIN p.labels \subseteq DOMAIN q.labels

LEMMA WritesThen ==
  ASSUME NEW p, NEW q, NEW r, Writes(p, q), Writes(q, r)
  PROVE  Writes(p, r)
  BY DEF Writes

LEMMA WritesItself ==
  ASSUME NEW p, Ready(p)
  PROVE  Writes(p, p)
  BY DEF Writes

\* More labels, or others in their place
LEMMA SameCode ==
  ASSUME NEW p, Ready(p), NEW q, GoodLabels(q), q.instructions = p.instructions, q.symbols = p.symbols,
         DOMAIN p.labels \subseteq DOMAIN q.labels
  PROVE  Writes(p, q)
  BY DEF Writes, Ready, Fit

LEMMA RegisterWrites ==
  ASSUME NEW p, Ready(p), NEW n
  PROVE  Writes(p, getNewRegister(p, n))
  <1> DEFINE q == getNewRegister(p, n)
  <1>1. GoodLabels(q)
    BY RegisterKeeps, GoodThen DEF Ready, Keeps
  <1>2. q.labels = p.labels /\ q.symbols = p.symbols /\ q.instructions = p.instructions
    BY DEF getNewRegister, Ready, GoodLabels, TypedProgram, Fields
  <1> HIDE DEF q
  <1>3. Writes(p, q)
    BY <1>1, <1>2, SameCode
  <1>4. QED BY <1>3 DEF q

LEMMA AddWrites ==
  ASSUME NEW p, Ready(p), NEW instr, Fit(instr, AcseOpcodes, DOMAIN p.labels)
  PROVE  Writes(p, addInstruction(p, instr))
  <1> DEFINE q == addInstruction(p, instr)
             j == [instr EXCEPT !.label = p.pendingLabel]
             N == Len(p.instructions)
  <1>1. "label" \in DOMAIN instr
    BY DEF Fit, CodeFields
  <1>2. GoodLabels(q)
    <2>1. Keeps(p, q)
      BY <1>1, AddKeeps DEF Ready
    <2>2. QED BY <2>1, GoodThen DEF Keeps
  <1>3. q.labels = p.labels /\ q.symbols = p.symbols /\ q.instructions = Append(p.instructions, j)
    BY DEF addInstruction, Ready, GoodLabels, TypedProgram, Fields
  <1>4. Fit(j, AcseOpcodes, DOMAIN p.labels)
    BY <1>1 DEF Fit, CodeFields
  <1>5. IsSeq(p.instructions)
    BY DEF Ready, GoodLabels, TypedProgram
  <1> HIDE DEF q, j
  <1>6. /\ N \in Nat /\ DOMAIN p.instructions = 1..N /\ DOMAIN q.instructions = 1..(N + 1)
        /\ \A n \in DOMAIN p.instructions : q.instructions[n] = p.instructions[n]
        /\ q.instructions[N + 1] = j
    BY <1>3, <1>5, Appended
  <1> HIDE DEF N
  <1>7. \A n \in DOMAIN q.instructions :
          \/ n \in DOMAIN p.instructions /\ q.instructions[n] = p.instructions[n]
          \/ q.instructions[n] = j
    BY <1>6
  <1>8. \A n \in DOMAIN q.instructions : Fit(q.instructions[n], AcseOpcodes, DOMAIN q.labels)
    BY <1>3, <1>4, <1>7 DEF Ready
  <1>9. Writes(p, q)
    BY <1>2, <1>3, <1>8 DEF Writes, Ready
  <1>10. QED BY <1>9 DEF q

LEMMA CreateWrites ==
  ASSUME NEW p, Ready(p)
  PROVE  Writes(p, createLabel(p)) /\ LastLabel(createLabel(p)) \in DOMAIN createLabel(p).labels
  <1> DEFINE q == createLabel(p)
             e == [labelID |-> p.firstUnusedLblID, name |-> NoLabel, global |-> FALSE, isAlias |-> FALSE]
             N == Len(p.labels)
  <1>1. GoodLabels(q)
    BY CreateKeeps, GoodThen DEF Ready, Keeps
  <1>2. q.labels = Append(p.labels, e) /\ q.symbols = p.symbols /\ q.instructions = p.instructions
    BY DEF createLabel, Ready, GoodLabels, TypedProgram, Fields
  <1>3. IsSeq(p.labels)
    BY DEF Ready, GoodLabels, TypedProgram
  <1> HIDE DEF q, e
  <1>4. N \in Nat /\ DOMAIN p.labels = 1..N /\ DOMAIN q.labels = 1..(N + 1) /\ Len(q.labels) = N + 1
    BY <1>2, <1>3, Appended
  <1> HIDE DEF N
  <1>5. DOMAIN p.labels \subseteq DOMAIN q.labels /\ LastLabel(q) \in DOMAIN q.labels
    BY <1>4 DEF LastLabel
  <1>6. Writes(p, q)
    BY <1>1, <1>2, <1>5, SameCode
  <1>7. QED BY <1>5, <1>6 DEF q

LEMMA AssignWrites ==
  ASSUME NEW p, Ready(p), NEW a, GoodLabels(assignLabel(p, a))
  PROVE  Writes(p, assignLabel(p, a))
  <1> DEFINE q == assignLabel(p, a)
             pending == p.labels[p.pendingLabel]
             new     == p.labels[a]
             older   == new.labelID # 0 /\ new.labelID < pending.labelID
             name    == IF pending.name = NoLabel \/ older THEN new.name ELSE pending.name
             aliased == [p EXCEPT !.labels[a].labelID = pending.labelID,
                                  !.labels[a].isAlias = TRUE,
                                  !.labels[a].global = new.global \/ pending.global,
                                  !.labels[p.pendingLabel].global = new.global \/ pending.global]
  <1>1. Fields \subseteq DOMAIN p
    BY DEF Ready, GoodLabels, TypedProgram
  <1>2. \/ q = [p EXCEPT !.fatal = TRUE] \/ q = [p EXCEPT !.pendingLabel = a]
        \/ q = setRawLabelName(aliased, a, name)
    BY DEF assignLabel
  <1>3. /\ Fields \subseteq DOMAIN aliased /\ DOMAIN aliased.labels = DOMAIN p.labels
        /\ aliased.symbols = p.symbols /\ aliased.instructions = p.instructions
    BY <1>1 DEF Fields
  <1> HIDE DEF aliased, name
  <1>4. q.symbols = p.symbols /\ q.instructions = p.instructions /\ DOMAIN q.labels = DOMAIN p.labels
    <2>1. CASE q = setRawLabelName(aliased, a, name)
      <3> HIDE DEF q
      <3>1. QED BY <1>3, <2>1 DEF setRawLabelName, Fields
    <2>2. CASE q = [p EXCEPT !.fatal = TRUE] \/ q = [p EXCEPT !.pendingLabel = a]
      <3> HIDE DEF q
      <3>1. QED BY <1>1, <2>2 DEF Fields
    <2>3. QED BY <1>2, <2>1, <2>2
  <1>5. QED BY <1>4, SameCode

LEMMA SymbolWrites ==
  ASSUME NEW p, Ready(p), NEW id, NEW type, NEW arraySize \in Int
  PROVE  Writes(p, createSymbol(p, id, type, arraySize))
  <1>1. CASE CannotCreate(p, id, type, arraySize)
    BY <1>1, WritesItself DEF createSymbol
  <1>2. CASE ~CannotCreate(p, id, type, arraySize)
    <2> DEFINE c == createLabel(p)
               a == LastLabel(c)
               named == setLabelName(c, a, <<"l_", id>>)
               e == [ID |-> id, type |-> type, arraySize |-> arraySize, label |-> a]
               q == [named EXCEPT !.symbols = Append(@, e)]
    <2>1. createSymbol(p, id, type, arraySize) = q
      BY <1>2 DEF createSymbol
    <2>2. Writes(p, c) /\ Ready(c)
      BY CreateWrites DEF Writes
    <2>3. GoodLabels(q)
      <3>1. Keeps(p, createSymbol(p, id, type, arraySize))
        BY SymbolKeeps DEF Ready
      <3>2. QED BY <2>1, <3>1, GoodThen DEF Keeps
    <2>4. e.arraySize = arraySize
      OBVIOUS
    <2> HIDE DEF c, a, e
    <2>5. Fields \subseteq DOMAIN c /\ IsSeq(c.symbols)
      BY <2>2 DEF Ready, GoodLabels, TypedProgram
    <2>6. /\ Fields \subseteq DOMAIN named /\ named.symbols = c.symbols /\ named.instructions = c.instructions
          /\ DOMAIN named.labels = DOMAIN c.labels
      BY <2>5 DEF setLabelName, setRawLabelName, Fields
    <2> HIDE DEF named
    <2>7. q.symbols = Append(c.symbols, e) /\ q.instructions = c.instructions /\ q.labels = named.labels
      BY <2>6 DEF Fields
    <2> HIDE DEF q
    <2>8. \A n \in DOMAIN q.symbols : q.symbols[n].arraySize \in Int
      <3> DEFINE N == Len(c.symbols)
      <3>1. /\ N \in Nat /\ DOMAIN c.symbols = 1..N /\ DOMAIN q.symbols = 1..(N + 1)
            /\ \A n \in DOMAIN c.symbols : q.symbols[n] = c.symbols[n]
            /\ q.symbols[N + 1] = e
        BY <2>5, <2>7, Appended
      <3> HIDE DEF N
      <3>2. \A n \in DOMAIN q.symbols : n \in DOMAIN c.symbols \/ n = N + 1
        BY <3>1
      <3>3. QED BY <2>2, <2>4, <3>1, <3>2 DEF Ready
    <2>9. Writes(c, q)
      BY <2>2, <2>3, <2>6, <2>7, <2>8 DEF Writes, Ready, Fit
    <2>10. QED BY <2>1, <2>2, <2>9, WritesThen
  <1>3. QED BY <1>1, <1>2

LEMMA NewProgramReady == Ready(newProgram)
  <1> DEFINE empty == [symbols |-> <<>>, instructions |-> <<>>, firstUnusedReg |-> 1, labels |-> <<>>,
                       firstUnusedLblID |-> 0, pendingLabel |-> 0, fatal |-> FALSE]
             c == createLabel(empty)
             named == setLabelName(c, 1, <<"_start">>)
             global == [named EXCEPT !.labels[1].global = TRUE]
             q == newProgram
             Bare(p) == Fields \subseteq DOMAIN p /\ p.symbols = <<>> /\ p.instructions = <<>>
  <1>1. Bare(empty)
    BY DEF Fields
  <1> HIDE DEF empty
  <1>2. Bare(c)
    BY <1>1 DEF createLabel, Fields
  <1> HIDE DEF c
  <1>3. Bare(named)
    BY <1>2 DEF setLabelName, setRawLabelName, Fields
  <1> HIDE DEF named
  <1>4. Bare(global)
    BY <1>3 DEF Fields
  <1>5. q = assignLabel(global, 1)
    BY DEF newProgram, global, named, c, empty
  <1> HIDE DEF global
  <1>6. q.symbols = <<>> /\ q.instructions = <<>>
    <2> DEFINE g == global
               pending == g.labels[g.pendingLabel]
               new     == g.labels[1]
               aliased == [g EXCEPT !.labels[1].labelID = pending.labelID,
                                    !.labels[1].isAlias = TRUE,
                                    !.labels[1].global = new.global \/ pending.global,
                                    !.labels[g.pendingLabel].global = new.global \/ pending.global]
    <2>1. \/ q = [g EXCEPT !.fatal = TRUE] \/ q = [g EXCEPT !.pendingLabel = 1]
          \/ \E name : q = setRawLabelName(aliased, 1, name)
      BY <1>5 DEF assignLabel
    <2> HIDE DEF q
    <2>2. Bare(aliased)
      BY <1>4 DEF Fields
    <2> HIDE DEF aliased
    <2>3. QED BY <1>4, <2>1, <2>2 DEF setRawLabelName, Fields
  <1>7. DOMAIN q.symbols = {} /\ DOMAIN q.instructions = {}
    BY <1>6
  <1>8. QED BY <1>7, NewProgramGood DEF Ready

-----------------------------------------------------------------------------
(* The compiler makes such code *)

LEMMA GenWrites ==
  ASSUME NEW p, Ready(p), NEW op \in AcseOpcodes, NEW a, NEW b, NEW c, NEW imm \in Int, NEW l \in DOMAIN p.labels
  PROVE  /\ Writes(p, addInstruction(p, [Gen(op, a, b, c, imm) EXCEPT !.addressParam = l]))
         /\ op \notin NamesLabel => Writes(p, addInstruction(p, Gen(op, a, b, c, imm)))
  <1>1. Fit([Gen(op, a, b, c, imm) EXCEPT !.addressParam = l], AcseOpcodes, DOMAIN p.labels)
    BY DEF Gen, Fit, CodeFields
  <1>2. op \notin NamesLabel => Fit(Gen(op, a, b, c, imm), AcseOpcodes, DOMAIN p.labels)
    BY DEF Gen, Fit, CodeFields
  <1>3. QED BY <1>1, <1>2, AddWrites

LEMMA PlainWrites ==
  ASSUME NEW p, Ready(p), NEW op \in AcseOpcodes \ NamesLabel, NEW a, NEW b, NEW c, NEW imm \in Int
  PROVE  Writes(p, addInstruction(p, Gen(op, a, b, c, imm)))
  <1>1. Fit(Gen(op, a, b, c, imm), AcseOpcodes, DOMAIN p.labels)
    BY DEF Gen, Fit, CodeFields
  <1>2. QED BY <1>1, AddWrites

LEMMA CodeWrites ==
  ASSUME NEW p, Ready(p), NEW a, NEW b, NEW c
  PROVE  /\ \A op \in BinaryOperators : Writes(p, genRFormatInstruction(p, op, a, b, c))
         /\ \A i \in Int : Writes(p, genIFormatInstruction(p, "MULI", a, b, i)) /\ Writes(p, genLI(p, a, i))
         /\ \A l \in DOMAIN p.labels : /\ Writes(p, genBFormatInstruction(p, "BEQ", a, b, l))
                                       /\ Writes(p, genBFormatInstruction(p, "BNE", a, b, l))
                                       /\ Writes(p, genJ(p, l))
                                       /\ Writes(p, genLA(p, a, l))
         /\ Writes(p, genLW(p, a, b))
         /\ Writes(p, genSW(p, a, b))
         /\ Writes(p, genExit0Syscall(p))
         /\ Writes(p, genReadIntSyscall(p, a))
         /\ Writes(p, genPrintIntSyscall(p, a))
         /\ Writes(p, genPrintCharSyscall(p, a))
  <1>1. /\ BinaryOperators \subseteq AcseOpcodes \ NamesLabel
        /\ {"MULI", "LI", "LW", "SW", "CALL_EXIT_0", "CALL_READ_INT", "CALL_PRINT_INT", "CALL_PRINT_CHAR"}
             \subseteq AcseOpcodes \ NamesLabel
        /\ NamesLabel \subseteq AcseOpcodes
        /\ NamesLabel = {"LA", "J", "BEQ", "BNE"}
    BY DEF BinaryOperators, AcseOpcodes, NamesLabel, SyscallID
  <1>2. 0 \in Int
    OBVIOUS
  <1>3. ASSUME NEW op \in BinaryOperators PROVE Writes(p, genRFormatInstruction(p, op, a, b, c))
    BY <1>1, <1>2, PlainWrites DEF genRFormatInstruction
  <1>4. ASSUME NEW i \in Int
        PROVE  Writes(p, genIFormatInstruction(p, "MULI", a, b, i)) /\ Writes(p, genLI(p, a, i))
    BY <1>1, PlainWrites DEF genIFormatInstruction, genLI
  <1>5. ASSUME NEW l \in DOMAIN p.labels
        PROVE  /\ Writes(p, genBFormatInstruction(p, "BEQ", a, b, l))
               /\ Writes(p, genBFormatInstruction(p, "BNE", a, b, l))
               /\ Writes(p, genJ(p, l))
               /\ Writes(p, genLA(p, a, l))
    BY <1>1, <1>2, GenWrites DEF genBFormatInstruction, genJ, genLA
  <1>6. Writes(p, genLW(p, a, b)) /\ Writes(p, genSW(p, a, b))
    BY <1>1, <1>2, PlainWrites DEF genLW, genSW
  <1>7. /\ Writes(p, genExit0Syscall(p)) /\ Writes(p, genReadIntSyscall(p, a))
        /\ Writes(p, genPrintIntSyscall(p, a)) /\ Writes(p, genPrintCharSyscall(p, a))
    BY <1>1, <1>2, PlainWrites DEF genExit0Syscall, genReadIntSyscall, genPrintIntSyscall, genPrintCharSyscall
  <1>8. QED BY <1>3, <1>4, <1>5, <1>6, <1>7

LEMMA ReadyThen ==
  ASSUME NEW p, NEW q, Writes(p, q)
  PROVE  Ready(q)
  BY DEF Writes

LEMMA VariableWrites ==
  ASSUME NEW p, Ready(p), NEW v, v.label \in DOMAIN p.labels, NEW reg
  PROVE  /\ Writes(p, genLoadVariable(p, v))
         /\ Writes(p, genStoreRegisterToVariable(p, v, reg))
  <1> DEFINE r == NewRegister(p)
             b(n) == getNewRegister(p, n)
             q(n) == genLA(b(n), r, v.label)
  <1>1. ASSUME NEW n PROVE Writes(p, q(n)) /\ Ready(q(n))
    <2>1. Writes(p, b(n)) /\ Ready(b(n)) /\ v.label \in DOMAIN b(n).labels
      BY RegisterWrites DEF Writes
    <2> HIDE DEF b
    <2>2. Writes(b(n), q(n))
      BY <2>1, CodeWrites
    <2>3. QED BY <2>1, <2>2, WritesThen, ReadyThen
  <1> HIDE DEF q
  <1>2. Writes(q(2), genLW(q(2), r + 1, r)) /\ Writes(q(1), genSW(q(1), reg, r))
    BY <1>1, CodeWrites
  <1>3. Writes(p, genLW(q(2), r + 1, r)) /\ Writes(p, genSW(q(1), reg, r))
    BY <1>1, <1>2, WritesThen
  <1>4. QED BY <1>3, WritesItself DEF genLoadVariable, genStoreRegisterToVariable, q

LEMMA ArrayWrites ==
  ASSUME NEW p, Ready(p), NEW v, v.label \in DOMAIN p.labels, NEW idx, NEW reg
  PROVE  /\ Writes(p, genLoadArrayElement(p, v, idx))
         /\ Writes(p, genStoreRegisterToArrayElement(p, v, idx, reg))
  <1> DEFINE r == NewRegister(p)
             b == getNewRegister(p, 2)
             q == genLA(b, r, v.label)
             t == genIFormatInstruction(q, "MULI", r + 1, idx, WordBytes)
             u == genLoadArrayAddress(p, v, idx)
  <1>1. Writes(p, b) /\ Ready(b) /\ v.label \in DOMAIN b.labels
    BY RegisterWrites DEF Writes
  <1>2. Writes(p, q) /\ Ready(q)
    <2> HIDE DEF b
    <2>1. Writes(b, q)
      BY <1>1, CodeWrites
    <2>2. QED BY <1>1, <2>1, WritesThen, ReadyThen
  <1>3. Writes(p, t) /\ Ready(t)
    <2> HIDE DEF q
    <2>1. WordBytes \in Int
      BY WidthAssumption
    <2>2. Writes(q, t)
      BY <1>2, <2>1, CodeWrites
    <2>3. QED BY <1>2, <2>2, WritesThen, ReadyThen
  <1>4. Writes(p, u) /\ Ready(u)
    <2> DEFINE w == genRFormatInstruction(t, "ADD", r, r, r + 1)
    <2>1. Writes(p, w)
      <3> HIDE DEF t
      <3>1. "ADD" \in BinaryOperators
        BY DEF BinaryOperators
      <3>2. QED BY <1>3, <3>1, CodeWrites, WritesThen
    <2>2. u = p \/ u = w
      BY DEF genLoadArrayAddress
    <2> HIDE DEF u, w
    <2>3. QED BY <2>1, <2>2, WritesItself, ReadyThen
  <1> HIDE DEF u
  <1>5. Writes(p, getNewRegister(u, 1)) /\ Ready(getNewRegister(u, 1))
    BY <1>4, RegisterWrites, WritesThen, ReadyThen
  <1>6. Writes(p, genLW(getNewRegister(u, 1), NewRegister(u), ArrayAddress(p, v)))
    BY <1>5, CodeWrites, WritesThen
  <1>7. Writes(p, genSW(u, reg, ArrayAddress(p, v)))
    BY <1>4, CodeWrites, WritesThen
  <1>8. QED BY <1>6, <1>7 DEF genLoadArrayElement, genStoreRegisterToArrayElement, u

LEMMA SymbolFound ==
  ASSUME NEW p, GoodLabels(p), NEW id, HasSymbol(p, id)
  PROVE  getSymbol(p, id).label \in DOMAIN p.labels
  <1> DEFINE n == SelectInSeq(p.symbols, LAMBDA s : s.ID = id)
             I == {i \in 1..Len(p.symbols) : p.symbols[i].ID = id}
  <1>1. Len(p.symbols) \in Nat /\ DOMAIN p.symbols = 1..Len(p.symbols)
    BY SequenceOfItsElements DEF GoodLabels, TypedProgram, IsSeq
  <1>2. I # {} /\ I \in SUBSET Nat
    BY <1>1 DEF HasSymbol
  <1>3. n = Min(I)
    BY <1>2 DEF SelectInSeq
  <1>4. Min(I) \in I
    <2> HIDE DEF I
    <2>1. QED BY <1>2, LeastIsLeast
  <1>5. n \in DOMAIN p.symbols
    BY <1>1, <1>3, <1>4
  <1> HIDE DEF n
  <1>6. getSymbol(p, id) = p.symbols[n]
    BY DEF getSymbol, n
  <1>7. QED BY <1>5, <1>6 DEF GoodLabels, TypedProgram

-----------------------------------------------------------------------------
(* The compiler goes on making such code *)

Lexed(text) == \A action \in Range(text) : IsAction(action)

\* The label that a loop begins with
LoopKnown(p, part, frame) ==
  part \in {"condition", "body", "repeated"} => "lLoop" \in DOMAIN frame /\ frame.lLoop \in DOMAIN p.labels
LoopsKnown(p, around, frames) == \A d \in 1..Len(frames) : LoopKnown(p, around[d], frames[d])

CompilerReady ==
  /\ CompilerInvariant /\ Ready(program)
  /\ phase = "compile" => Lexed(source) /\ LoopsKnown(program, Around, open)

LEMMA LoopsStay ==
  ASSUME NEW p, NEW q, Writes(p, q), NEW around, NEW frames, LoopsKnown(p, around, frames)
  PROVE  LoopsKnown(q, around, frames)
  BY DEF LoopsKnown, LoopKnown, Writes

LEMMA LoopsLeft ==
  ASSUME NEW p, NEW around, NEW frames, AwaitedApart(p, around, frames), around # <<>>, LoopsKnown(p, around, frames)
  PROVE  LoopsKnown(p, Front(around), Front(frames)) /\ LoopKnown(p, Last(around), Last(frames))
  <1> DEFINE n == Len(around)
             m == n - 1
             f == Front(frames)
             r == Front(around)
  <1>1. around \in Seq(Parts) /\ frames \in Seq(Frames) /\ Len(frames) = n /\ n \in Nat \ {0} /\ frames # <<>>
    BY Fronts DEF AwaitedApart
  <1>2. /\ (\A k \in 1..m : r[k] = around[k]) /\ Last(around) = around[n]
        /\ Len(f) = m /\ (\A k \in 1..m : f[k] = frames[k]) /\ Last(frames) = frames[n]
    BY <1>1, Fronts
  <1>3. n \in 1..n /\ 1..m \subseteq 1..n
    <2> HIDE DEF n
    <2>1. QED BY <1>1
  <1> HIDE DEF n, m, f, r
  <1>4. LoopsKnown(p, r, f) /\ LoopKnown(p, Last(around), Last(frames))
    BY <1>1, <1>2, <1>3 DEF LoopsKnown
  <1>5. QED BY <1>4 DEF r, f

LEMMA LoopsEntered ==
  ASSUME NEW p, NEW u, NEW around, NEW frames, AwaitedApart(u, around, frames), LoopsKnown(p, around, frames),
         NEW part \in Parts, NEW frame \in Frames, LoopKnown(p, part, frame)
  PROVE  LoopsKnown(p, Append(around, part), Append(frames, frame))
  <1> DEFINE n == Len(around)
             f == Append(frames, frame)
             r == Append(around, part)
  <1>1. around \in Seq(Parts) /\ frames \in Seq(Frames) /\ Len(frames) = n /\ n \in Nat
    BY DEF AwaitedApart
  <1>2. /\ (\A k \in 1..n : r[k] = around[k]) /\ r[n + 1] = part
        /\ Len(f) = n + 1 /\ (\A k \in 1..n : f[k] = frames[k]) /\ f[n + 1] = frame
    BY <1>1, AppendProperties
  <1>3. \A d \in 1..(n + 1) : d = n + 1 \/ d \in 1..n
    BY <1>1
  <1> HIDE DEF n, f, r
  <1>4. LoopsKnown(p, r, f)
    BY <1>1, <1>2, <1>3 DEF LoopsKnown
  <1>5. QED BY <1>4 DEF r, f

\* The action at the mark
LEMMA ActionHere ==
  ASSUME CompilerReady, phase = "compile", mark <= Len(source)
  PROVE  /\ IsAction(source[mark]) /\ Ready(program) /\ LoopsKnown(program, Around, open)
         /\ HasSymbol(program, ID) => var.label \in DOMAIN program.labels
  <1>1. IsSeq(source) /\ mark \in 1..(Len(source) + 1) /\ Lexed(source)
    BY DEF CompilerReady, CompilerInvariant, StatementsOpen
  <1>2. mark \in DOMAIN source
    <2>1. Len(source) \in Nat /\ DOMAIN source = 1..Len(source)
      BY <1>1, SurroundingsGo
    <2>2. QED BY <1>1, <2>1
  <1>3. IsAction(source[mark])
    BY <1>1, <1>2 DEF Lexed, Range
  <1>4. HasSymbol(program, ID) => var.label \in DOMAIN program.labels
    BY SymbolFound DEF CompilerReady, Ready, var
  <1>5. QED BY <1>3, <1>4 DEF CompilerReady

LEMMA ReadyMore ==
  ASSUME CompilerReady, phase = "compile", mark <= Len(source), NextMark, CompilerInvariant', Ready(program'),
         LoopsKnown(program', Goes(Around, source[mark][1]), open')
  PROVE  CompilerReady'
  <1>1. IsSeq(source) /\ mark \in 1..(Len(source) + 1) /\ mark' = mark + 1 /\ source' = source /\ Lexed(source)
    BY DEF CompilerReady, CompilerInvariant, StatementsOpen, NextMark
  <1>2. Len(source) \in Nat
    BY <1>1, SurroundingsGo
  <1>3. mark \in 1..Len(source) /\ (mark + 1) - 1 = mark
    BY <1>1, <1>2
  <1>4. Surroundings(source)[mark] = Goes(Around, source[mark][1])
    BY <1>1, <1>3, SurroundingsGo DEF Around
  <1>5. Around' = Goes(Around, source[mark][1])
    BY <1>1, <1>3, <1>4 DEF Around
  <1>6. QED BY <1>1, <1>5 DEF CompilerReady

LEMMA PlainReady ==
  ASSUME CompilerReady, phase = "compile", mark <= Len(source), NextMark, CompilerInvariant', UNCHANGED open,
         Writes(program, program'), Goes(Around, source[mark][1]) = Around
  PROVE  CompilerReady'
  <1>1. LoopsKnown(program', Around, open')
    BY ActionHere, LoopsStay
  <1>2. QED BY <1>1, ReadyThen, ReadyMore

LEMMA ExpressionReady ==
  CompilerReady /\ CompilerInvariant' /\ (Declare \/ Number \/ Variable \/ Element \/ Unary \/ Binary \/ Logical)
    => CompilerReady'
  <1> DEFINE plain == {"declare", "number", "load", "element", "minus", "not", "binary", "logical"}
  <1>0. ASSUME NEW action \in plain PROVE Goes(Around, action) = Around
    BY <1>0 DEF Goes
  <1> SUFFICES ASSUME CompilerReady, CompilerInvariant',
                      Declare \/ Number \/ Variable \/ Element \/ Unary \/ Binary \/ Logical
               PROVE  CompilerReady'
    OBVIOUS
  <1>1. /\ phase = "compile" /\ mark <= Len(source) /\ NextMark /\ UNCHANGED open
        /\ source[mark][1] \in plain
    BY DEF Declare, Number, Variable, Element, Unary, Binary, Logical, At, Uses
  <1>2. Writes(program, program')
    <2> DEFINE b(n) == getNewRegister(program, n)
    <2>0. /\ IsAction(source[mark]) /\ Ready(program)
          /\ HasSymbol(program, ID) => var.label \in DOMAIN program.labels
      BY <1>1, ActionHere
    <2>1. ASSUME NEW n PROVE Writes(program, b(n)) /\ Ready(b(n))
      BY <2>0, RegisterWrites, ReadyThen
    <2>2. CASE Declare
      <3> DEFINE type == IF Len(source[mark]) = 3 THEN "INT_ARRAY" ELSE "INT"
                 n == IF Len(source[mark]) = 3 THEN source[mark][3] ELSE 0
      <3>1. program' = createSymbol(program, ID, type, n) /\ source[mark][1] = "declare"
        BY <2>2 DEF Declare, At
      <3>2. n \in Int
        BY <2>0, <3>1 DEF IsAction
      <3> HIDE DEF type, n
      <3>3. QED BY <2>0, <3>1, <3>2, SymbolWrites
    <2>3. CASE Number
      <3>1. source[mark][2] \in Int /\ program' = genLI(Taken1, Result1, source[mark][2])
        BY <2>0, <2>3 DEF Number, At, IsAction
      <3>2. Writes(Taken1, program')
        BY <2>1, <3>1, CodeWrites DEF Taken1
      <3>3. QED BY <2>1, <3>2, WritesThen DEF Taken1
    <2>4. CASE Variable
      BY <2>0, <2>4, VariableWrites DEF Variable, Uses
    <2>5. CASE Element
      BY <2>0, <2>5, ArrayWrites DEF Element, Uses
    <2>6. CASE Unary
      <3>1. "SUB" \in BinaryOperators /\ "SEQ" \in BinaryOperators
        BY DEF BinaryOperators
      <3>2. Writes(Taken1, program')
        BY <2>1, <2>6, <3>1, CodeWrites DEF Unary, Taken1
      <3>3. QED BY <2>1, <3>2, WritesThen DEF Taken1
    <2>7. CASE Binary
      <3>1. source[mark][2] \in BinaryOperators
        BY <2>0, <2>7 DEF Binary, At, IsAction
      <3>2. Writes(Taken1, program')
        BY <2>1, <2>7, <3>1, CodeWrites DEF Binary, Taken1
      <3>3. QED BY <2>1, <3>2, WritesThen DEF Taken1
    <2>8. CASE Logical
      <3> DEFINE first  == genRFormatInstruction(b(3), "SNE", Result1, Below, REG_0)
                 second == genRFormatInstruction(first, "SNE", Result1 + 1, Top, REG_0)
      <3>1. program' = genRFormatInstruction(second, source[mark][2], Result1 + 2, Result1, Result1 + 1)
        BY <2>8 DEF Logical
      <3>2. "SNE" \in BinaryOperators /\ source[mark][2] \in BinaryOperators
        BY <2>0, <2>8 DEF Logical, At, IsAction, BinaryOperators
      <3> HIDE DEF b
      <3>3. Writes(b(3), first)
        BY <2>1, <3>2, CodeWrites
      <3> HIDE DEF first
      <3>4. Writes(first, second)
        BY <3>2, <3>3, ReadyThen, CodeWrites
      <3> HIDE DEF second
      <3>5. Writes(second, program')
        BY <3>1, <3>2, <3>4, ReadyThen, CodeWrites
      <3>6. Writes(program, second)
        BY <2>1, <3>3, <3>4, WritesThen
      <3>7. QED BY <3>5, <3>6, WritesThen
    <2>9. QED BY <2>2, <2>3, <2>4, <2>5, <2>6, <2>7, <2>8
  <1>3. Goes(Around, source[mark][1]) = Around
    BY <1>0, <1>1
  <1>4. QED BY <1>1, <1>2, <1>3, PlainReady

LEMMA SimpleReady ==
  CompilerReady /\ CompilerInvariant' /\ (Assign \/ AssignElement \/ Return \/ Read \/ WriteOut) => CompilerReady'
  <1> DEFINE plain == {"assign", "assignElement", "return", "read", "write"}
  <1>0. ASSUME NEW action \in plain PROVE Goes(Around, action) = Around
    BY <1>0 DEF Goes
  <1> SUFFICES ASSUME CompilerReady, CompilerInvariant', Assign \/ AssignElement \/ Return \/ Read \/ WriteOut
               PROVE  CompilerReady'
    OBVIOUS
  <1>1. /\ phase = "compile" /\ mark <= Len(source) /\ NextMark /\ UNCHANGED open
        /\ source[mark][1] \in plain
    BY DEF Assign, AssignElement, Return, Read, WriteOut, At, Uses
  <1>2. Writes(program, program')
    <2>0. Ready(program) /\ (HasSymbol(program, ID) => var.label \in DOMAIN program.labels)
      BY <1>1, ActionHere
    <2>1. CASE Assign
      BY <2>0, <2>1, VariableWrites DEF Assign, Uses
    <2>2. CASE AssignElement
      BY <2>0, <2>2, ArrayWrites DEF AssignElement, Uses
    <2>3. CASE Return
      BY <2>0, <2>3, CodeWrites DEF Return
    <2>4. CASE Read
      <3> DEFINE b == Taken1
                 q == genReadIntSyscall(b, Result1)
      <3>1. Writes(program, b)
        BY <2>0, RegisterWrites DEF Taken1
      <3>2. Writes(b, q)
        BY <3>1, ReadyThen, CodeWrites
      <3>3. Writes(program, q)
        BY <3>1, <3>2, WritesThen
      <3>4. Ready(q) /\ var.label \in DOMAIN q.labels
        BY <2>0, <2>4, <3>3 DEF Read, Uses, Writes
      <3>5. Writes(q, program')
        BY <2>4, <3>4, VariableWrites DEF Read
      <3> HIDE DEF b, q
      <3>6. QED BY <3>3, <3>5, WritesThen
    <2>5. CASE WriteOut
      <3> DEFINE q == genPrintIntSyscall(program, Top)
                 b == getNewRegister(q, 1)
                 t == genLI(b, NewRegister(q), NewLine)
      <3>1. program' = genPrintCharSyscall(t, NewRegister(q))
        BY <2>5 DEF WriteOut
      <3>2. Writes(program, q)
        BY <2>0, CodeWrites
      <3> HIDE DEF q
      <3>3. Writes(q, b)
        BY <3>2, ReadyThen, RegisterWrites
      <3> HIDE DEF b
      <3>4. Writes(b, t)
        BY <3>3, ReadyThen, CodeWrites DEF NewLine
      <3> HIDE DEF t
      <3>5. Writes(t, program')
        BY <3>1, <3>4, ReadyThen, CodeWrites
      <3>6. Writes(program, t)
        BY <3>2, <3>3, <3>4, WritesThen
      <3>7. QED BY <3>5, <3>6, WritesThen
    <2>6. QED BY <2>1, <2>2, <2>3, <2>4, <2>5
  <1>3. Goes(Around, source[mark][1]) = Around
    BY <1>0, <1>1
  <1>4. QED BY <1>1, <1>2, <1>3, PlainReady

LEMMA IfReady == CompilerReady /\ CompilerInvariant' /\ If => CompilerReady'
  <1> SUFFICES ASSUME CompilerReady, CompilerInvariant', If PROVE CompilerReady'
    OBVIOUS
  <1> DEFINE q == createLabel(program)
             a == LastLabel(q)
             frame == [lElse |-> a, lExit |-> 0]
  <1>1. /\ phase = "compile" /\ mark <= Len(source) /\ NextMark /\ source[mark][1] = "if"
        /\ program' = genBFormatInstruction(q, "BEQ", Top, REG_0, a)
        /\ open' = Append(open, frame)
    BY DEF If, At
  <1>2. GoodLabels(program) /\ AwaitedApart(program, Around, open) /\ Ready(program) /\ LoopsKnown(program, Around, open)
    BY <1>1, Here, ActionHere DEF CompilerReady
  <1>3. Writes(program, q) /\ a \in DOMAIN q.labels
    BY <1>2, CreateWrites
  <1>4. a \in Nat
    BY <1>2, CreateLabelStep
  <1>5. frame \in Frames /\ "then" \in Parts /\ LoopKnown(program', "then", frame)
    BY <1>4, PartsOfFrames DEF LoopKnown
  <1>6. Goes(Around, source[mark][1]) = Append(Around, "then")
    BY <1>1 DEF Goes
  <1> HIDE DEF q, a, frame
  <1>7. Writes(q, program')
    BY <1>1, <1>3, ReadyThen, CodeWrites
  <1>8. Writes(program, program')
    BY <1>3, <1>7, WritesThen
  <1>9. LoopsKnown(program', Append(Around, "then"), open')
    BY <1>1, <1>2, <1>5, <1>8, LoopsStay, LoopsEntered
  <1>10. QED BY <1>1, <1>6, <1>8, <1>9, ReadyThen, ReadyMore

LEMMA LoopReady == CompilerReady /\ CompilerInvariant' /\ (While \/ Do) => CompilerReady'
  <1> SUFFICES ASSUME CompilerReady, CompilerInvariant', While \/ Do PROVE CompilerReady'
    OBVIOUS
  <1> DEFINE q == createLabel(program)
             a == LastLabel(q)
             frame == [lLoop |-> a, lExit |-> 0]
             part == IF source[mark][1] = "while" THEN "condition" ELSE "repeated"
  <1>1. /\ phase = "compile" /\ mark <= Len(source) /\ NextMark /\ source[mark][1] \in {"while", "do"}
        /\ program' = assignLabel(q, a)
        /\ open' = Append(open, frame)
    BY DEF While, Do, At
  <1>2. GoodLabels(program) /\ AwaitedApart(program, Around, open) /\ Ready(program) /\ LoopsKnown(program, Around, open)
    BY <1>1, Here, ActionHere DEF CompilerReady
  <1>3. Writes(program, q) /\ a \in DOMAIN q.labels
    BY <1>2, CreateWrites
  <1>4. a \in Nat
    BY <1>2, CreateLabelStep
  <1>5. frame \in Frames /\ part \in Parts /\ "lLoop" \in DOMAIN frame /\ frame.lLoop = a
    BY <1>4, PartsOfFrames
  <1>6. Goes(Around, source[mark][1]) = Append(Around, part)
    BY <1>1 DEF Goes
  <1> HIDE DEF q, a, frame, part
  <1>7. Writes(q, program')
    <2>1. GoodLabels(program')
      BY DEF CompilerInvariant
    <2>2. QED BY <1>1, <1>3, <2>1, ReadyThen, AssignWrites
  <1>8. Writes(program, program')
    BY <1>3, <1>7, WritesThen
  <1>9. LoopKnown(program', part, frame)
    BY <1>3, <1>5, <1>7 DEF LoopKnown, Writes
  <1>10. LoopsKnown(program', Append(Around, part), open')
    BY <1>1, <1>2, <1>5, <1>8, <1>9, LoopsStay, LoopsEntered
  <1>11. QED BY <1>1, <1>6, <1>8, <1>10, ReadyThen, ReadyMore

\* The parts of a statement after its first one
LEMMA PartReady == CompilerReady /\ CompilerInvariant' /\ (Else \/ WhileCondition) => CompilerReady'
  <1> SUFFICES ASSUME CompilerReady, CompilerInvariant', Else \/ WhileCondition PROVE CompilerReady'
    OBVIOUS
  <1> DEFINE q == createLabel(program)
             a == LastLabel(q)
             k == Innermost
             e == k.lElse
             frame == [k EXCEPT !.lExit = a]
             around == Front(Around)
             frames == Front(open)
             r == genJ(q, a)
             part == IF source[mark][1] = "else" THEN "else" ELSE "body"
  <1>1. /\ phase = "compile" /\ mark <= Len(source) /\ NextMark
        /\ \/ source[mark][1] = "else" /\ program' = assignLabel(r, e)
           \/ source[mark][1] = "whileCondition" /\ program' = genBFormatInstruction(q, "BEQ", Top, REG_0, a)
        /\ open' = Append(frames, frame)
    BY DEF Else, WhileCondition, At, InnermostBecomes
  <1>2. /\ GoodLabels(program) /\ AwaitedApart(program, Around, open) /\ Ready(program) /\ LoopsKnown(program, Around, open)
        /\ Around # <<>> /\ (source[mark][1] = "whileCondition" => Last(Around) = "condition")
    BY <1>1, Here, ActionHere DEF CompilerReady, Ends
  <1>3. Writes(program, q) /\ a \in DOMAIN q.labels
    BY <1>2, CreateWrites
  <1>4. a \in Nat
    BY <1>2, CreateLabelStep
  <1>5. /\ AwaitedApart(program, around, frames) /\ k \in Frames
        /\ LoopsKnown(program, around, frames) /\ LoopKnown(program, Last(Around), k)
    BY <1>2, Left, LoopsLeft DEF Innermost
  <1>6. /\ frame \in Frames /\ ("lLoop" \in DOMAIN k => "lLoop" \in DOMAIN frame /\ frame.lLoop = k.lLoop)
    <2> HIDE DEF k, a
    <2>1. frame \in Frames
      BY <1>4, <1>5, PartsOfFrames
    <2>2. "lLoop" \in DOMAIN k => "lLoop" \in DOMAIN frame /\ frame.lLoop = k.lLoop
      OBVIOUS
    <2>3. QED BY <2>1, <2>2
  <1>7. Goes(Around, source[mark][1]) = Append(around, part) /\ part \in Parts
    BY <1>1, PartsOfFrames DEF Goes
  <1>8. part = "body" => source[mark][1] = "whileCondition"
    BY <1>1
  <1>9. part \in {"else", "body"}
    OBVIOUS
  <1> HIDE DEF q, a, k, e, frame, around, frames, part
  <1>10. Writes(q, program')
    <2>1. CASE program' = genBFormatInstruction(q, "BEQ", Top, REG_0, a)
      BY <1>3, <2>1, ReadyThen, CodeWrites
    <2>2. CASE program' = assignLabel(r, e)
      <3>1. Writes(q, r)
        BY <1>3, ReadyThen, CodeWrites
      <3> HIDE DEF r
      <3>2. GoodLabels(program')
        BY DEF CompilerInvariant
      <3>3. Writes(r, program')
        BY <2>2, <3>1, <3>2, ReadyThen, AssignWrites
      <3>4. QED BY <3>1, <3>3, WritesThen
    <2>3. QED BY <1>1, <2>1, <2>2
  <1>11. Writes(program, program')
    BY <1>3, <1>10, WritesThen
  <1>12. LoopKnown(program', part, frame)
    BY <1>2, <1>5, <1>6, <1>8, <1>9, <1>11 DEF LoopKnown, Writes
  <1>13. LoopsKnown(program', Append(around, part), open')
    BY <1>1, <1>5, <1>6, <1>7, <1>11, <1>12, LoopsStay, LoopsEntered
  <1>14. QED BY <1>1, <1>7, <1>11, <1>13, ReadyThen, ReadyMore

LEMMA ExitReady == CompilerReady /\ CompilerInvariant' /\ (EndIf \/ EndWhile \/ DoWhile) => CompilerReady'
  <1> SUFFICES ASSUME CompilerReady, CompilerInvariant', EndIf \/ EndWhile \/ DoWhile PROVE CompilerReady'
    OBVIOUS
  <1> DEFINE k == Innermost
             around == Front(Around)
             frames == Front(open)
             r == genJ(program, k.lLoop)
  <1>1. /\ phase = "compile" /\ mark <= Len(source) /\ NextMark
        /\ \/ source[mark][1] = "endif" /\ program' = assignLabel(program, k.lExit)
           \/ source[mark][1] = "endwhile" /\ program' = assignLabel(r, k.lExit)
           \/ source[mark][1] = "dowhile" /\ program' = genBFormatInstruction(program, "BNE", Top, REG_0, k.lLoop)
        /\ open' = frames
    BY DEF EndIf, EndWhile, DoWhile, At
  <1>2. /\ GoodLabels(program) /\ AwaitedApart(program, Around, open) /\ Ready(program) /\ LoopsKnown(program, Around, open)
        /\ Around # <<>>
        /\ source[mark][1] = "endwhile" => Last(Around) = "body"
        /\ source[mark][1] = "dowhile" => Last(Around) = "repeated"
    BY <1>1, Here, ActionHere DEF CompilerReady, Ends
  <1>3. LoopsKnown(program, around, frames) /\ LoopKnown(program, Last(Around), k)
    BY <1>2, LoopsLeft DEF Innermost
  <1>4. source[mark][1] \in {"endwhile", "dowhile"} => k.lLoop \in DOMAIN program.labels
    BY <1>2, <1>3 DEF LoopKnown
  <1>5. Goes(Around, source[mark][1]) = around
    BY <1>1 DEF Goes
  <1>6. GoodLabels(program')
    BY DEF CompilerInvariant
  <1> HIDE DEF k, around, frames
  <1>7. Writes(program, program')
    <2>1. CASE source[mark][1] = "endif" /\ program' = assignLabel(program, k.lExit)
      BY <1>2, <1>6, <2>1, AssignWrites
    <2>2. CASE source[mark][1] = "endwhile" /\ program' = assignLabel(r, k.lExit)
      <3>1. Writes(program, r)
        BY <1>2, <1>4, <2>2, CodeWrites
      <3> HIDE DEF r
      <3>2. Writes(r, program')
        BY <1>6, <2>2, <3>1, ReadyThen, AssignWrites
      <3>3. QED BY <3>1, <3>2, WritesThen
    <2>3. CASE source[mark][1] = "dowhile" /\ program' = genBFormatInstruction(program, "BNE", Top, REG_0, k.lLoop)
      BY <1>2, <1>4, <2>3, CodeWrites
    <2>4. QED BY <1>1, <2>1, <2>2, <2>3
  <1>8. LoopsKnown(program', around, open')
    BY <1>1, <1>3, <1>7, LoopsStay
  <1>9. QED BY <1>1, <1>5, <1>7, <1>8, ReadyThen, ReadyMore

LEMMA ReadyStep == CompilerReady /\ CompilerNext => CompilerReady'
  <1> SUFFICES ASSUME CompilerReady, CompilerNext PROVE CompilerReady'
    OBVIOUS
  <1>1. CompilerInvariant'
    BY CompilerStep DEF CompilerReady
  <1>2. CASE Undeclared
    <2>1. program' = program /\ phase' = "error"
      BY <1>2 DEF Undeclared
    <2>2. QED BY <1>1, <2>1 DEF CompilerReady
  <1>3. CASE EndOfProgram
    <2>1. program' = genEpilog(program) /\ phase' # "compile"
      BY <1>3 DEF EndOfProgram
    <2>2. Ready(program)
      BY DEF CompilerReady
    <2>3. Writes(program, genEpilog(program))
      BY <2>2, CodeWrites, WritesItself DEF genEpilog, genExit0Syscall
    <2>4. QED BY <1>1, <2>1, <2>3, ReadyThen DEF CompilerReady
  <1>4. QED BY <1>1, <1>2, <1>3, ExpressionReady, SimpleReady, IfReady, LoopReady, PartReady, ExitReady DEF CompilerNext

LEMMA ReadyStart ==
  ASSUME CompilerInit, phase = "compile" => IsSeq(source) /\ Grammatical(source) /\ Lexed(source)
  PROVE  CompilerReady
  <1>1. CompilerInvariant
    BY CompilerStart
  <1>2. Ready(program) /\ open = <<>>
    BY NewProgramReady DEF CompilerInit
  <1>3. LoopsKnown(program, Around, open)
    <2>1. 1..Len(<<>>) = {}
      OBVIOUS
    <2>2. QED BY <1>2, <2>1 DEF LoopsKnown
  <1>4. QED BY <1>1, <1>2, <1>3 DEF CompilerReady

-----------------------------------------------------------------------------
(* Code that is lowered *)

SuchCode(q, opcodes, labels) == IsSeq(q) /\ \A n \in DOMAIN q : Writable(q[n], opcodes, labels)

Lowered ==
  {"ADD", "SUB", "MUL", "DIV", "REM", "AND", "XOR", "OR", "SLL", "SRA", "SLT", "SLTU", "SLTIU", "XORI", "ADDI",
   "LI", "LA", "LW", "SW", "BEQ", "BNE", "J", "ECALL"}
AfterPseudo == Lowered \union {"MULI"} \union DOMAIN SyscallID
AfterCalls == Lowered \union {"MULI"}

LEMMA OneElement ==
  ASSUME NEW a
  PROVE  IsSeq(<<a>>) /\ DOMAIN <<a>> = {1} /\ <<a>>[1] = a
  <1>1. a \in Range(<<a>>)
    BY DEF Range
  <1>2. <<a>> \in Seq({a})
    OBVIOUS
  <1>3. IsSeq(<<a>>)
    BY <1>2, SequenceOfItsElements DEF IsSeq
  <1>4. DOMAIN <<a>> = {1} /\ <<a>>[1] = a
    OBVIOUS
  <1>5. QED BY <1>3, <1>4

LEMMA Joined ==
  ASSUME NEW q, NEW r, IsSeq(q), IsSeq(r)
  PROVE  /\ IsSeq(q \o r)
         /\ \A n \in DOMAIN (q \o r) : (q \o r)[n] \in Range(q) \union Range(r)
         /\ Range(q \o r) \subseteq Range(q) \union Range(r)
  <1> DEFINE T == Range(q) \union Range(r)
             c == q \o r
  <1>1. q \in Seq(T) /\ r \in Seq(T)
    BY DEF IsSeq
  <1> HIDE DEF T
  <1>2. c \in Seq(T)
    BY <1>1, ConcatProperties
  <1> HIDE DEF c
  <1>3. IsSeq(c) /\ \A n \in DOMAIN c : c[n] \in T
    BY <1>2, SequenceOfItsElements DEF IsSeq
  <1>4. Range(c) \subseteq T
    BY <1>3 DEF Range
  <1>5. QED BY <1>3, <1>4 DEF c, T

LEMMA FlattenElements ==
  ASSUME NEW c, IsSeq(c), \A k \in DOMAIN c : IsSeq(c[k])
  PROVE  /\ IsSeq(FlattenSeq(c))
         /\ \A n \in DOMAIN FlattenSeq(c) : \E k \in DOMAIN c : FlattenSeq(c)[n] \in Range(c[k])
  <1> DEFINE T == UNION {Range(c[k]) : k \in DOMAIN c}
             N == Len(c)
             q == FlattenSeq(c)
  <1>1. N \in Nat /\ DOMAIN c = 1..N /\ c \in Seq(Range(c))
    BY SequenceOfItsElements DEF IsSeq
  <1>2. \A k \in 1..N : c[k] \in Seq(T)
    BY <1>1 DEF IsSeq
  <1> HIDE DEF T
  <1>3. c \in [1..N -> Seq(T)]
    BY <1>1, <1>2
  <1> HIDE DEF N
  <1>4. q \in Seq(T)
    BY <1>1, <1>3, FlattenTyped
  <1> HIDE DEF q
  <1>5. IsSeq(q) /\ \A n \in DOMAIN q : q[n] \in T
    BY <1>4, SequenceOfItsElements DEF IsSeq
  <1>6. QED BY <1>5 DEF q, T

LEMMA OneInstruction ==
  ASSUME NEW opcodes, NEW labels, NEW a, Writable(a, opcodes, labels)
  PROVE  SuchCode(<<a>>, opcodes, labels)
  BY OneElement DEF SuchCode

LEMMA MoreCode ==
  ASSUME NEW opcodes, NEW labels, NEW q, NEW r, SuchCode(q, opcodes, labels), SuchCode(r, opcodes, labels)
  PROVE  SuchCode(q \o r, opcodes, labels)
  <1> DEFINE c == q \o r
  <1>1. IsSeq(c) /\ \A n \in DOMAIN c : c[n] \in Range(q) \union Range(r)
    BY Joined DEF SuchCode
  <1> HIDE DEF c
  <1>2. SuchCode(c, opcodes, labels)
    BY <1>1 DEF SuchCode, Range
  <1>3. QED BY <1>2 DEF c

LEMMA TwoInstructions ==
  ASSUME NEW opcodes, NEW labels, NEW a, NEW b, Writable(a, opcodes, labels), Writable(b, opcodes, labels)
  PROVE  SuchCode(<<a, b>>, opcodes, labels) /\ <<a, b>> # <<>>
  <1> DEFINE c == <<a, b>>
  <1>1. c \in Seq({a, b}) /\ c # <<>>
    OBVIOUS
  <1> HIDE DEF c
  <1>2. IsSeq(c)
    BY <1>1, SequenceOfItsElements DEF IsSeq
  <1>3. \A n \in DOMAIN c : c[n] \in {a, b}
    BY <1>1
  <1>4. SuchCode(c, opcodes, labels)
    BY <1>2, <1>3 DEF SuchCode
  <1>5. QED BY <1>1, <1>4 DEF c

LEMMA MadeCode ==
  ASSUME NEW opcodes, NEW labels, NEW op \in opcodes, op \notin NamesLabel, NEW rd, NEW rs1, NEW rs2, NEW imm \in Int
  PROVE  Writable(Gen(op, rd, rs1, rs2, imm), opcodes, labels)
  BY DEF Writable, Fit, Gen, CodeFields

LEMMA FirstRelabelled ==
  ASSUME NEW opcodes, NEW labels, NEW q, SuchCode(q, opcodes, labels), q # <<>>, NEW l \in {0} \union labels
  PROVE  SuchCode([q EXCEPT ![1].label = l], opcodes, labels)
  <1> DEFINE r == [q EXCEPT ![1].label = l]
             N == Len(q)
  <1>1. N \in Nat /\ DOMAIN q = 1..N /\ q \in Seq(Range(q))
    BY SequenceOfItsElements DEF SuchCode, IsSeq
  <1>2. N # 0
    <2>1. \A z \in Seq(Range(q)) : Len(z) = 0 => z = <<>>
      BY EmptySeq
    <2>2. QED BY <1>1, <2>1
  <1>3. DOMAIN r = DOMAIN q /\ 1 \in DOMAIN q /\ r[1] = [q[1] EXCEPT !.label = l]
        /\ \A n \in DOMAIN q : n # 1 => r[n] = q[n]
    BY <1>1, <1>2
  <1>4. r \in [1..N -> Range(r)]
    BY <1>1, <1>3 DEF Range
  <1> HIDE DEF r, N
  <1>5. IsSeq(r)
    <2> DEFINE T == Range(r)
    <2>1. r \in [1..N -> T]
      BY <1>4
    <2> HIDE DEF T
    <2>2. r \in Seq(T)
      BY <1>1, <2>1
    <2>3. QED BY <2>2 DEF IsSeq, T
  <1>6. Writable(r[1], opcodes, labels)
    BY <1>3 DEF SuchCode, Writable, Fit, CodeFields
  <1>7. SuchCode(r, opcodes, labels)
    BY <1>3, <1>5, <1>6 DEF SuchCode
  <1>8. QED BY <1>7 DEF r

\* What a pass makes of the instructions one by one
LEMMA PassedCode ==
  ASSUME NEW before, NEW after, NEW labels, NEW q, SuchCode(q, before, labels), NEW fixed, DOMAIN fixed = DOMAIN q,
         \A n \in DOMAIN q : SuchCode(fixed[n], after, labels) /\ fixed[n] # <<>>
  PROVE  SuchCode(FlattenSeq([k \in DOMAIN q |-> [fixed[k] EXCEPT ![1].label = q[k].label]]), after, labels)
  <1> DEFINE c == [k \in DOMAIN q |-> [fixed[k] EXCEPT ![1].label = q[k].label]]
             r == FlattenSeq(c)
             N == Len(q)
  <1>1. N \in Nat /\ DOMAIN q = 1..N
    BY SequenceOfItsElements DEF SuchCode, IsSeq
  <1>2. ASSUME NEW k \in DOMAIN q
        PROVE  SuchCode(c[k], after, labels)
    <2> DEFINE g == fixed[k]
               l == q[k].label
    <2>1. l \in {0} \union labels /\ SuchCode(g, after, labels) /\ g # <<>>
      BY DEF SuchCode, Writable
    <2>2. c[k] = [g EXCEPT ![1].label = l]
      OBVIOUS
    <2> HIDE DEF g, l, c
    <2>3. QED BY <2>1, <2>2, FirstRelabelled
  <1>3. IsSeq(c)
    <2>1. DOMAIN c = 1..N /\ c \in [1..N -> Range(c)]
      BY <1>1 DEF Range
    <2>2. QED BY <1>1, <2>1 DEF IsSeq
  <1>4. DOMAIN c = DOMAIN q
    OBVIOUS
  <1> HIDE DEF c
  <1>5. IsSeq(r) /\ \A n \in DOMAIN r : \E k \in DOMAIN c : r[n] \in Range(c[k])
    BY <1>2, <1>3, <1>4, FlattenElements DEF SuchCode
  <1> HIDE DEF r
  <1>6. SuchCode(r, after, labels)
    BY <1>2, <1>4, <1>5 DEF SuchCode, Range
  <1>7. QED BY <1>6 DEF r, c

-----------------------------------------------------------------------------
(* The passes *)

OfAcse ==
  {"ADD", "SUB", "MUL", "DIV", "REM", "AND", "XOR", "OR", "SLL", "SRA", "SLT", "SGT", "SEQ", "SNE", "SLE", "SGE",
   "MULI", "LI", "LA", "LW", "SW", "BEQ", "BNE", "J"}
Calls4 == {"CALL_EXIT_0", "CALL_PRINT_INT", "CALL_READ_INT", "CALL_PRINT_CHAR"}

LEMMA OpcodesOfPasses ==
  /\ AcseOpcodes = OfAcse \union Calls4 /\ DOMAIN SyscallID = Calls4
  /\ \A c \in Calls4 : SyscallID[c] \in Int
  BY DEF AcseOpcodes, BinaryOperators, OfAcse, Calls4, SyscallID

LEMMA PseudoLowered ==
  ASSUME NEW labels, NEW i, Writable(i, AcseOpcodes, labels)
  PROVE  SuchCode(fixPseudoInstruction(i), AfterPseudo, labels) /\ fixPseudoInstruction(i) # <<>>
  <1> DEFINE op == i.opcode
             r == fixPseudoInstruction(i)
  <1>1. op \in OfAcse \union Calls4 /\ AfterPseudo = Lowered \union {"MULI"} \union Calls4
    BY OpcodesOfPasses DEF Writable, Fit, AfterPseudo
  <1>2. Writable(TestZero(i), AfterPseudo, labels)
    BY <1>1, MadeCode DEF TestZero, Lowered, NamesLabel
  <1>3. Writable(Gen("XORI", i.rd, i.rd, 0, 1), AfterPseudo, labels)
    BY <1>1, MadeCode DEF Lowered, NamesLabel
  <1>4. Writable(Gen("SUB", i.rd, i.rs1, i.rs2, 0), AfterPseudo, labels)
    BY <1>1, MadeCode DEF Lowered, NamesLabel
  <1>5. CASE op \in {"SEQ", "SNE"}
    <2>1. r = <<Gen("SUB", i.rd, i.rs1, i.rs2, 0), TestZero(i)>>
      BY <1>5 DEF fixPseudoInstruction
    <2>2. QED BY <1>2, <1>4, <2>1, TwoInstructions
  <1>6. CASE op = "SGE"
    <2>1. r = <<[i EXCEPT !.opcode = Less[@]], Gen("XORI", i.rd, i.rd, 0, 1)>>
      BY <1>6 DEF fixPseudoInstruction
    <2> DEFINE j == [i EXCEPT !.opcode = Less[@]]
    <2>2. Less[op] = "SLT"
      BY <1>6 DEF Less
    <2>3. Writable(j, AfterPseudo, labels)
      BY <1>1, <1>6, <2>2 DEF Writable, Fit, CodeFields, Lowered, NamesLabel
    <2> HIDE DEF j
    <2>4. QED BY <1>3, <2>1, <2>3, TwoInstructions DEF j
  <1>7. CASE op \in {"SLE", "SGT"}
    <2> DEFINE j == WithSwappedSources(i)
    <2>1. r = <<j, Gen("XORI", i.rd, i.rd, 0, 1)>> \/ r = <<j>>
      BY <1>7 DEF fixPseudoInstruction
    <2>2. Less[op] = "SLT"
      BY <1>7 DEF Less
    <2>3. Writable(j, AfterPseudo, labels)
      BY <1>1, <1>7, <2>2 DEF WithSwappedSources, Writable, Fit, CodeFields, Lowered, NamesLabel
    <2> HIDE DEF j
    <2>4. <<j>> # <<>>
      OBVIOUS
    <2>5. QED BY <1>3, <2>1, <2>3, <2>4, TwoInstructions, OneInstruction
  <1>8. CASE op \notin {"SEQ", "SNE", "SGE", "SLE", "SGT"}
    <2>1. op \notin {"SUBI", "SEQI", "SNEI", "SGEU", "SGEI", "SGEIU", "SGTI", "SGTIU", "SLEI", "SLEIU", "SLEU", "SGTU"}
      BY <1>1 DEF OfAcse, Calls4
    <2>2. r = <<i>>
      BY <1>8, <2>1 DEF fixPseudoInstruction
    <2>3. op \in AfterPseudo
      BY <1>1, <1>8 DEF OfAcse, Lowered
    <2>4. Writable(i, AfterPseudo, labels)
      BY <2>3 DEF Writable, Fit
    <2>5. <<i>> # <<>>
      OBVIOUS
    <2>6. QED BY <2>2, <2>4, <2>5, OneInstruction
  <1>9. QED BY <1>5, <1>6, <1>7, <1>8

LEMMA CallsLowered ==
  ASSUME NEW labels, NEW i, Writable(i, AfterPseudo, labels)
  PROVE  SuchCode(fixSyscall(i), AfterCalls, labels) /\ fixSyscall(i) # <<>>
  <1> DEFINE argument == IF i.opcode \in {"CALL_PRINT_INT", "CALL_PRINT_CHAR"}
                           THEN <<Gen("ADDI", REG_A0, i.rs1, 0, 0)>> ELSE <<>>
             result   == IF i.opcode = "CALL_READ_INT" THEN <<Gen("ADDI", i.rd, REG_A0, 0, 0)>> ELSE <<>>
             first == <<Gen("LI", REG_A7, 0, 0, SyscallID[i.opcode])>>
             call == <<Gen("ECALL", 0, 0, 0, 0)>>
             r == fixSyscall(i)
  <1>1. {"ADDI", "LI", "ECALL"} \subseteq AfterCalls /\ {"ADDI", "LI", "ECALL"} \cap NamesLabel = {}
    BY DEF AfterCalls, Lowered, NamesLabel
  <1>2. CASE i.opcode \notin DOMAIN SyscallID
    <2>1. r = <<i>> /\ <<i>> # <<>>
      BY <1>2 DEF fixSyscall
    <2>2. Writable(i, AfterCalls, labels)
      BY <1>2 DEF Writable, Fit, AfterPseudo, AfterCalls
    <2>3. QED BY <2>1, <2>2, OneInstruction
  <1>3. CASE i.opcode \in DOMAIN SyscallID
    <2>1. r = first \o argument \o call \o result
      BY <1>3 DEF fixSyscall
    <2>2. SyscallID[i.opcode] \in Int
      BY <1>3, OpcodesOfPasses
    <2>3. /\ SuchCode(first, AfterCalls, labels) /\ SuchCode(call, AfterCalls, labels)
          /\ SuchCode(<<Gen("ADDI", REG_A0, i.rs1, 0, 0)>>, AfterCalls, labels)
          /\ SuchCode(<<Gen("ADDI", i.rd, REG_A0, 0, 0)>>, AfterCalls, labels)
      BY <1>1, <2>2, MadeCode, OneInstruction
    <2>4. SuchCode(<<>>, AfterCalls, labels)
      BY DEF SuchCode, IsSeq
    <2>5. SuchCode(argument, AfterCalls, labels) /\ SuchCode(result, AfterCalls, labels)
      BY <2>3, <2>4
    <2>6. Len(first) = 1 /\ Len(call) = 1
      OBVIOUS
    <2> HIDE DEF first, argument, call, result
    <2>7. SuchCode(first \o argument \o call \o result, AfterCalls, labels)
      BY <2>3, <2>5, MoreCode
    <2>8. first \o argument \o call \o result # <<>>
      <3>1. \A q, z : IsSeq(q) /\ IsSeq(z) /\ Len(q) # 0 => q \o z # <<>> /\ Len(q \o z) # 0
        <4> SUFFICES ASSUME NEW q, NEW z, IsSeq(q), IsSeq(z), Len(q) # 0 PROVE q \o z # <<>> /\ Len(q \o z) # 0
          OBVIOUS
        <4>1. Len(q \o z) = Len(q) + Len(z) /\ Len(q) \in Nat /\ Len(z) \in Nat
          BY DEF IsSeq
        <4>2. Len(q \o z) # 0
          BY <4>1
        <4>3. QED BY <4>2
      <3>2. IsSeq(first) /\ IsSeq(argument) /\ IsSeq(call) /\ IsSeq(result) /\ IsSeq(first \o argument)
            /\ IsSeq(first \o argument \o call)
        BY <2>3, <2>5, MoreCode DEF SuchCode
      <3>3. Len(first \o argument) # 0
        BY <2>6, <3>1, <3>2
      <3>4. Len(first \o argument \o call) # 0
        BY <3>1, <3>2, <3>3
      <3>5. QED BY <3>1, <3>2, <3>4
    <2>9. QED BY <2>1, <2>7, <2>8
  <1>4. QED BY <1>2, <1>3

LEMMA ImmediatesLowered ==
  ASSUME NEW labels, NEW i, NEW reg, Writable(i, AfterCalls, labels)
  PROVE  SuchCode(fixUnsupportedImmediate(i, reg), Lowered, labels) /\ fixUnsupportedImmediate(i, reg) # <<>>
  <1> DEFINE r == fixUnsupportedImmediate(i, reg)
             load == Gen("LI", reg, 0, 0, i.imm)
             op == getMatchingNonImmediateOpcode[i.opcode]
             j == Gen(op, i.rd, i.rs1, reg, 0)
             set == Gen("LI", i.rd, 0, 0, i.imm)
  <1>1. \/ r = <<i>> /\ i.opcode # "MULI"
        \/ r = <<set>>
        \/ r = <<load, j>> /\ i.opcode \in DOMAIN getMatchingNonImmediateOpcode
    <2>1. i.opcode \in AfterCalls
      BY DEF Writable, Fit
    <2>2. i.opcode \notin {"SLLI", "SRLI", "SRAI"}
      BY <2>1 DEF AfterCalls, Lowered
    <2>3. "MULI" \in DOMAIN getMatchingNonImmediateOpcode /\ "ADDI" \in DOMAIN getMatchingNonImmediateOpcode
      BY DEF getMatchingNonImmediateOpcode
    <2>4. CASE ~isImmediateArgumentInstrOpcode(i.opcode)
      BY <2>2, <2>3, <2>4 DEF fixUnsupportedImmediate, isImmediateArgumentInstrOpcode
    <2>5. CASE isImmediateArgumentInstrOpcode(i.opcode) /\ i.opcode = "ADDI" /\ i.rs1 = REG_0
      <3>1. QED BY <2>5 DEF fixUnsupportedImmediate, isImmediateArgumentInstrOpcode
    <2>6. CASE isImmediateArgumentInstrOpcode(i.opcode) /\ ~(i.opcode = "ADDI" /\ i.rs1 = REG_0)
      <3>1. CASE i.opcode \in {"MULI", "DIVI", "REMI"} \/ ~isInt12(i.imm)
        BY <2>6, <3>1 DEF fixUnsupportedImmediate, isImmediateArgumentInstrOpcode
      <3>2. CASE ~(i.opcode \in {"MULI", "DIVI", "REMI"} \/ ~isInt12(i.imm))
        BY <2>2, <2>6, <3>2 DEF fixUnsupportedImmediate, isImmediateArgumentInstrOpcode
      <3>3. QED BY <3>1, <3>2
    <2>7. QED BY <2>4, <2>5, <2>6
  <1>2. Writable(load, Lowered, labels) /\ Writable(set, Lowered, labels)
    <2>1. "LI" \in Lowered /\ "LI" \notin NamesLabel /\ i.imm \in Int
      BY DEF Lowered, NamesLabel, Writable, Fit
    <2>2. QED BY <2>1, MadeCode
  <1>3. CASE r = <<i>> /\ i.opcode # "MULI"
    <2>1. Writable(i, Lowered, labels)
      BY <1>3 DEF Writable, Fit, AfterCalls
    <2>2. <<i>> # <<>>
      OBVIOUS
    <2>3. QED BY <1>3, <2>1, <2>2, OneInstruction
  <1>4. CASE r = <<set>>
    <2>1. <<set>> # <<>>
      OBVIOUS
    <2> HIDE DEF set
    <2>2. QED BY <1>2, <1>4, <2>1, OneInstruction
  <1>5. CASE r = <<load, j>> /\ i.opcode \in DOMAIN getMatchingNonImmediateOpcode
    <2>1. i.opcode \in {"XORI", "ADDI", "MULI", "SLTIU"}
      BY <1>5 DEF Writable, Fit, AfterCalls, Lowered, getMatchingNonImmediateOpcode
    <2>2. op \in Lowered /\ op \notin NamesLabel
      BY <2>1 DEF Lowered, NamesLabel, getMatchingNonImmediateOpcode
    <2> HIDE DEF op
    <2>3. Writable(j, Lowered, labels)
      BY <2>2, MadeCode
    <2> HIDE DEF j, load
    <2>4. QED BY <1>2, <1>5, <2>3, TwoInstructions
  <1>6. QED BY <1>1, <1>3, <1>4, <1>5

LEMMA ProgramLowered ==
  ASSUME NEW p, Ready(p)
  PROVE  SuchCode(doTargetSpecificTransformations(p), Lowered, DOMAIN p.labels)
  <1> DEFINE labels == DOMAIN p.labels
             reg == Allocated(p.firstUnusedReg)
             c == p.instructions
             a == [k \in DOMAIN c |-> AllocatedIn(c[k])]
             fa == [k \in DOMAIN a |-> fixPseudoInstruction(a[k])]
             b == FlattenSeq([k \in DOMAIN a |-> [fa[k] EXCEPT ![1].label = a[k].label]])
             fb == [k \in DOMAIN b |-> fixSyscall(b[k])]
             d == FlattenSeq([k \in DOMAIN b |-> [fb[k] EXCEPT ![1].label = b[k].label]])
             fd == [k \in DOMAIN d |-> fixUnsupportedImmediate(d[k], reg)]
             e == FlattenSeq([k \in DOMAIN d |-> [fd[k] EXCEPT ![1].label = d[k].label]])
  <1>1. doTargetSpecificTransformations(p) = e
    <2>1. b = Pass(fixPseudoInstruction, a)
      BY DEF Pass
    <2>2. d = Pass(fixSyscall, b)
      <3> HIDE DEF b
      <3>1. QED BY DEF Pass
    <2> DEFINE FixImmediate(i) == fixUnsupportedImmediate(i, reg)
    <2>3. e = Pass(FixImmediate, d)
      <3> HIDE DEF d
      <3>1. QED BY DEF Pass
    <2>4. QED BY <2>1, <2>2, <2>3 DEF doTargetSpecificTransformations, Pass
  <1>2. SuchCode(a, AcseOpcodes, labels)
    <2> DEFINE N == Len(c)
    <2>1. IsSeq(c) /\ \A n \in DOMAIN c : c[n].label \in {0} \union labels
      BY DEF Ready, GoodLabels, TypedProgram
    <2>2. N \in Nat /\ DOMAIN c = 1..N
      BY <2>1, SequenceOfItsElements DEF IsSeq
    <2>3. a \in [1..N -> Range(a)]
      BY <2>2 DEF Range
    <2>4. IsSeq(a)
      BY <2>2, <2>3 DEF IsSeq
    <2>5. ASSUME NEW n \in DOMAIN c
          PROVE  Writable(a[n], AcseOpcodes, labels)
      <3> DEFINE i == c[n]
      <3>1. Fit(i, AcseOpcodes, labels) /\ i.label \in {0} \union labels
        BY <2>1 DEF Ready
      <3>2. a[n] = AllocatedIn(i)
        OBVIOUS
      <3> HIDE DEF i, a, labels
      <3>3. QED BY <3>1, <3>2 DEF AllocatedIn, Writable, Fit, CodeFields
    <2>6. DOMAIN a = DOMAIN c
      OBVIOUS
    <2>7. QED BY <2>4, <2>5, <2>6 DEF SuchCode
  <1> HIDE DEF a, labels
  <1>3. SuchCode(b, AfterPseudo, labels)
    <2>1. \A n \in DOMAIN a : SuchCode(fa[n], AfterPseudo, labels) /\ fa[n] # <<>>
      BY <1>2, PseudoLowered DEF SuchCode
    <2>2. DOMAIN fa = DOMAIN a
      OBVIOUS
    <2> HIDE DEF fa
    <2>3. QED BY <1>2, <2>1, <2>2, PassedCode
  <1> HIDE DEF b
  <1>4. SuchCode(d, AfterCalls, labels)
    <2>1. \A n \in DOMAIN b : SuchCode(fb[n], AfterCalls, labels) /\ fb[n] # <<>>
      BY <1>3, CallsLowered DEF SuchCode
    <2>2. DOMAIN fb = DOMAIN b
      OBVIOUS
    <2> HIDE DEF fb
    <2>3. QED BY <1>3, <2>1, <2>2, PassedCode
  <1> HIDE DEF d
  <1>5. SuchCode(e, Lowered, labels)
    <2>1. \A n \in DOMAIN d : SuchCode(fd[n], Lowered, labels) /\ fd[n] # <<>>
      BY <1>4, ImmediatesLowered DEF SuchCode
    <2>2. DOMAIN fd = DOMAIN d
      OBVIOUS
    <2> HIDE DEF fd
    <2>3. QED BY <1>4, <2>1, <2>2, PassedCode
  <1>6. QED BY <1>1, <1>5 DEF labels

-----------------------------------------------------------------------------
(* Files that acse writes *)

LEMMA Tokens ==
  /\ \A n \in Int : IsToken(Constant(n))
  /\ \A n : n[1] # ".local" => IsToken(Name(n))
  /\ \A n : IsToken(Register(n))
  /\ \A op \in Mnemonics : IsToken(Mnemonic(op))
  /\ IsToken(Comma) /\ IsToken(Colon) /\ IsToken(<<"(">>) /\ IsToken(<<")">>) /\ IsToken(<<".global">>)
  /\ IsToken(<<".text">>) /\ IsToken(<<".data">>) /\ IsToken(<<".space">>)
  BY DEF IsToken, Kind, Constant, Name, Register, Mnemonic, Comma, Colon

LEMMA LineOfTokens ==
  ASSUME NEW T, \A t \in T : IsToken(t), NEW q \in Seq(T)
  PROVE  IsLine(q)
  <1>1. q \in Seq(Range(q)) /\ DOMAIN q = 1..Len(q)
    BY SequenceOfItsElements
  <1>2. \A t \in Range(q) : t \in T
    BY DEF Range
  <1>3. QED BY <1>1, <1>2 DEF IsLine

LEMMA LinesJoin ==
  ASSUME NEW q, NEW r, IsLine(q), IsLine(r)
  PROVE  IsLine(q \o r)
  <1> DEFINE c == q \o r
  <1>1. IsSeq(c) /\ Range(c) \subseteq Range(q) \union Range(r)
    BY Joined DEF IsLine, IsSeq
  <1> HIDE DEF c
  <1>2. IsLine(c)
    BY <1>1 DEF IsLine, IsSeq
  <1>3. QED BY <1>2 DEF c

LEMMA FilesJoin ==
  ASSUME NEW f, NEW g, IsFile(f), IsFile(g)
  PROVE  IsFile(f \o g)
  <1> DEFINE c == f \o g
  <1>1. IsSeq(c) /\ Range(c) \subseteq Range(f) \union Range(g)
    BY Joined DEF IsFile, IsSeq
  <1> HIDE DEF c
  <1>2. IsFile(c)
    BY <1>1 DEF IsFile, IsSeq
  <1>3. QED BY <1>2 DEF c

LEMMA FileOfLine ==
  ASSUME NEW t, IsToken(t)
  PROVE  IsFile(<<<<t>>>>)
  <1> DEFINE q == <<t>>
             f == <<q>>
  <1>1. q \in Seq({t})
    OBVIOUS
  <1> HIDE DEF q
  <1>2. IsLine(q)
    BY <1>1, LineOfTokens
  <1>3. f \in Seq({q})
    OBVIOUS
  <1> HIDE DEF f
  <1>4. f \in Seq(Range(f)) /\ \A l \in Range(f) : l = q
    BY <1>3, SequenceOfItsElements DEF Range
  <1>5. IsFile(f)
    BY <1>2, <1>4 DEF IsFile
  <1>6. QED BY <1>5 DEF f, q

\* A line for each of some things
LEMMA FileOfLines ==
  ASSUME NEW q, IsSeq(q), NEW f, DOMAIN f = DOMAIN q, f = [n \in DOMAIN f |-> f[n]], \A n \in DOMAIN q : IsLine(f[n])
  PROVE  IsFile(f)
  <1> DEFINE N == Len(q)
             T == Range(f)
  <1>1. N \in Nat /\ DOMAIN q = 1..N
    BY SequenceOfItsElements DEF IsSeq
  <1>2. f \in [1..N -> T]
    BY <1>1 DEF Range
  <1> HIDE DEF N, T
  <1>3. f \in Seq(T)
    BY <1>1, <1>2
  <1>4. QED BY <1>3 DEF IsFile, Range, T

LEMMA NamesAreNames ==
  ASSUME NEW p, GoodLabels(p), NEW k \in DOMAIN p.labels
  PROVE  getLabelName(p.labels[k])[1] # ".local" /\ IsToken(LabelName(p, k))
  <1> DEFINE l == p.labels[k]
             n == getLabelName(l)
  <1>1. l.name = NoLabel \/ l.name = <<"_start">> \/ \E id : l.name = <<"l_", id>>
    BY DEF GoodLabels, NamedCode, NamedSymbols, IsOfSymbol, IDOf
  <1>2. n[1] # ".local"
    <2>1. CASE l.name = NoLabel
      BY <2>1 DEF getLabelName
    <2>2. CASE l.name = <<"_start">>
      <3>1. l.name[1] = "_start" /\ l.name # NoLabel
        BY <2>2 DEF NoLabel
      <3>2. QED BY <3>1 DEF getLabelName
    <2>3. ASSUME NEW id, l.name = <<"l_", id>>
          PROVE  n[1] # ".local"
      <3>1. l.name[1] = "l_" /\ l.name # NoLabel
        BY <2>3 DEF NoLabel
      <3>2. QED BY <3>1 DEF getLabelName
    <2>4. QED BY <1>1, <2>1, <2>2, <2>3
  <1>3. LabelName(p, k) = Name(n)
    BY DEF LabelName
  <1> HIDE DEF n
  <1>4. IsToken(LabelName(p, k))
    BY <1>2, <1>3, Tokens
  <1>5. QED BY <1>2, <1>4 DEF n

LEMMA BeforeIsLine ==
  ASSUME NEW p, GoodLabels(p), NEW l \in {0} \union DOMAIN p.labels
  PROVE  IsLine(Before(p, l))
  <1>1. CASE l = 0
    <2>1. Before(p, l) = <<>> /\ <<>> \in Seq({})
      BY <1>1 DEF Before
    <2>2. IsLine(<<>>)
      BY <2>1, LineOfTokens
    <2>3. QED BY <2>1, <2>2
  <1>2. CASE l # 0
    <2> DEFINE t == LabelName(p, l)
    <2>1. IsToken(t) /\ IsToken(Colon)
      BY <1>2, NamesAreNames, Tokens
    <2>2. Before(p, l) = <<t, Colon>>
      BY <1>2 DEF Before
    <2> HIDE DEF t
    <2>3. <<t, Colon>> \in Seq({t, Colon})
      OBVIOUS
    <2>4. IsLine(<<t, Colon>>)
      BY <2>1, <2>3, LineOfTokens
    <2>5. QED BY <2>2, <2>4
  <1>3. QED BY <1>1, <1>2

LEMMA FormatsOfLowered ==
  ASSUME NEW op \in Lowered
  PROVE  /\ op \in Mnemonics
         /\ opcodeToFormat(op) \in {"OP", "OPIMM", "LOAD", "STORE", "BRANCH", "JUMP", "LI", "LA", "SYSTEM"}
         /\ opcodeToFormat(op) \in {"BRANCH", "JUMP", "LA"} => op \in NamesLabel
  <1>1. op \in Mnemonics
    BY DEF Lowered, Mnemonics, Operations, RegisterForm, Loads, Stores, Conditions
  <1>2. CASE op \in {"ADD", "SUB", "MUL", "DIV", "REM", "AND", "XOR", "OR", "SLL", "SRA", "SLT", "SLTU"}
    <2>1. opcodeToFormat(op) = "OP"
      BY <1>2 DEF opcodeToFormat, Operations, Conditions, isImmediateArgumentInstrOpcode, getMatchingNonImmediateOpcode
    <2>2. QED BY <1>1, <2>1
  <1>3. CASE op \in {"SLTIU", "XORI", "ADDI"}
    <2>1. opcodeToFormat(op) = "OPIMM"
      BY <1>3 DEF opcodeToFormat, Operations, Conditions, isImmediateArgumentInstrOpcode, getMatchingNonImmediateOpcode
    <2>2. QED BY <1>1, <2>1
  <1>4. CASE op \in {"LI", "LA", "LW", "SW", "BEQ", "BNE", "J", "ECALL"}
    BY <1>1, <1>4 DEF opcodeToFormat, Operations, Conditions, isImmediateArgumentInstrOpcode,
                      getMatchingNonImmediateOpcode, NamesLabel
  <1>5. QED BY <1>2, <1>3, <1>4 DEF Lowered

LEMMA InstructionIsLine ==
  ASSUME NEW p, GoodLabels(p), NEW i, Writable(i, Lowered, DOMAIN p.labels)
  PROVE  IsLine(printInstruction(p, i))
  <1> DEFINE rd  == Register(i.rd)
             rs1 == Register(i.rs1)
             rs2 == Register(i.rs2)
             imm == Constant(i.imm)
             address  == LabelName(p, i.addressParam)
             indirect == <<imm, <<"(">>, rs1, <<")">>>>
             format   == opcodeToFormat(i.opcode)
             name == Mnemonic(i.opcode)
             T == {rd, rs1, rs2, imm, Comma, <<"(">>, <<")">>, name}
                    \union IF i.opcode \in NamesLabel THEN {address} ELSE {}
             operands ==
               CASE format = "OP" -> <<rd, Comma, rs1, Comma, rs2>>
                 [] format = "OPIMM" -> <<rd, Comma, rs1, Comma, imm>>
                 [] format = "LOAD" -> <<rd, Comma>> \o indirect
                 [] format = "STORE" -> <<rs2, Comma>> \o indirect
                 [] format = "BRANCH" -> <<rs1, Comma, rs2, Comma, address>>
                 [] format = "JUMP" -> <<address>>
                 [] format = "LI" -> <<rd, Comma, imm>>
                 [] format = "LA" -> <<rd, Comma, address>>
                 [] format = "SYSTEM" -> <<>>
             code == instructionToString(p, i)
  <1>1. /\ i.opcode \in Mnemonics
        /\ format \in {"OP", "OPIMM", "LOAD", "STORE", "BRANCH", "JUMP", "LI", "LA", "SYSTEM"}
        /\ format \in {"BRANCH", "JUMP", "LA"} => i.opcode \in NamesLabel
    BY FormatsOfLowered DEF Writable, Fit
  <1>2. IsToken(rd) /\ IsToken(rs1) /\ IsToken(rs2) /\ IsToken(imm) /\ IsToken(name)
        /\ IsToken(Comma) /\ IsToken(<<"(">>) /\ IsToken(<<")">>)
        /\ (i.opcode \in NamesLabel => IsToken(address))
    BY <1>1, Tokens, NamesAreNames DEF Writable, Fit
  <1>3. code = <<name>> \o operands
    BY DEF instructionToString
  <1>4. /\ {rd, rs1, rs2, imm, Comma, <<"(">>, <<")">>, name} \subseteq T
        /\ (i.opcode \in NamesLabel => address \in T)
        /\ \A t \in T : IsToken(t)
    <2> HIDE DEF rd, rs1, rs2, imm, address, name
    <2>1. QED BY <1>2
  <1> HIDE DEF rd, rs1, rs2, imm, address, name, format, code, T
  <1>5. operands \in Seq(T)
    <2>1. indirect \in Seq(T) /\ <<rd, Comma>> \in Seq(T) /\ <<rs2, Comma>> \in Seq(T)
      BY <1>4
    <2> HIDE DEF indirect
    <2>2. <<rd, Comma>> \o indirect \in Seq(T) /\ <<rs2, Comma>> \o indirect \in Seq(T)
      BY <2>1, ConcatProperties
    <2>3. /\ <<rd, Comma, rs1, Comma, rs2>> \in Seq(T) /\ <<rd, Comma, rs1, Comma, imm>> \in Seq(T)
          /\ <<rd, Comma, imm>> \in Seq(T) /\ <<>> \in Seq(T)
      BY <1>4
    <2>4. i.opcode \in NamesLabel =>
            /\ <<rs1, Comma, rs2, Comma, address>> \in Seq(T) /\ <<address>> \in Seq(T)
            /\ <<rd, Comma, address>> \in Seq(T)
      BY <1>4
    <2>5. CASE format = "OP"
      BY <2>3, <2>5
    <2>6. CASE format = "OPIMM"
      BY <2>3, <2>6
    <2>7. CASE format = "LOAD"
      BY <2>2, <2>7
    <2>8. CASE format = "STORE"
      BY <2>2, <2>8
    <2>9. CASE format = "BRANCH"
      BY <1>1, <2>4, <2>9
    <2>10. CASE format = "JUMP"
      BY <1>1, <2>4, <2>10
    <2>11. CASE format = "LI"
      BY <2>3, <2>11
    <2>12. CASE format = "LA"
      BY <1>1, <2>4, <2>12
    <2>13. CASE format = "SYSTEM"
      BY <2>3, <2>13
    <2>14. QED BY <1>1, <2>5, <2>6, <2>7, <2>8, <2>9, <2>10, <2>11, <2>12, <2>13
  <1> HIDE DEF operands
  <1>6. code \in Seq(T)
    <2>1. <<name>> \in Seq(T)
      BY <1>4
    <2>2. QED BY <1>3, <1>5, <2>1, ConcatProperties
  <1>7. IsLine(code)
    BY <1>4, <1>6, LineOfTokens
  <1>8. IsLine(Before(p, i.label))
    BY BeforeIsLine DEF Writable
  <1>9. QED BY <1>7, <1>8, LinesJoin DEF printInstruction, code

LEMMA CodeIsFile ==
  ASSUME NEW p, GoodLabels(p), NEW q, SuchCode(q, Lowered, DOMAIN p.labels)
  PROVE  IsFile(translateCodeSegment(p, q))
  <1> DEFINE f == [k \in DOMAIN q |-> printInstruction(p, q[k])]
  <1>1. IsSeq(q) /\ DOMAIN f = DOMAIN q /\ f = [n \in DOMAIN f |-> f[n]]
    BY DEF SuchCode
  <1>2. \A n \in DOMAIN q : IsLine(f[n])
    BY InstructionIsLine DEF SuchCode
  <1>3. translateCodeSegment(p, q) = <<<<<<".text">>>>>> \o f
    BY DEF translateCodeSegment
  <1> HIDE DEF f
  <1>4. IsFile(f) /\ IsFile(<<<<<<".text">>>>>>)
    BY <1>1, <1>2, FileOfLines, FileOfLine, Tokens
  <1>5. QED BY <1>3, <1>4, FilesJoin

LEMMA EmptyFile == IsFile(<<>>)
  BY DEF IsFile, Range

LEMMA DataIsFile ==
  ASSUME NEW p, Ready(p)
  PROVE  IsFile(translateDataSegment(p))
  <1> DEFINE q == p.symbols
             f == [k \in DOMAIN q |-> printGlobalDeclaration(p, q[k])]
  <1>1. IsSeq(q) /\ DOMAIN f = DOMAIN q /\ f = [n \in DOMAIN f |-> f[n]]
    BY DEF Ready, GoodLabels, TypedProgram
  <1>2. ASSUME NEW n \in DOMAIN q
        PROVE  IsLine(f[n])
    <2> DEFINE bytes == IF isArray(q[n]) THEN WordBytes * q[n].arraySize ELSE WordBytes
               space == <<<<".space">>, Constant(bytes)>>
    <2>1. f[n] = Before(p, q[n].label) \o space
      BY DEF printGlobalDeclaration
    <2>2. IsLine(Before(p, q[n].label))
      BY BeforeIsLine DEF Ready, GoodLabels, TypedProgram
    <2>3. bytes \in Int
      <3>1. WordBytes \in Int /\ q[n].arraySize \in Int
        BY WidthAssumption DEF Ready
      <3>2. QED BY <3>1
    <2> HIDE DEF bytes
    <2>4. IsToken(Constant(bytes)) /\ IsToken(<<".space">>)
      BY <2>3, Tokens
    <2>5. space \in Seq({<<".space">>, Constant(bytes)})
      OBVIOUS
    <2>6. IsLine(space)
      BY <2>4, <2>5, LineOfTokens
    <2>7. QED BY <2>1, <2>2, <2>6, LinesJoin
  <1>3. translateDataSegment(p) = <<>> \/ translateDataSegment(p) = <<<<<<".data">>>>>> \o f
    BY DEF translateDataSegment
  <1> HIDE DEF f
  <1>4. IsFile(f) /\ IsFile(<<<<<<".data">>>>>>)
    BY <1>1, <1>2, FileOfLines, FileOfLine, Tokens
  <1>5. IsFile(<<<<<<".data">>>>>> \o f)
    BY <1>4, FilesJoin
  <1>6. QED BY <1>3, <1>5, EmptyFile

LEMMA DeclarationsAreFile ==
  ASSUME NEW p, GoodLabels(p)
  PROVE  IsFile(translateForwardDeclarations(p))
  <1> DEFINE q == p.labels
             declared(k) == <<<<".global">>, Name(getLabelName(q[k]))>>
             c == [k \in DOMAIN q |-> LET l == q[k] IN IF l.global /\ ~l.isAlias THEN <<declared(k)>> ELSE <<>>]
             r == FlattenSeq(c)
             N == Len(q)
  <1>1. translateForwardDeclarations(p) = r
    BY DEF translateForwardDeclarations
  <1>2. N \in Nat /\ DOMAIN q = 1..N
    <2>1. IsSeq(q)
      BY DEF GoodLabels, TypedProgram
    <2>2. QED BY <2>1, SequenceOfItsElements DEF IsSeq
  <1>3. ASSUME NEW k \in DOMAIN q
        PROVE  IsFile(c[k])
    <2> DEFINE t == Name(getLabelName(q[k]))
               d == <<<<".global">>, t>>
    <2>1. IsToken(t) /\ IsToken(<<".global">>)
      BY NamesAreNames, Tokens
    <2>2. c[k] = <<d>> \/ c[k] = <<>>
      OBVIOUS
    <2> HIDE DEF t, c
    <2>3. d \in Seq({<<".global">>, t})
      OBVIOUS
    <2>4. IsLine(d)
      BY <2>1, <2>3, LineOfTokens
    <2> HIDE DEF d
    <2>5. <<d>> \in Seq({d})
      OBVIOUS
    <2>6. IsFile(<<d>>)
      BY <2>4, <2>5, SequenceOfItsElements, OneElement DEF IsFile, Range
    <2>7. QED BY <2>2, <2>6, EmptyFile
  <1>4. DOMAIN c = DOMAIN q /\ IsSeq(c)
    <2> DEFINE T == Range(c)
    <2>1. DOMAIN c = 1..N /\ c \in [1..N -> T]
      BY <1>2 DEF Range
    <2>2. c \in Seq(T)
      <3> HIDE DEF c, T, N
      <3>1. QED BY <1>2, <2>1
    <2>3. QED BY <1>2, <2>1, <2>2 DEF IsSeq
  <1> HIDE DEF c
  <1>5. IsSeq(r) /\ \A n \in DOMAIN r : \E k \in DOMAIN c : r[n] \in Range(c[k])
    BY <1>3, <1>4, FlattenElements DEF IsFile, IsSeq
  <1> HIDE DEF r
  <1>6. IsFile(r)
    BY <1>3, <1>4, <1>5 DEF IsFile, IsSeq, Range
  <1>7. QED BY <1>1, <1>6

\* What acse writes the lexer of the assembler takes apart.
LEMMA WrittenIsFile ==
  ASSUME NEW p, Ready(p)
  PROVE  IsFile(writeAssembly(p))
  <1>1. GoodLabels(p)
    BY DEF Ready
  <1>2. IsFile(translateForwardDeclarations(p)) /\ IsFile(translateDataSegment(p))
    BY <1>1, DeclarationsAreFile, DataIsFile
  <1>3. IsFile(translateCodeSegment(p, doTargetSpecificTransformations(p)))
    BY <1>1, ProgramLowered, CodeIsFile
  <1>4. QED BY <1>2, <1>3, FilesJoin DEF writeAssembly

-----------------------------------------------------------------------------
(* The whole toolchain *)

\* A program of acse becomes a file, or somebody has written one.
ToolchainInvariant ==
  /\ CompilerReady /\ FileInvariant
  /\ phase \in LayoutPhases \union {"parse"} => IsFile(file)

LEMMA ReadyFrame ==
  ASSUME CompilerReady, CompilerInvariant', UNCHANGED compilerVars, phase' = "compile" => phase = "compile"
  PROVE  CompilerReady'
  <1>1. source' = source /\ mark' = mark /\ program' = program /\ open' = open
    BY DEF compilerVars
  <1>2. Around' = Around
    BY <1>1 DEF Around
  <1>3. QED BY <1>1, <1>2 DEF CompilerReady

LEMMA ToolchainReady == Init => ToolchainInvariant
  <1> SUFFICES ASSUME Init PROVE ToolchainInvariant
    OBVIOUS
  <1>1. CompilerInit /\ phase \in {"compile", "parse"} /\ (phase = "compile" => source \in LancePrograms)
        /\ (phase = "parse" => file \in AssemblyFiles)
    BY DEF Init
  <1>2. CompilerReady
    <2>1. CompilerInvariant
      BY ToolchainStarts
    <2>2. CASE phase = "compile"
      <3>1. IsSeq(source) /\ Grammatical(source) /\ Lexed(source)
        BY <1>1, <2>2, ProgramsAssumption DEF IsSeq, Lexed
      <3>2. QED BY <1>1, <2>2, <3>1, ReadyStart
    <2>3. CASE phase = "parse"
      BY <1>1, <2>1, <2>3, NewProgramReady DEF CompilerReady, CompilerInit
    <2>4. QED BY <1>1, <2>2, <2>3
  <1>3. FileInvariant
    BY FileStarts
  <1>4. QED BY <1>1, <1>2, <1>3, FilesAssumption DEF ToolchainInvariant, LayoutPhases

LEMMA ToolchainGoes == ToolchainInvariant /\ [Next]_vars => ToolchainInvariant'
  <1> SUFFICES ASSUME ToolchainInvariant, [Next]_vars PROVE ToolchainInvariant'
    OBVIOUS
  <1>1. CompilerReady /\ CompilerInvariant /\ FileInvariant /\ (phase \in LayoutPhases \union {"parse"} => IsFile(file))
    BY DEF ToolchainInvariant, CompilerReady
  <1>2. FileInvariant' /\ CompilerInvariant'
    BY <1>1, FileStep, ToolchainStep
  <1>3. CASE Compile
    <2>1. CompilerReady'
      BY <1>1, <1>3, ReadyStep DEF Compile
    <2>2. phase' \in {"compile", "error", "write"}
      BY <1>3 DEF Compile, CompilerNext, Declare, Undeclared, Number, Variable, Element, Unary, Binary, Logical, Assign,
                  AssignElement, If, Else, EndIf, While, WhileCondition, EndWhile, Do, DoWhile, Return, Read, WriteOut,
                  EndOfProgram, Uses, At, NextMark
    <2>3. QED BY <1>2, <2>1, <2>2 DEF ToolchainInvariant, LayoutPhases
  <1>4. CASE WriteFile
    <2>1. UNCHANGED compilerVars /\ phase' = "parse" /\ file' = writeAssembly(program)
      BY <1>4 DEF WriteFile
    <2>2. IsFile(file')
      BY <1>1, <2>1, WrittenIsFile DEF CompilerReady
    <2>3. CompilerReady'
      BY <1>1, <1>2, <2>1, ReadyFrame
    <2>4. QED BY <1>2, <2>2, <2>3 DEF ToolchainInvariant
  <1>5. ASSUME UNCHANGED compilerVars, file' = file, phase' = "compile" => phase = "compile",
               phase' \in LayoutPhases \union {"parse"} => phase \in LayoutPhases \union {"parse"}
        PROVE  ToolchainInvariant'
    <2>1. CompilerReady'
      BY <1>1, <1>2, <1>5, ReadyFrame
    <2>2. QED BY <1>1, <1>2, <1>5, <2>1 DEF ToolchainInvariant
  <1>6. CASE Parse
    BY <1>5, <1>6 DEF Parse, ParseLine, LayoutPhases
  <1>7. CASE EndOfFile
    BY <1>5, <1>7 DEF EndOfFile, parserVars, LayoutPhases
  <1>8. CASE Lay
    <2>1. phase \in LayoutPhases /\ phase' # "compile"
      BY <1>8 DEF Lay, LayoutNext, Expand, Expanded, Place, AllPlaced, Resolve, AllResolved, Encode, AllEncoded, Write,
                  SectionWritten, EndOfSection, AtItem, LayoutPhases
    <2>2. QED BY <1>5, <1>8, <2>1 DEF Lay, parserVars
  <1>9. CASE Boot
    BY <1>5, <1>9 DEF Boot, Load, parserVars, LayoutPhases
  <1>10. CASE Run
    <2>1. UNCHANGED compilerVars /\ file' = file
      BY <1>10 DEF Run, Compute, LoadWord, StoreWord, Jump, Branch, PrintInt, PrintChar, ReadInt, Exit, Fault, RunFrame,
                   parserVars
    <2>2. phase' \in {"run", "exited", "fault"}
      BY <1>10 DEF Run, Compute, LoadWord, StoreWord, Jump, Branch, PrintInt, PrintChar, ReadInt, Exit, Fault, Calls,
                   RunningOn, Running
    <2>3. QED BY <1>5, <2>1, <2>2 DEF LayoutPhases
  <1>11. CASE Finished \/ UNCHANGED vars
    BY <1>5, <1>11 DEF Finished, vars, parserVars
  <1>12. QED BY <1>3, <1>4, <1>6, <1>7, <1>8, <1>9, <1>10, <1>11 DEF Next

\* Whatever program is compiled, or file written by hand, a local label that an instruction
\* refers to is the nearest of its number, in the direction that the reference says.
THEOREM LocalLabelsCorrect == Spec => []LocalLabelsNearest
  <1>1. ToolchainInvariant => LocalLabelsNearest
    <2>1. CASE phase = "parse"
      BY <2>1, FilesLabels DEF ToolchainInvariant
    <2>2. CASE phase # "parse"
      BY <2>2 DEF LocalLabelsNearest
    <2>3. QED BY <2>1, <2>2
  <1>2. QED BY <1>1, ToolchainReady, ToolchainGoes, PTL DEF Spec

\* Whatever program is compiled, or file written by hand, the executable's jumps lead to
\* their labels, and the high and low parts of an address add up to it.
THEOREM FilesResolve == Spec => []ReferencesResolve
  <1>1. ToolchainInvariant => ReferencesResolve
    <2>1. CASE phase \in LayoutPhases
      BY <2>1, ReferencesLead DEF ToolchainInvariant, FileInvariant
    <2>2. CASE phase \notin LayoutPhases
      BY <2>2 DEF ReferencesResolve, LayoutPhases
    <2>3. QED BY <2>1, <2>2
  <1>2. QED BY <1>1, ToolchainReady, ToolchainGoes, PTL DEF Spec

\* Whatever program is compiled, or file written by hand, what the loader puts into memory is
\* what the assembler laid out.
THEOREM FilesLaid == Spec => []ImageMatchesLayout
  <1>1. ToolchainInvariant => ImageMatchesLayout
    <2>1. CASE phase \in LayoutPhases
      BY <2>1, LaidImage DEF ToolchainInvariant, FileInvariant, References
    <2>2. CASE phase \notin LayoutPhases
      BY <2>2 DEF ImageMatchesLayout, LayoutPhases
    <2>3. QED BY <2>1, <2>2
  <1>2. QED BY <1>1, ToolchainReady, ToolchainGoes, PTL DEF Spec
===============================================================================
