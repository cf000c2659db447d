-------------------------- MODULE SequenceInduction --------------------------
(***************************************************************************)
(* A set of natural numbers has a least one; hence induction over the      *)
(* numbers, stated for a set. From it what the proofs need of the operators*)
(* on sequences that are defined by recursive functions: FlattenSeq, piece *)
(* by piece, and FoldLeft, step by step.                                   *)
(***************************************************************************)
EXTENDS Naturals, Sequences, SequencesExt, WellFoundedInduction, TLAPS

\* The least number of a set.
LEMMA NatMin ==
  ASSUME NEW T, T \subseteq Nat, T # {}
  PROVE  \E m \in T : \A k \in T : m <= k
<1>1. \E m \in T : \A k \in T : <<k, m>> \notin OpToRel(<, Nat)
  BY NatLessThanWellFounded, WFMin, Zenon
<1>2. ASSUME NEW m \in T, NEW k \in T, <<k, m>> \notin OpToRel(<, Nat)
      PROVE  ~(k < m)
  BY <1>2 DEF OpToRel
<1>3. \A m, k \in T : ~(k < m) => m <= k
  OBVIOUS
<1>4. QED
  BY <1>1, <1>2, <1>3, Zenon

\* What holds of 0 and, with a number, of the next one, holds of all of them.
LEMMA SetInduction ==
  ASSUME NEW S, 0 \in S, \A n \in Nat : n \in S => n + 1 \in S
  PROVE  Nat \subseteq S
<1> SUFFICES ASSUME ~(Nat \subseteq S) PROVE FALSE
  OBVIOUS
<1>1. PICK m \in Nat \ S : \A k \in Nat \ S : m <= k
  BY NatMin
<1>2. m # 0
  OBVIOUS
<1>3. m - 1 \in Nat /\ m - 1 \in S
  BY <1>1, <1>2
<1>4. QED
  BY <1>3

-----------------------------------------------------------------------------
(* FlattenSeq: the recursive function it is defined by exists.             *)

\* g[i] is the first i sequences of t, one behind the other.
Flattens(T, n, t, g) ==
  /\ g \in [1..n -> Seq(T)]
  /\ g = [i \in 1..n |-> IF i = 1 THEN t[i] ELSE g[i - 1] \o t[i]]

\* There is such a function: for one member, and for one more.
LEMMA FlattenExists ==
  ASSUME NEW T, NEW n \in Nat, n # 0, NEW t \in [1..n -> Seq(T)]
  PROVE  \E g : Flattens(T, n, t, g)
<1> DEFINE Is(g, k) == /\ g \in [1..k -> Seq(T)]
                       /\ \A i \in 1..k : g[i] = IF i = 1 THEN t[i] ELSE g[i - 1] \o t[i]
           S == {k \in Nat : k <= n => \E g : Is(g, k)}
<1>1. 0 \in S
  <2>1. Is([i \in 1..0 |-> <<>>], 0)
    OBVIOUS
  <2> HIDE DEF Is
  <2>2. QED
    BY <2>1
<1>2. ASSUME NEW k \in Nat, k \in S PROVE k + 1 \in S
  <2> HIDE DEF Is
  <2> SUFFICES ASSUME k + 1 <= n PROVE \E h : Is(h, k + 1)
    OBVIOUS
  <2>1. PICK g : Is(g, k)
    BY <1>2
  <2> USE DEF Is
  <2> DEFINE h == [i \in 1..(k + 1) |->
                     IF i = k + 1 THEN IF i = 1 THEN t[i] ELSE g[k] \o t[i] ELSE g[i]]
  <2>2. ASSUME NEW i \in 1..(k + 1)
        PROVE  /\ h[i] \in Seq(T)
               /\ h[i] = IF i = 1 THEN t[i] ELSE h[i - 1] \o t[i]
    <3>0. t[i] \in Seq(T)
      OBVIOUS
    <3>1. CASE i = k + 1 /\ i # 1
      <4>1. k \in 1..k /\ g[k] \in Seq(T) /\ h[k] = g[k] /\ i - 1 = k
        BY <2>1, <3>1
      <4>2. h[i] = g[k] \o t[i]
        BY <3>1
      <4>3. g[k] \o t[i] \in Seq(T)
        BY <3>0, <4>1
      <4>4. QED
        BY <3>1, <4>1, <4>2, <4>3
    <3>2. CASE i = k + 1 /\ i = 1
      BY <3>0, <3>2
    <3>3. CASE i # k + 1
      <4>1. i \in 1..k /\ h[i] = g[i]
        BY <3>3
      <4>2. i # 1 => i - 1 \in 1..k /\ h[i - 1] = g[i - 1]
        BY <4>1
      <4>3. g[i] \in Seq(T) /\ g[i] = IF i = 1 THEN t[i] ELSE g[i - 1] \o t[i]
        BY <2>1, <4>1
      <4>4. QED
        BY <4>1, <4>2, <4>3
    <3>4. QED
      BY <3>1, <3>2, <3>3
  <2>3. h \in [1..(k + 1) -> Seq(T)]
    BY <2>2
  <2> HIDE DEF h
  <2>4. Is(h, k + 1)
    BY <2>2, <2>3
  <2> HIDE DEF Is
  <2>5. QED
    BY <2>4
<1>3. n \in S
  <2> HIDE DEF S
  <2>1. QED
    BY <1>1, <1>2, SetInduction
<1>4. PICK g : Is(g, n)
  <2> HIDE DEF Is
  <2>1. QED
    BY <1>3
<1>5. g = [i \in 1..n |-> IF i = 1 THEN t[i] ELSE g[i - 1] \o t[i]]
  BY <1>4
<1>6. Flattens(T, n, t, g)
  BY <1>4, <1>5 DEF Flattens
<1>7. QED
  BY <1>6

FlattensTo(T, n, t, g) ==
  /\ g \in [1..n -> Seq(T)]
  /\ \A i \in 1..n : g[i] = IF i = 1 THEN t[i] ELSE g[i - 1] \o t[i]
  /\ FlattenSeq(t) = g[n]

\* FlattenSeq() is its last value.
LEMMA FlattenBy ==
  ASSUME NEW T, NEW n \in Nat, n # 0, NEW t \in [1..n -> Seq(T)]
  PROVE  \E g : FlattensTo(T, n, t, g)
<1> DEFINE Is(g) == g = [i \in 1..n |-> IF i = 1 THEN t[i] ELSE g[i - 1] \o t[i]]
           c == CHOOSE g : Is(g)
<1>1. Len(t) = n
  OBVIOUS
<1>2. FlattenSeq(t) = c[n]
  BY <1>1 DEF FlattenSeq
<1>3. PICK g : Flattens(T, n, t, g)
  BY FlattenExists
<1>4. Is(c)
  <2>1. Is(g)
    BY <1>3 DEF Flattens
  <2> HIDE DEF Is
  <2>2. QED
    BY <2>1
<1> DEFINE S == {k \in Nat : k \in 1..n => c[k] = g[k]}
<1>5. 0 \in S
  OBVIOUS
<1>6. ASSUME NEW k \in Nat, k \in S PROVE k + 1 \in S
  <2> HIDE DEF c
  <2> SUFFICES ASSUME k + 1 \in 1..n PROVE c[k + 1] = g[k + 1]
    OBVIOUS
  <2>1. /\ c[k + 1] = IF k + 1 = 1 THEN t[k + 1] ELSE c[(k + 1) - 1] \o t[k + 1]
        /\ g[k + 1] = IF k + 1 = 1 THEN t[k + 1] ELSE g[(k + 1) - 1] \o t[k + 1]
    BY <1>3, <1>4 DEF Flattens
  <2>2. k + 1 # 1 => c[k] = g[k]
    BY <1>6
  <2>3. (k + 1) - 1 = k
    OBVIOUS
  <2>4. QED
    BY <2>1, <2>2, <2>3
<1>7. n \in S
  <2> HIDE DEF S
  <2>1. QED
    BY <1>5, <1>6, SetInduction
<1>8. \A i \in 1..n : g[i] = IF i = 1 THEN t[i] ELSE g[i - 1] \o t[i]
  BY <1>3 DEF Flattens
<1>9. FlattenSeq(t) = g[n]
  <2> HIDE DEF c
  <2>1. QED
    BY <1>2, <1>7
<1>10. FlattensTo(T, n, t, g)
  BY <1>3, <1>8, <1>9 DEF FlattensTo, Flattens
<1>11. QED
  BY <1>10

\* One sequence more.
LEMMA FlattenMore ==
  ASSUME NEW T, NEW n \in Nat, NEW t \in [1..(n + 1) -> Seq(T)],
         NEW u \in [1..n -> Seq(T)], \A i \in 1..n : u[i] = t[i]
  PROVE  /\ FlattenSeq(u) \in Seq(T)
         /\ FlattenSeq(t) = FlattenSeq(u) \o t[n + 1]
<1>1. PICK g : FlattensTo(T, n + 1, t, g)
  <2>1. n + 1 \in Nat /\ n + 1 # 0
    OBVIOUS
  <2>2. QED
    BY <2>1, FlattenBy
<1>2. CASE n = 0
  <2>1. FlattenSeq(u) = <<>>
    BY <1>2 DEF FlattenSeq
  <2>2. t[n + 1] \in Seq(T)
    OBVIOUS
  <2>3. g[n + 1] = t[n + 1]
    BY <1>1, <1>2 DEF FlattensTo
  <2>4. QED
    BY <1>1, <2>1, <2>2, <2>3 DEF FlattensTo
<1>3. CASE n # 0
  <2>1. PICK h : FlattensTo(T, n, u, h)
    BY <1>3, FlattenBy
  <2> USE DEF FlattensTo
  <2> DEFINE S == {k \in Nat : k \in 1..n => h[k] = g[k]}
  <2>2. 0 \in S
    OBVIOUS
  <2>3. ASSUME NEW k \in Nat, k \in S PROVE k + 1 \in S
    <3> SUFFICES ASSUME k + 1 \in 1..n PROVE h[k + 1] = g[k + 1]
      OBVIOUS
    <3>1. /\ h[k + 1] = IF k + 1 = 1 THEN u[k + 1] ELSE h[(k + 1) - 1] \o u[k + 1]
          /\ g[k + 1] = IF k + 1 = 1 THEN t[k + 1] ELSE g[(k + 1) - 1] \o t[k + 1]
      <4>1. k + 1 \in 1..(n + 1)
        OBVIOUS
      <4>2. QED
        BY <1>1, <2>1, <4>1
    <3>2. k + 1 # 1 => h[k] = g[k]
      BY <2>3
    <3>3. (k + 1) - 1 = k /\ u[k + 1] = t[k + 1]
      OBVIOUS
    <3>4. QED
      BY <3>1, <3>2, <3>3
  <2>4. n \in S
    <3> HIDE DEF S
    <3>1. QED
      BY <2>2, <2>3, SetInduction
  <2>5. h[n] = g[n] /\ h[n] \in Seq(T)
    <3>1. n \in 1..n
      BY <1>3
    <3>2. QED
      BY <2>1, <2>4, <3>1
  <2>6. g[n + 1] = g[n] \o t[n + 1]
    <3>1. n + 1 \in 1..(n + 1) /\ n + 1 # 1 /\ (n + 1) - 1 = n
      BY <1>3
    <3>2. QED
      BY <1>1, <3>1
  <2>7. QED
    BY <1>1, <2>1, <2>5, <2>6
<1>4. QED
  BY <1>2, <1>3

\* Concatenation is associative.
LEMMA ConcatConcat ==
  ASSUME NEW T, NEW u \in Seq(T), NEW v \in Seq(T), NEW w \in Seq(T)
  PROVE  (u \o v) \o w = u \o (v \o w) /\ u \o v \in Seq(T) /\ v \o w \in Seq(T)
<1>1. /\ u \o v \in Seq(T) /\ v \o w \in Seq(T)
      /\ Len((u \o v) \o w) = Len(u \o (v \o w))
  OBVIOUS
<1>2. \A i \in 1..Len((u \o v) \o w) : ((u \o v) \o w)[i] = (u \o (v \o w))[i]
  OBVIOUS
<1>3. QED
  BY <1>1, <1>2

\* The first n sequences of t, one behind the other.
Flat(t, n) == FlattenSeq([i \in 1..n |-> t[i]])

\* One piece more is one concatenation more, and in the end it is all of them.
LEMMA FlatIs ==
  ASSUME NEW T, NEW t \in Seq(Seq(T))
  PROVE  /\ Flat(t, 0) = <<>>
         /\ Flat(t, Len(t)) = FlattenSeq(t)
         /\ \A n \in 0..Len(t) : Flat(t, n) \in Seq(T)
         /\ \A n \in 0..(Len(t) - 1) : Flat(t, n + 1) = Flat(t, n) \o t[n + 1]
<1>1. Flat(t, 0) = <<>>
  <2>1. [i \in 1..0 |-> t[i]] = <<>>
    OBVIOUS
  <2>2. FlattenSeq(<<>>) = <<>>
    BY DEF FlattenSeq
  <2>3. QED
    BY <2>1, <2>2 DEF Flat
<1>2. Flat(t, Len(t)) = FlattenSeq(t)
  <2>1. [i \in 1..Len(t) |-> t[i]] = t
    OBVIOUS
  <2>2. QED
    BY <2>1 DEF Flat
<1>3. ASSUME NEW n \in 0..(Len(t) - 1)
      PROVE  Flat(t, n) \in Seq(T) /\ Flat(t, n + 1) = Flat(t, n) \o t[n + 1]
  <2> DEFINE u == [i \in 1..n |-> t[i]]
             v == [i \in 1..(n + 1) |-> t[i]]
  <2>1. /\ n \in Nat /\ u \in [1..n -> Seq(T)] /\ v \in [1..(n + 1) -> Seq(T)]
        /\ \A i \in 1..n : u[i] = v[i]
        /\ v[n + 1] = t[n + 1]
    OBVIOUS
  <2> HIDE DEF u, v
  <2>2. FlattenSeq(u) \in Seq(T) /\ FlattenSeq(v) = FlattenSeq(u) \o v[n + 1]
    BY <2>1, FlattenMore
  <2>3. QED
    BY <2>1, <2>2 DEF Flat, u, v
<1>4. ASSUME NEW n \in 0..Len(t) PROVE Flat(t, n) \in Seq(T)
  <2>1. CASE n = 0
    <3>1. <<>> \in Seq(T)
      OBVIOUS
    <3>2. QED
      BY <1>1, <2>1, <3>1
  <2>2. CASE n # 0
    <3>1. n - 1 \in 0..(Len(t) - 1) /\ (n - 1) + 1 = n /\ t[n] \in Seq(T)
      BY <2>2
    <3>2. Flat(t, n - 1) \in Seq(T) /\ Flat(t, n) = Flat(t, n - 1) \o t[n]
      BY <1>3, <3>1
    <3>3. QED
      BY <3>1, <3>2
  <2>3. QED
    BY <2>1, <2>2
<1>5. QED
  BY <1>1, <1>2, <1>3, <1>4

\* The first pieces are the beginning of all of them.
LEMMA FlatGrows ==
  ASSUME NEW T, NEW t \in Seq(Seq(T)), NEW n \in 0..Len(t)
  PROVE  \E rest \in Seq(T) : FlattenSeq(t) = Flat(t, n) \o rest
<1> DEFINE Begins(k) == \E rest \in Seq(T) : Flat(t, k) = Flat(t, n) \o rest
           S == {j \in Nat : n + j <= Len(t) => Begins(n + j)}
<1>1. 0 \in S
  <2>1. Flat(t, n) \in Seq(T) /\ <<>> \in Seq(T)
    BY FlatIs
  <2>2. Flat(t, n) = Flat(t, n) \o <<>>
    BY <2>1
  <2>3. Begins(n)
    BY <2>1, <2>2
  <2>4. n + 0 = n
    OBVIOUS
  <2> HIDE DEF Begins
  <2>5. QED
    BY <2>3, <2>4
<1>2. ASSUME NEW j \in Nat, j \in S PROVE j + 1 \in S
  <2> HIDE DEF Begins
  <2> SUFFICES ASSUME n + (j + 1) <= Len(t) PROVE Begins(n + (j + 1))
    OBVIOUS
  <2> USE DEF Begins
  <2>1. PICK rest \in Seq(T) : Flat(t, n + j) = Flat(t, n) \o rest
    BY <1>2, SMTT(30)
  <2>2. n + j \in 0..(Len(t) - 1) /\ n + (j + 1) = (n + j) + 1 /\ (n + j) + 1 \in 1..Len(t)
    OBVIOUS
  <2>3. t[(n + j) + 1] \in Seq(T)
    BY <2>2
  <2>4. Flat(t, (n + j) + 1) = Flat(t, n + j) \o t[(n + j) + 1] /\ Flat(t, n) \in Seq(T)
    BY <2>2, FlatIs
  <2>5. Flat(t, (n + j) + 1) = Flat(t, n) \o (rest \o t[(n + j) + 1])
    <3>1. PICK u \in Seq(T), w \in Seq(T) : u = Flat(t, n) /\ w = t[(n + j) + 1]
      BY <2>3, <2>4
    <3>2. (u \o rest) \o w = u \o (rest \o w)
      BY ConcatConcat, SMTT(30)
    <3>3. QED
      BY <2>1, <2>4, <3>1, <3>2
  <2>6. rest \o t[(n + j) + 1] \in Seq(T)
    BY <2>3, SMTT(30)
  <2> HIDE DEF Flat
  <2>7. QED
    BY <2>2, <2>5, <2>6
<1>3. PICK j \in Nat : n + j = Len(t)
  <2>1. Len(t) - n \in Nat /\ n + (Len(t) - n) = Len(t)
    OBVIOUS
  <2>2. QED
    BY <2>1, Zenon
<1>4. j \in S
  <2> HIDE DEF S
  <2>1. QED
    BY <1>1, <1>2, SetInduction
<1>5. Begins(Len(t))
  <2> HIDE DEF Begins
  <2>1. QED
    BY <1>3, <1>4
<1>6. QED
  BY <1>5, FlatIs

-----------------------------------------------------------------------------
(* FoldLeft: the recursive function it is defined by exists.               *)

\* g[s] is what folding "op" over the members of seq with an index in s ends with.
FoldStep(op, seq, base, g, s) ==
  IF s = {} THEN base ELSE op[<<g[s \ {Max(s)}], seq[Max(s)]>>]
Folding(T, op, seq, base, n, g) ==
  /\ g \in [SUBSET (1..n) -> T]
  /\ \A s \in SUBSET (1..n) : g[s] = FoldStep(op, seq, base, g, s)

\* The greatest of a set of indices that has the last one.
LEMMA LastIs ==
  ASSUME NEW k \in Nat, NEW s \in SUBSET (1..(k + 1)), k + 1 \in s
  PROVE  Max(s) = k + 1 /\ s \ {Max(s)} \in SUBSET (1..k)
<1>1. \A x \in s : k + 1 >= x
  OBVIOUS
<1>2. ASSUME NEW x \in s, \A y \in s : x >= y PROVE x = k + 1
  BY <1>1, <1>2
<1>3. Max(s) = k + 1
  BY <1>1, <1>2 DEF Max
<1>4. QED
  BY <1>3

\* There is such a function: over no index, and over one more.
LEMMA FoldExists ==
  ASSUME NEW T, NEW E, NEW op \in [T \X E -> T], NEW base \in T,
         NEW n \in Nat, NEW seq \in [1..n -> E]
  PROVE  \E g : Folding(T, op, seq, base, n, g)
<1> DEFINE Is(g, k) == /\ g \in [SUBSET (1..k) -> T]
                       /\ \A s \in SUBSET (1..k) : g[s] = FoldStep(op, seq, base, g, s)
           S == {k \in Nat : k <= n => \E g : Is(g, k)}
<1>1. 0 \in S
  <2> DEFINE h == [s \in SUBSET (1..0) |-> base]
  <2>1. ASSUME NEW s \in SUBSET (1..0) PROVE s = {}
    OBVIOUS
  <2>2. Is(h, 0)
    BY <2>1 DEF FoldStep
  <2> HIDE DEF Is, h
  <2>3. QED
    BY <2>2
<1>2. ASSUME NEW k \in Nat, k \in S PROVE k + 1 \in S
  <2> HIDE DEF Is
  <2> SUFFICES ASSUME k + 1 <= n PROVE \E h : Is(h, k + 1)
    OBVIOUS
  <2>1. PICK g : Is(g, k)
    BY <1>2
  <2>2. g \in [SUBSET (1..k) -> T] /\ \A s \in SUBSET (1..k) : g[s] = FoldStep(op, seq, base, g, s)
    BY <2>1 DEF Is
  <2> DEFINE h == [s \in SUBSET (1..(k + 1)) |->
                     IF k + 1 \in s THEN op[<<g[s \ {k + 1}], seq[k + 1]>>] ELSE g[s]]
  <2>3. ASSUME NEW s \in SUBSET (1..(k + 1)), k + 1 \notin s
        PROVE  s \in SUBSET (1..k) /\ (s # {} => s \ {Max(s)} \in SUBSET (1..k) /\ k + 1 \notin s \ {Max(s)})
    <3>1. ASSUME NEW x \in s PROVE x \in 1..k
      <4>1. x \in 1..(k + 1) /\ x # k + 1
        BY <2>3
      <4>2. QED
        BY <4>1
    <3>2. s \in SUBSET (1..k)
      BY <3>1
    <3>3. QED
      BY <2>3, <3>2
  <2>4. ASSUME NEW s \in SUBSET (1..k)
        PROVE  s \in SUBSET (1..(k + 1)) /\ k + 1 \notin s /\ h[s] = g[s]
    BY <2>4
  <2>5. ASSUME NEW s \in SUBSET (1..(k + 1)), k + 1 \in s
        PROVE  /\ h[s] = op[<<g[s \ {Max(s)}], seq[Max(s)]>>] /\ s \ {Max(s)} \in SUBSET (1..k)
               /\ Max(s) = k + 1
    BY <2>5, LastIs
  <2> HIDE DEF h
  <2>6. ASSUME NEW s \in SUBSET (1..(k + 1))
        PROVE  h[s] \in T /\ h[s] = FoldStep(op, seq, base, h, s)
    <3>1. CASE k + 1 \in s
      <4>1. s # {} /\ h[s \ {Max(s)}] = g[s \ {Max(s)}] /\ g[s \ {Max(s)}] \in T /\ seq[Max(s)] \in E
        <5>1. PICK t \in SUBSET (1..k) : t = s \ {Max(s)}
          BY <2>5, <3>1
        <5>2. h[t] = g[t] /\ g[t] \in T
          BY <2>2, <2>4
        <5>3. k + 1 \in 1..n
          OBVIOUS
        <5>4. QED
          BY <2>5, <3>1, <5>1, <5>2, <5>3
      <4>2. QED
        BY <2>5, <3>1, <4>1 DEF FoldStep
    <3>2. CASE k + 1 \notin s
      <4>1. h[s] = g[s] /\ g[s] \in T /\ g[s] = FoldStep(op, seq, base, g, s)
        BY <2>2, <2>3, <2>4, <3>2
      <4>2. s # {} => h[s \ {Max(s)}] = g[s \ {Max(s)}]
        BY <2>3, <2>4, <3>2
      <4>3. QED
        BY <4>1, <4>2 DEF FoldStep
    <3>3. QED
      BY <3>1, <3>2
  <2>7. h \in [SUBSET (1..(k + 1)) -> T]
    BY <2>6 DEF h
  <2>8. Is(h, k + 1)
    BY <2>6, <2>7 DEF Is
  <2>9. QED
    BY <2>8
<1>3. n \in S
  <2> HIDE DEF S
  <2>1. QED
    BY <1>1, <1>2, SetInduction
<1>4. PICK g : Is(g, n)
  <2> HIDE DEF Is
  <2>1. QED
    BY <1>3
<1>5. Folding(T, op, seq, base, n, g)
  BY <1>4 DEF Folding
<1>6. QED
  BY <1>5

\* The greatest of some numbers.
LEMMA MaxIs ==
  ASSUME NEW S, NEW m \in Nat, S \subseteq 0..m, S # {}
  PROVE  Max(S) \in S /\ \A i \in S : i <= Max(S)
<1> DEFINE T == {k \in Nat : m - k \in S}
<1>1. T # {}
  <2>1. PICK i \in S : i \in 0..m
    OBVIOUS
  <2>2. m - i \in Nat /\ m - (m - i) = i
    BY <2>1
  <2>3. QED
    BY <2>1, <2>2
<1>2. PICK k \in T : \A j \in T : k <= j
  BY <1>1, NatMin
<1>3. m - k \in S /\ \A i \in S : m - k >= i
  <2>1. ASSUME NEW i \in S PROVE m - k >= i
    <3>1. i \in 0..m
      OBVIOUS
    <3>2. m - i \in Nat /\ m - (m - i) = i
      BY <3>1
    <3>3. m - i \in T
      BY <3>2
    <3>4. k <= m - i
      BY <1>2, <3>3
    <3>5. QED
      BY <3>1, <3>2, <3>4
  <2>2. QED
    BY <2>1
<1>4. Max(S) \in S /\ \A i \in S : Max(S) >= i
  BY <1>3 DEF Max
<1>5. QED
  BY <1>4

\* What lies before the greatest of 1..(k + 1).
LEMMA PrefixIs ==
  ASSUME NEW k \in Nat, NEW n \in Nat, k + 1 <= n
  PROVE  /\ 1..(k + 1) \in SUBSET (1..n) /\ 1..(k + 1) # {} /\ Max(1..(k + 1)) = k + 1
         /\ (1..(k + 1)) \ {k + 1} = 1..k /\ k + 1 \in 1..n
<1>1. PICK s : s = 1..(k + 1)
  OBVIOUS
<1>2. s \in SUBSET (1..(k + 1)) /\ k + 1 \in s /\ s \in SUBSET (1..n) /\ s # {}
  BY <1>1
<1>3. Max(s) = k + 1
  BY <1>2, LastIs
<1>4. s \ {k + 1} = 1..k
  BY <1>1
<1>5. QED
  BY <1>1, <1>2, <1>3, <1>4

\* What is folded stays where the steps stay.
LEMMA FoldStays ==
  ASSUME NEW T, NEW base \in T, NEW n \in Nat, NEW c, c[{}] = base,
         \A k \in Nat : k + 1 <= n /\ c[1..k] \in T => c[1..(k + 1)] \in T
  PROVE  c[1..n] \in T
<1> DEFINE S == {k \in Nat : k <= n => c[1..k] \in T}
<1>1. 0 \in S
  <2>1. 1..0 = {}
    OBVIOUS
  <2>2. QED
    BY <2>1
<1>2. ASSUME NEW k \in Nat, k \in S PROVE k + 1 \in S
  BY <1>2
<1>3. n \in S
  <2> HIDE DEF S
  <2>1. QED
    BY <1>1, <1>2, SetInduction
<1>4. QED
  BY <1>3

\* The greatest of some indices.
LEMMA MaxOfIndices ==
  ASSUME NEW n \in Nat, NEW s \in SUBSET (1..n), s # {}
  PROVE  Max(s) \in 1..n /\ s \ {Max(s)} \in SUBSET (1..n)
<1>1. s \subseteq 0..n
  OBVIOUS
<1>2. Max(s) \in s
  BY <1>1, MaxIs
<1>3. QED
  BY <1>2
=============================================================================
