-------------------------- MODULE InteractionProofs --------------------------
(***************************************************************************)
(* Proofs about Interaction, for any number of calls, any requests, any    *)
(* screens and any faults: no key stays down, the text of a call is in one *)
(* piece in every field, and a call acts on what its target means.         *)
(***************************************************************************)
EXTENDS Interaction, WellFoundedInduction, FiniteSetTheorems, TLAPS

(***************************************************************************)
(* Induction over the naturals, and what it says of the library's          *)
(* sequences and folds.                                                    *)
(***************************************************************************)
\* A non-empty set of naturals has a least element.
LEMMA Least ==
    ASSUME NEW T, T \subseteq Nat, T # {}
    PROVE  \E m \in T : \A k \in T : m <= k
<1> DEFINE R == {p \in Nat \X Nat : p[1] < p[2]}
<1>1. IsWellFoundedOn(R, Nat)
  BY NatLessThanWellFounded DEF OpToRel
<1>2. \A x, y \in T : x < y => <<x, y>> \in R
  OBVIOUS
<1> HIDE DEF R
<1>3. PICK m \in T : \A y \in T : ~(<<y, m>> \in R)
  BY <1>1, WFMin
<1>4. \A y \in T : ~(y < m)
  BY <1>2, <1>3
<1>5. \A y \in T : m <= y
  BY <1>4
<1> QED
  BY <1>5

\* Induction, as a fact about sets.
LEMMA Induction ==
    ASSUME NEW S, 0 \in S, \A m \in Nat : m \in S => m + 1 \in S
    PROVE  \A m \in Nat : m \in S
<1> SUFFICES ASSUME Nat \ S # {} PROVE FALSE
  OBVIOUS
<1>1. PICK m \in Nat \ S : \A k \in Nat \ S : m <= k
  BY Least
<1>2. m # 0 /\ m - 1 \in Nat /\ (m - 1) + 1 = m
  BY <1>1
<1>3. m - 1 \in S
  BY <1>1, <1>2
<1> QED
  BY <1>2, <1>3

\* FlattenSeq is a concatenation from left to right.
LEMMA Flattening ==
    ASSUME NEW T, NEW seqs \in Seq(Seq(T))
    PROVE  \E g : /\ g[0] = <<>> /\ FlattenSeq(seqs) = g[Len(seqs)]
                  /\ \A k \in 1..Len(seqs) : g[k] = g[k - 1] \o seqs[k]
<1> DEFINE Run(m, f) == f = [i \in 1..m |-> IF i = 1 THEN seqs[i] ELSE f[i - 1] \o seqs[i]]
           S == { m \in Nat : \E f : Run(m, f) }
           n == Len(seqs)
<1>1. n \in Nat
  OBVIOUS
<1>2. 0 \in S
  <2>1. Run(0, [i \in 1..0 |-> 0])
    OBVIOUS
  <2> QED
    BY <2>1
<1>3. ASSUME NEW m \in Nat, m \in S PROVE m + 1 \in S
  <2>1. PICK f : Run(m, f)
    BY <1>3
  <2> DEFINE h == [i \in 1..(m + 1) |-> IF i \in 1..m THEN f[i]
                                       ELSE IF i = 1 THEN seqs[i] ELSE f[i - 1] \o seqs[i]]
  <2>2. \A i \in 1..m : h[i] = f[i]
    OBVIOUS
  <2>3. \A i \in 1..(m + 1) : i # 1 => i - 1 \in 1..m
    OBVIOUS
  <2>4. \A i \in 1..m : f[i] = IF i = 1 THEN seqs[i] ELSE f[i - 1] \o seqs[i]
    BY <2>1
  <2>5. \A i \in 1..(m + 1) : h[i] = IF i \in 1..m THEN f[i]
                                      ELSE IF i = 1 THEN seqs[i] ELSE f[i - 1] \o seqs[i]
    OBVIOUS
  <2>6. h = [i \in 1..(m + 1) |-> h[i]]
    OBVIOUS
  <2> HIDE DEF h
  <2>7. \A i \in 1..(m + 1) : h[i] = IF i = 1 THEN seqs[i] ELSE h[i - 1] \o seqs[i]
    BY <2>2, <2>3, <2>4, <2>5
  <2>8. h = [i \in 1..(m + 1) |-> IF i = 1 THEN seqs[i] ELSE h[i - 1] \o seqs[i]]
    BY <2>6, <2>7
  <2>9. Run(m + 1, h)
    BY <2>8
  <2> HIDE DEF Run
  <2> QED
    BY <2>9
<1> HIDE DEF S
<1>4. n \in S
  BY <1>1, <1>2, <1>3, Induction
<1> USE DEF S
<1>5. CASE n = 0
  <2>1. FlattenSeq(seqs) = <<>>
    BY <1>5 DEF FlattenSeq
  <2> DEFINE g == [k \in 0..0 |-> <<>>]
  <2>2. g[0] = <<>> /\ g[Len(seqs)] = <<>> /\ 1..Len(seqs) = {}
    BY <1>5
  <2> HIDE DEF g
  <2> QED
    BY <2>1, <2>2
<1>6. CASE n # 0
  <2> DEFINE f == CHOOSE h : h = [i \in 1..Len(seqs) |-> IF i = 1 THEN seqs[i] ELSE h[i - 1] \o seqs[i]]
  <2>1. f = [i \in 1..Len(seqs) |-> IF i = 1 THEN seqs[i] ELSE f[i - 1] \o seqs[i]]
    BY Zenon, <1>4
  <2>2. FlattenSeq(seqs) = f[Len(seqs)]
    BY Zenon, <1>6 DEF FlattenSeq
  <2> HIDE DEF f
  <2> DEFINE g == [k \in 0..n |-> IF k = 0 THEN <<>> ELSE f[k]]
  <2>3. g[0] = <<>> /\ g[n] = f[n]
    BY <1>1, <1>6
  <2>4. ASSUME NEW k \in 1..n PROVE g[k] = g[k - 1] \o seqs[k]
    <3>1. CASE k = 1
      <4>1. g[k] = seqs[k] /\ g[k - 1] = <<>>
        BY <2>1, <3>1
      <4>2. seqs[k] \in Seq(T)
        OBVIOUS
      <4> HIDE DEF g
      <4> QED
        BY <4>1, <4>2
    <3>2. CASE k # 1
      <4>1. g[k] = f[k] /\ g[k - 1] = f[k - 1]
        BY <3>2
      <4> QED
        BY <2>1, <3>2, <4>1
    <3> QED
      BY <3>1, <3>2
  <2> QED
    BY Zenon, <2>2, <2>3, <2>4
<1> QED
  BY <1>1, <1>5, <1>6

\* It lays the pieces out one after the other: piece k begins after position off[k - 1].
Spread(seqs, flat, off) ==
    /\ off[0] = 0 /\ Len(flat) = off[Len(seqs)]
    /\ \A k \in 0..Len(seqs) : off[k] \in Nat
    /\ \A k \in 1..Len(seqs) :
           /\ off[k] = off[k - 1] + Len(seqs[k]) /\ off[k] <= Len(flat)
           /\ \A a \in 1..Len(seqs[k]) :
                  off[k - 1] + a \in 1..Len(flat) /\ flat[off[k - 1] + a] = seqs[k][a]
    /\ \A p \in 1..Len(flat) :
           \E k \in 1..Len(seqs) : \E a \in 1..Len(seqs[k]) : p = off[k - 1] + a

\* FlattenSeq lays its sequences out one after the other, whatever they are sequences
\* of.
LEMMA Flattened ==
    ASSUME NEW T, NEW seqs \in Seq(Seq(T))
    PROVE  /\ FlattenSeq(seqs) \in Seq(T)
           /\ \E off : Spread(seqs, FlattenSeq(seqs), off)
<1>1. PICK g : /\ g[0] = <<>> /\ FlattenSeq(seqs) = g[Len(seqs)]
               /\ \A k \in 1..Len(seqs) : g[k] = g[k - 1] \o seqs[k]
  BY Flattening
<1> DEFINE n == Len(seqs)
           off == [k \in 0..n |-> Len(g[k])]
           Laid(m) ==
               /\ g[m] \in Seq(T)
               /\ \A k \in 0..m : Len(g[k]) \in Nat /\ Len(g[k]) <= Len(g[m])
               /\ \A k \in 1..m : Len(g[k]) = Len(g[k - 1]) + Len(seqs[k])
               /\ \A k \in 1..m : \A a \in 1..Len(seqs[k]) :
                      Len(g[k - 1]) + a \in 1..Len(g[m]) /\ g[m][Len(g[k - 1]) + a] = seqs[k][a]
               /\ \A p \in 1..Len(g[m]) :
                      \E k \in 1..m : \E a \in 1..Len(seqs[k]) : p = Len(g[k - 1]) + a
           S == { m \in Nat : m <= n => Laid(m) }
<1>2. n \in Nat
  OBVIOUS
<1>3. Laid(0)
  BY <1>1
<1>4. ASSUME NEW m \in Nat, m + 1 <= n, Laid(m) PROVE Laid(m + 1)
  <2>1. Laid(m)
    BY <1>4
  <2> DEFINE u == g[m]
             v == seqs[m + 1]
             w == g[m + 1]
  <2>2. u \in Seq(T) /\ v \in Seq(T) /\ w = u \o v
    <3>1. m + 1 \in 1..n /\ (m + 1) - 1 = m
      BY <1>2, <1>4
    <3>2. w = u \o v
      BY <1>1, <3>1
    <3>3. v \in Seq(T)
      BY <3>1
    <3> QED
      BY <2>1, <3>2, <3>3
  <2>3. /\ w \in Seq(T) /\ Len(w) = Len(u) + Len(v) /\ Len(u) \in Nat /\ Len(v) \in Nat
        /\ \A i \in 1..Len(u) : i \in 1..Len(w) /\ w[i] = u[i]
        /\ \A a \in 1..Len(v) : Len(u) + a \in 1..Len(w) /\ w[Len(u) + a] = v[a]
        /\ \A p \in 1..Len(w) : p \in 1..Len(u) \/ \E a \in 1..Len(v) : p = Len(u) + a
    <3> HIDE DEF u, v, w
    <3>1. w \in Seq(T) /\ Len(w) = Len(u) + Len(v) /\ Len(u) \in Nat /\ Len(v) \in Nat
      BY <2>2
    <3>2. \A i \in 1..Len(u) : i \in 1..Len(w) /\ w[i] = u[i]
      BY <2>2, <3>1
    <3>3. \A a \in 1..Len(v) : Len(u) + a \in 1..Len(w) /\ w[Len(u) + a] = v[a]
      BY <2>2, <3>1
    <3>4. \A p \in 1..Len(w) : p \notin 1..Len(u) => p - Len(u) \in 1..Len(v) /\ p = Len(u) + (p - Len(u))
      BY <3>1
    <3> QED
      BY <3>1, <3>2, <3>3, <3>4
  <2>4. \A k \in 0..(m + 1) : k \in 0..m \/ k = m + 1
    OBVIOUS
  <2>5. \A k \in 1..(m + 1) : (k \in 1..m /\ k - 1 \in 0..m) \/ (k = m + 1 /\ k - 1 = m)
    OBVIOUS
  <2> HIDE DEF u, v, w
  <2>6. \A k \in 0..(m + 1) : Len(g[k]) \in Nat /\ Len(g[k]) <= Len(w)
    BY <2>1, <2>3, <2>4 DEF u, w
  <2>7. \A k \in 1..(m + 1) : Len(g[k]) = Len(g[k - 1]) + Len(seqs[k])
    BY <2>1, <2>3, <2>5 DEF u, v, w
  <2>8. \A k \in 1..(m + 1) : \A a \in 1..Len(seqs[k]) :
          Len(g[k - 1]) + a \in 1..Len(w) /\ w[Len(g[k - 1]) + a] = seqs[k][a]
    BY <2>1, <2>3, <2>5 DEF u, v
  <2>9. \A p \in 1..Len(w) : \E k \in 1..(m + 1) : \E a \in 1..Len(seqs[k]) : p = Len(g[k - 1]) + a
    <3> SUFFICES ASSUME NEW p \in 1..Len(w)
                 PROVE  \E k \in 1..(m + 1) : \E a \in 1..Len(seqs[k]) : p = Len(g[k - 1]) + a
      OBVIOUS
    <3>1. CASE p \in 1..Len(u)
      <4>1. PICK k \in 1..m : \E a \in 1..Len(seqs[k]) : p = Len(g[k - 1]) + a
        BY <2>1, <3>1 DEF u
      <4>2. k \in 1..(m + 1)
        OBVIOUS
      <4> QED
        BY <4>1, <4>2
    <3>2. CASE \E a \in 1..Len(v) : p = Len(u) + a
      <4>1. m + 1 \in 1..(m + 1) /\ (m + 1) - 1 = m
        OBVIOUS
      <4> QED
        BY <3>2, <4>1 DEF u, v
    <3> QED
      BY <2>3, <3>1, <3>2
  <2> QED
    BY <2>3, <2>6, <2>7, <2>8, <2>9 DEF w
<1> HIDE DEF Laid
<1>5. Laid(n)
  <2>1. 0 \in S
    BY <1>3
  <2>2. \A m \in Nat : m \in S => m + 1 \in S
    BY <1>2, <1>4
  <2> HIDE DEF S
  <2>3. n \in S
    BY <1>2, <2>1, <2>2, Induction
  <2> QED
    BY <1>2, <2>3 DEF S
<1> USE DEF Laid
<1>6. Spread(seqs, g[n], off)
  <2>1. \A k \in 0..n : off[k] = Len(g[k])
    OBVIOUS
  <2>2. \A k \in 1..n : k - 1 \in 0..n /\ k \in 0..n
    BY <1>2
  <2>3. 0 \in 0..n /\ n \in 0..n
    BY <1>2
  <2>4. off[0] = 0
    BY <1>1, <2>1, <2>3
  <2> HIDE DEF off
  <2> QED
    <3>1. Len(g[n]) = off[n] /\ \A k \in 0..n : off[k] \in Nat
      BY <1>5, <2>1, <2>3
    <3>2. \A k \in 1..n : off[k] = off[k - 1] + Len(seqs[k]) /\ off[k] <= Len(g[n])
      BY <1>5, <2>1, <2>2
    <3>3. \A k \in 1..n : \A a \in 1..Len(seqs[k]) :
            off[k - 1] + a \in 1..Len(g[n]) /\ g[n][off[k - 1] + a] = seqs[k][a]
      <4>1. \A k \in 1..n : off[k - 1] = Len(g[k - 1])
        BY <2>1, <2>2
      <4> QED
        BY <1>5, <4>1
    <3>4. \A p \in 1..Len(g[n]) : \E k \in 1..n : \E a \in 1..Len(seqs[k]) : p = off[k - 1] + a
      <4> SUFFICES ASSUME NEW p \in 1..Len(g[n])
                   PROVE  \E k \in 1..n : \E a \in 1..Len(seqs[k]) : p = off[k - 1] + a
        OBVIOUS
      <4>1. PICK k \in 1..n : \E a \in 1..Len(seqs[k]) : p = Len(g[k - 1]) + a
        BY <1>5
      <4>2. off[k - 1] = Len(g[k - 1])
        BY <2>1, <2>2
      <4> QED
        BY <4>1, <4>2
    <3> QED
      BY <2>4, <3>1, <3>2, <3>3, <3>4 DEF Spread
<1> QED
  BY <1>1, <1>5, <1>6

\* What FoldLeft makes of a sequence of injected events is in the last of a sequence of
\* sets, if each event leads from one set into the next.
LEMMA InjectedInto ==
    ASSUME NEW c, NEW d, NEW events, NEW n \in Nat, DOMAIN events = 1..n,
           NEW D, d \in D[0],
           \A i \in 1..n : \A x \in D[i - 1] : Happened(c, x, events[i]) \in D[i]
    PROVE  Injected(c, d, events) \in D[n]
<1> DEFINE Run(m, f) == f = [s \in SUBSET (1..m) |->
                               IF s = {} THEN d ELSE Happened(c, f[s \ {Max(s)}], events[Max(s)])]
           S == { m \in Nat : \E f : Run(m, f) }
<1>1. \A m \in Nat : \A s \in SUBSET (1..(m + 1)) : m + 1 \in s => Max(s) = m + 1 /\ s \ {Max(s)} \in SUBSET (1..m)
  <2> SUFFICES ASSUME NEW m \in Nat, NEW s \in SUBSET (1..(m + 1)), m + 1 \in s
               PROVE  Max(s) = m + 1 /\ s \ {Max(s)} \in SUBSET (1..m)
    OBVIOUS
  <2>1. \A y \in s : m + 1 >= y
    OBVIOUS
  <2>2. \A x \in s : (\A y \in s : x >= y) => x = m + 1
    OBVIOUS
  <2>3. Max(s) = m + 1
    BY <2>1, <2>2 DEF Max
  <2>4. s \ {m + 1} \subseteq 1..m
    OBVIOUS
  <2> QED
    BY <2>3, <2>4
<1>2. 0 \in S
  <2> DEFINE f == [s \in SUBSET (1..0) |-> d]
  <2>1. \A s \in SUBSET (1..0) : s = {}
    OBVIOUS
  <2>2. Run(0, f)
    BY <2>1
  <2> HIDE DEF Run, f
  <2> QED
    BY <2>2
<1>3. ASSUME NEW m \in Nat, m \in S PROVE m + 1 \in S
  <2>1. PICK f : Run(m, f)
    BY <1>3
  <2> DEFINE h == [s \in SUBSET (1..(m + 1)) |->
                     IF m + 1 \notin s THEN f[s] ELSE Happened(c, f[s \ {Max(s)}], events[Max(s)])]
             Val(q, s) == IF s = {} THEN d ELSE Happened(c, q[s \ {Max(s)}], events[Max(s)])
  <2>2. h = [s \in SUBSET (1..(m + 1)) |-> h[s]]
    OBVIOUS
  <2>3. \A s \in SUBSET (1..(m + 1)) : m + 1 \notin s => s \in SUBSET (1..m) /\ s \ {Max(s)} \in SUBSET (1..m)
    <3>1. \A i \in 1..(m + 1) : i # m + 1 => i \in 1..m
      OBVIOUS
    <3> QED
      BY <3>1
  <2>4. \A s \in SUBSET (1..m) : s \in SUBSET (1..(m + 1)) /\ m + 1 \notin s
    OBVIOUS
  <2>5. \A s \in SUBSET (1..m) : h[s] = f[s]
    BY <2>4
  <2>6. \A s \in SUBSET (1..m) : f[s] = Val(f, s)
    BY <2>1
  <2>7. \A s \in SUBSET (1..(m + 1)) : m + 1 \in s => h[s] = Val(f, s)
    OBVIOUS
  <2> HIDE DEF h
  <2>8. \A s \in SUBSET (1..(m + 1)) : s \ {Max(s)} \in SUBSET (1..m) => Val(h, s) = Val(f, s)
    BY <2>5
  <2>9. \A s \in SUBSET (1..(m + 1)) : h[s] = Val(h, s)
    <3> HIDE DEF Val
    <3> QED
      BY <1>1, <2>3, <2>5, <2>6, <2>7, <2>8
  <2>10. Run(m + 1, h)
    <3>1. h = [s \in SUBSET (1..(m + 1)) |-> Val(h, s)]
      <4> HIDE DEF Val
      <4> QED
        BY <2>2, <2>9
    <3> QED
      BY <3>1
  <2> HIDE DEF Run
  <2> QED
    BY <2>10
<1> HIDE DEF S
<1>4. n \in S
  BY <1>2, <1>3, Induction
<1> USE DEF S
<1> DEFINE g == CHOOSE f : f = [s \in SUBSET DOMAIN events |->
                                  IF s = {} THEN d ELSE Happened(c, f[s \ {Max(s)}], events[Max(s)])]
<1>5. g = [s \in SUBSET DOMAIN events |->
             IF s = {} THEN d ELSE Happened(c, g[s \ {Max(s)}], events[Max(s)])]
  BY <1>4
<1>6. Injected(c, d, events) = g[DOMAIN events]
  BY Zenon DEF Injected, FoldLeft, MapThenFoldSet
<1> HIDE DEF g
<1> DEFINE P == { m \in Nat : m <= n => g[1..m] \in D[m] }
<1>7. 0 \in P
  <2>1. 1..0 = {} /\ {} \in SUBSET DOMAIN events
    OBVIOUS
  <2> QED
    BY <1>5, <2>1
<1>8. ASSUME NEW m \in Nat, m \in P PROVE m + 1 \in P
  <2> SUFFICES ASSUME m + 1 <= n PROVE g[1..(m + 1)] \in D[m + 1]
    OBVIOUS
  <2>1. g[1..m] \in D[m]
    BY <1>8
  <2>2. Max(1..(m + 1)) = m + 1
    <3>1. m + 1 \in 1..(m + 1) /\ 1..(m + 1) \in SUBSET (1..(m + 1))
      OBVIOUS
    <3> QED
      BY <1>1, <3>1
  <2>3. (1..(m + 1)) \ {m + 1} = 1..m /\ 1..(m + 1) # {} /\ 1..(m + 1) \in SUBSET DOMAIN events
    <3>1. \A i : i \in 1..(m + 1) /\ i # m + 1 <=> i \in 1..m
      OBVIOUS
    <3>2. m + 1 \in 1..(m + 1) /\ \A i \in 1..(m + 1) : i \in 1..n
      OBVIOUS
    <3> QED
      BY <3>1, <3>2
  <2>4. g[1..(m + 1)] = Happened(c, g[1..m], events[m + 1])
    BY <1>5, <2>2, <2>3
  <2>5. m + 1 \in 1..n /\ (m + 1) - 1 = m
    OBVIOUS
  <2> QED
    BY <2>1, <2>4, <2>5
<1> HIDE DEF P
<1>9. n \in P
  BY <1>7, <1>8, Induction
<1> QED
  BY <1>6, <1>9 DEF P

\* In a finite set of labels there is one before which any smaller number of them lie.
LEMMA NthExists ==
    ASSUME NEW T, T \subseteq Nat, IsFiniteSet(T), NEW i \in Nat, i < Cardinality(T)
    PROVE  Nth(T, i) \in T /\ Cardinality({ k \in T : k < Nth(T, i) }) = i
<1> DEFINE Below(l) == { k \in T : k < l }
           S == { m \in Nat : m < Cardinality(T) => \E l \in T : Cardinality(Below(l)) = m }
<1>1. Cardinality(T) \in Nat /\ \A l : IsFiniteSet(Below(l)) /\ Cardinality(Below(l)) \in Nat
  BY FS_Subset, FS_CardinalityType
<1>2. 0 \in S
  <2> SUFFICES ASSUME 0 < Cardinality(T) PROVE \E l \in T : Cardinality(Below(l)) = 0
    OBVIOUS
  <2>1. T # {}
    BY FS_EmptySet
  <2>2. PICK l \in T : \A k \in T : l <= k
    BY <2>1, Least
  <2>3. Below(l) = {}
    <3>1. \A k \in T : ~(k < l)
      BY <2>2
    <3> QED
      BY <3>1
  <2> QED
    BY <2>3, FS_EmptySet
<1>3. ASSUME NEW m \in Nat, m \in S PROVE m + 1 \in S
  <2> SUFFICES ASSUME m + 1 < Cardinality(T) PROVE \E l \in T : Cardinality(Below(l)) = m + 1
    OBVIOUS
  <2>1. PICK l \in T : Cardinality(Below(l)) = m
    BY <1>1, <1>3
  <2> DEFINE Upto == Below(l) \cup {l}
             Above == { k \in T : k > l }
  <2>2. IsFiniteSet(Upto) /\ Cardinality(Upto) = m + 1
    <3>1. l \notin Below(l)
      OBVIOUS
    <3> HIDE DEF Below
    <3> QED
      BY <1>1, <2>1, <3>1, FS_AddElement
  <2>3. Above # {}
    <3>3. \A k \in T : k < l \/ k = l \/ k > l
      OBVIOUS
    <3>1. T = Upto \cup Above
      BY <3>3
    <3>2. Above = {} => T = Upto
      BY <3>1
    <3> QED
      BY <1>1, <2>2, <3>2
  <2>4. PICK h \in Above : \A k \in Above : h <= k
    <3>1. Above \subseteq Nat
      OBVIOUS
    <3> HIDE DEF Above
    <3> QED
      BY <2>3, <3>1, Least
  <2>5. Below(h) = Upto
    <3>1. \A k \in T : k > l => h <= k
      BY <2>4
    <3>2. h \in T /\ h > l
      BY <2>4
    <3>3. \A k \in T : k < h <=> k < l \/ k = l
      BY <3>1, <3>2
    <3> QED
      BY <3>3
  <2> QED
    BY <2>2, <2>4, <2>5
<1> HIDE DEF S
<1>4. i \in S
  BY <1>2, <1>3, Induction
<1>5. \E l \in T : Cardinality({ k \in T : k < l }) = i
  BY <1>4 DEF S
<1> QED
  BY <1>5 DEF Nth

----------------------------------------------------------------------------
(***************************************************************************)
(* The scripts.  A call that acts resolves its targets and does jobs, and  *)
(* never goes back; it types its text for each target in one job.  Any     *)
(* other call only looks at the screen, or uses one label.                 *)
(***************************************************************************)
\* What is injected, other than characters: whatever goes down comes up again.
KeyEvents == [event : {"down", "up"}, key : Holdable] \cup {[event |-> "wheel", key |-> "wheel"]}
Balanced(b) == \A i \in 1..Len(b) : b[i].event = "down" =>
                   \E j \in 1..Len(b) : i < j /\ b[j].event = "up" /\ b[j].key = b[i].key
Batch == { b \in Seq(KeyEvents) : Balanced(b) }

Target    == ByPoint \cup ByLabel \cup BySelector \cup {NoTarget}
ActOps    == [op : {"send"}, target : Nat, events : Batch] \cup [op : {"aim"}, target : Nat]
             \cup [op : {"hold"}, key : Holdable]
             \cup [op : {"activate", "resize"}, name : Names, to : Target]
LookOps   == {Walk, UseLabel, Capture}
Job(ops)  == [do : {"job"}, strict : BOOLEAN, ops : Seq(ops)]
Lookups   == [do : {"resolve"}, target : BySelector] \cup [do : {"take"}, label : Int]
             \cup [do : {"point"}, at : Int] \cup [do : {"locate"}] \cup {TooLarge}

\* A text is typed in one job, whose operations are keys, or characters that know the
\* target and their place; with no character in it, it is a job like others.
TypeOp(i, j) == Send(<<Char(i, j), Up("char")>>)
Typing(i, n) == Strict([j \in 1..n |-> TypeOp(i, j)])
TypeOps      == { TypeOp(i, j) : i, j \in Nat }
KeyOps       == [op : {"send"}, target : {0}, events : Batch]
Typings(i)   ==
    { st \in Job(KeyOps \cup TypeOps) :
        /\ \A q \in 1..Len(st.ops) : st.ops[q] \in KeyOps \/ st.ops[q] = TypeOp(i, q)
        /\ \E q \in 1..Len(st.ops) : st.ops[q] = TypeOp(i, q) }
ActStages    == Lookups \cup Job(ActOps) \cup UNION { Typings(i) : i \in Nat }

\* The cursor is aimed at one of the first k points, and what is clicked is what was
\* aimed at last.
WellAimed(ops, k) ==
    \A q \in 1..Len(ops) :
        /\ ops[q].op = "aim" => ops[q].target \in 1..k
        /\ ops[q].op = "send" /\ ops[q].target # 0 =>
               q > 1 /\ ops[q - 1].op \in {"aim", "send"} /\ ops[q - 1].target = ops[q].target

\* f[p] points are resolved once stage p is over, k before the first and m at the end.
Counts(S, f, k, m) ==
    /\ \A p \in 0..Len(S) : f[p] \in Nat
    /\ f[0] = k /\ f[Len(S)] = m
    /\ \A p \in 1..Len(S) :
           /\ f[p] = f[p - 1] + IF S[p].do \in {"point", "locate"} THEN 1 ELSE 0
           /\ S[p].do = "job" => WellAimed(S[p].ops, f[p - 1])

\* The stages S of a call that acts, which has k points before them and m after them;
\* what they type is for the targets after the x-th and up to the y-th.
Acts(S, k, m, x, y) ==
    /\ S \in Seq(ActStages) /\ x \in Nat /\ y \in Nat /\ x <= y
    /\ \E f : Counts(S, f, k, m)
    /\ \A p \in 1..Len(S) :
           /\ S[p].do = "locate" => p > 1 /\ S[p - 1].do \in {"take", "resolve"}
           /\ S[p].do \in {"take", "resolve"} => p < Len(S) /\ S[p + 1].do = "locate"
    /\ \A p \in 1..Len(S) : \A i \in Nat : S[p] \in Typings(i) => x < i /\ i <= y
    /\ \A p, q \in 1..Len(S) : \A i \in Nat : S[p] \in Typings(i) /\ S[q] \in Typings(i) => p = q

\* The other scripts, in full.
Look == { <<Strict(<<Walk>>)>>, <<Strict(<<Walk>>), Strict(<<Capture>>)>>,
          <<Strict(<<Walk>>), Judge>>, <<Lax(<<Walk>>), Judge>> }
Found1(l) == <<l, Strict(<<UseLabel>>)>>
Found2(l) == <<Strict(<<Walk>>), l, Strict(<<UseLabel>>), Judge>>
Use1 == { Found1(l) : l \in [do : {"resolve"}, target : BySelector] \cup [do : {"take"}, label : Int] }
Use2 == { Found2(l) : l \in [do : {"resolve"}, target : BySelector] }

\* Positions of a concatenation.
LEMMA Concatenated ==
    ASSUME NEW T, NEW u \in Seq(T), NEW v \in Seq(T)
    PROVE  /\ u \o v \in Seq(T) /\ Len(u \o v) = Len(u) + Len(v)
           /\ Len(u) \in Nat /\ Len(v) \in Nat
           /\ \A p \in 1..Len(u) : p \in 1..Len(u \o v) /\ (u \o v)[p] = u[p]
           /\ \A p \in 1..Len(v) : Len(u) + p \in 1..Len(u \o v) /\ (u \o v)[Len(u) + p] = v[p]
           /\ \A p \in 1..Len(u \o v) :
                  \/ p \in 1..Len(u) /\ (u \o v)[p] = u[p]
                  \/ p > Len(u) /\ p - Len(u) \in 1..Len(v) /\ (u \o v)[p] = v[p - Len(u)]
<1>1. u \o v \in Seq(T) /\ Len(u \o v) = Len(u) + Len(v) /\ Len(u) \in Nat /\ Len(v) \in Nat
  OBVIOUS
<1>2. \A p \in 1..Len(u) : p \in 1..Len(u \o v) /\ (u \o v)[p] = u[p]
  BY <1>1
<1>3. \A p \in 1..Len(v) : Len(u) + p \in 1..Len(u \o v) /\ (u \o v)[Len(u) + p] = v[p]
  BY <1>1
<1>4. \A p \in 1..Len(u \o v) :
        \/ p \in 1..Len(u) /\ (u \o v)[p] = u[p]
        \/ p > Len(u) /\ p - Len(u) \in 1..Len(v) /\ (u \o v)[p] = v[p - Len(u)]
  BY <1>1
<1> QED
  BY <1>1, <1>2, <1>3, <1>4

\* Concatenating one-element sequences, as the scripts do.
LEMMA TwoStages ==
    ASSUME NEW a, NEW b
    PROVE  <<a>> \o <<b>> = <<a, b>>
<1> DEFINE u == <<a>>
           v == <<b>>
           w == <<a, b>>
           T == {a, b}
<1>1. u \in Seq(T) /\ v \in Seq(T)
  OBVIOUS
<1>2. Len(u) = 1 /\ Len(v) = 1 /\ u[1] = a /\ v[1] = b
  OBVIOUS
<1>3. w \in Seq(T) /\ Len(w) = 2 /\ w[1] = a /\ w[2] = b
  OBVIOUS
<1>4. \A i \in 1..2 : i = 1 \/ i = 2
  OBVIOUS
<1> HIDE DEF u, v, T, w
<1>5. u \o v \in Seq(T) /\ Len(u \o v) = 2 /\ (u \o v)[1] = a /\ (u \o v)[2] = b
  <2>1. /\ u \o v \in Seq(T) /\ Len(u \o v) = Len(u) + Len(v)
        /\ \A p \in 1..Len(u) : (u \o v)[p] = u[p]
        /\ \A p \in 1..Len(v) : (u \o v)[Len(u) + p] = v[p]
    BY <1>1, Concatenated
  <2>2. 1 \in 1..1 /\ 1 + 1 = 2
    OBVIOUS
  <2> QED
    BY <1>2, <2>1, <2>2
<1>6. \A s, t \in Seq(T) : Len(s) = Len(t) /\ (\A i \in 1..Len(s) : s[i] = t[i]) => s = t
  OBVIOUS
<1> QED
  BY <1>3, <1>4, <1>5, <1>6 DEF u, v, w

\* The same of four, grouped as in the script of an assertion about a state.
LEMMA FourStages ==
    ASSUME NEW a, NEW b, NEW c, NEW d
    PROVE  <<a>> \o (<<b>> \o <<c>>) \o <<d>> = <<a, b, c, d>>
<1> DEFINE T == {a, b, c, d}
           x == <<a>>
           y == <<b, c>>
           z == <<d>>
           w == <<a, b, c, d>>
           s == x \o y
           u == s \o z
<1>1. x \in Seq(T) /\ y \in Seq(T) /\ z \in Seq(T)
  OBVIOUS
<1>2. w \in Seq(T) /\ Len(w) = 4 /\ w[1] = a /\ w[2] = b /\ w[3] = c /\ w[4] = d
  OBVIOUS
<1>3. /\ Len(x) = 1 /\ Len(y) = 2 /\ Len(z) = 1
      /\ x[1] = a /\ y[1] = b /\ y[2] = c /\ z[1] = d
  OBVIOUS
<1> HIDE DEF T, x, y, z, w, s, u
<1>4. s \in Seq(T) /\ Len(s) = 3 /\ s[1] = a /\ s[2] = b /\ s[3] = c
  <2>1. /\ s \in Seq(T) /\ Len(s) = Len(x) + Len(y)
        /\ \A p \in 1..Len(x) : s[p] = x[p]
        /\ \A p \in 1..Len(y) : s[Len(x) + p] = y[p]
    BY <1>1, Concatenated DEF s
  <2>2. 1 \in 1..1 /\ 1 \in 1..2 /\ 2 \in 1..2 /\ 1 + 1 = 2 /\ 1 + 2 = 3
    OBVIOUS
  <2> QED
    BY <1>3, <2>1, <2>2
<1>5. u \in Seq(T) /\ Len(u) = 4 /\ u[1] = a /\ u[2] = b /\ u[3] = c /\ u[4] = d
  <2>1. /\ u \in Seq(T) /\ Len(u) = Len(s) + Len(z)
        /\ \A p \in 1..Len(s) : u[p] = s[p]
        /\ \A p \in 1..Len(z) : u[Len(s) + p] = z[p]
    <3>1. s \in Seq(T) /\ z \in Seq(T)
      BY <1>1, <1>4
    <3> QED
      BY <3>1, Concatenated DEF u
  <2>2. 1 \in 1..3 /\ 2 \in 1..3 /\ 3 \in 1..3 /\ 1 \in 1..1 /\ 3 + 1 = 4
    OBVIOUS
  <2> QED
    BY <1>3, <1>4, <2>1, <2>2
<1>6. \A f, g \in Seq(T) : Len(f) = Len(g) /\ (\A i \in 1..Len(f) : f[i] = g[i]) => f = g
  OBVIOUS
<1>7. \A i \in 1..4 : i = 1 \/ i = 2 \/ i = 3 \/ i = 4
  OBVIOUS
<1>8. u = w
  BY <1>2, <1>5, <1>6, <1>7
<1>9. <<b>> \o <<c>> = <<b, c>>
  BY TwoStages
<1> QED
  BY <1>8, <1>9 DEF x, y, z, w, s, u

\* Scripts that act, one after the other, act: the second goes on where the first
\* stops.
LEMMA ActsInTurn ==
    ASSUME NEW S, NEW T, NEW k, NEW m, NEW n, NEW x, NEW y, NEW z,
           Acts(S, k, m, x, y), Acts(T, m, n, y, z)
    PROVE  Acts(S \o T, k, n, x, z)
<1> DEFINE U == S \o T
           s == Len(S)
           t == Len(T)
<1>1. S \in Seq(ActStages) /\ T \in Seq(ActStages)
  BY DEF Acts
<1>2. /\ U \in Seq(ActStages) /\ Len(U) = s + t /\ s \in Nat /\ t \in Nat
      /\ \A p \in 1..s : U[p] = S[p]
      /\ \A p \in 1..Len(U) : \/ p \in 1..s /\ U[p] = S[p]
                              \/ p > s /\ p - s \in 1..t /\ U[p] = T[p - s]
  BY <1>1, Concatenated
<1> HIDE DEF U, s, t
<1>3. x \in Nat /\ z \in Nat /\ y \in Nat /\ x <= y /\ y <= z /\ x <= z
  BY DEF Acts
<1>4. \E h : Counts(U, h, k, n)
  <2>1. PICK f : Counts(S, f, k, m)
    BY DEF Acts
  <2>2. PICK g : Counts(T, g, m, n)
    BY DEF Acts
  <2> DEFINE h == [p \in 0..(s + t) |-> IF p \in 0..s THEN f[p] ELSE g[p - s]]
  <2>3. /\ \A p \in 0..s : h[p] = f[p] /\ f[p] \in Nat
        /\ \A p \in 0..t : s + p \in 0..(s + t) /\ h[s + p] = g[p] /\ g[p] \in Nat
    <3>1. \A p \in 0..s : h[p] = f[p] /\ f[p] \in Nat
      BY <1>2, <2>1 DEF Counts, s
    <3>2. \A p \in 0..t : g[p] \in Nat /\ g[0] = f[s]
      BY <1>2, <2>1, <2>2 DEF Counts, s, t
    <3>3. \A p \in 0..t : s + p \in 0..(s + t) /\ (s + p) - s = p /\ (s + p \in 0..s => p = 0)
      BY <1>2
    <3>4. \A p \in 0..t : h[s + p] = IF s + p \in 0..s THEN f[s + p] ELSE g[(s + p) - s]
      BY <3>3
    <3> HIDE DEF h
    <3> QED
      BY <1>2, <3>1, <3>2, <3>3, <3>4
  <2> HIDE DEF h
  <2>4. \A p \in 0..(s + t) : h[p] \in Nat
    <3>1. \A p \in 0..(s + t) : p \in 0..s \/ (p - s \in 0..t /\ s + (p - s) = p)
      BY <1>2
    <3> QED
      BY <2>3, <3>1
  <2>5. h[0] = k /\ h[s + t] = n
    <3>1. 0 \in 0..s /\ t \in 0..t
      BY <1>2
    <3> QED
      BY <2>1, <2>2, <2>3, <3>1 DEF Counts, s, t
  <2>6. ASSUME NEW p \in 1..Len(U)
        PROVE  /\ h[p] = h[p - 1] + IF U[p].do \in {"point", "locate"} THEN 1 ELSE 0
               /\ U[p].do = "job" => WellAimed(U[p].ops, h[p - 1])
    <3>1. CASE p \in 1..s /\ U[p] = S[p]
      <4>1. p \in 0..s /\ p - 1 \in 0..s
        BY <1>2, <3>1
      <4>2. h[p] = f[p] /\ h[p - 1] = f[p - 1]
        BY <2>3, <4>1
      <4> QED
        BY <2>1, <3>1, <4>2 DEF Counts, s
    <3>2. CASE p > s /\ p - s \in 1..t /\ U[p] = T[p - s]
      <4>1. PICK q \in 1..t : q = p - s
        BY <3>2
      <4>2. q \in 0..t /\ q - 1 \in 0..t /\ p = s + q /\ p - 1 = s + (q - 1)
        BY <1>2, <4>1
      <4>3. h[p] = g[q] /\ h[p - 1] = g[q - 1]
        BY <2>3, <4>2
      <4> QED
        BY <2>2, <3>2, <4>1, <4>3 DEF Counts, t
    <3> QED
      BY <1>2, <3>1, <3>2
  <2>7. Counts(U, h, k, n)
    BY <1>2, <2>4, <2>5, <2>6 DEF Counts
  <2> QED
    BY <2>7
<1>5. ASSUME NEW p \in 1..Len(U), U[p].do = "locate"
      PROVE  p > 1 /\ U[p - 1].do \in {"take", "resolve"}
  <2>1. CASE p \in 1..s /\ U[p] = S[p]
    <3>1. p > 1 /\ S[p - 1].do \in {"take", "resolve"}
      BY <1>5, <2>1 DEF Acts, s
    <3>2. p - 1 \in 1..s
      BY <1>2, <2>1, <3>1
    <3> QED
      BY <1>2, <3>1, <3>2
  <2>2. CASE p > s /\ p - s \in 1..t /\ U[p] = T[p - s]
    <3>1. p - s > 1 /\ T[p - s - 1].do \in {"take", "resolve"}
      BY <1>5, <2>2 DEF Acts, t
    <3>2. p - 1 \in 1..Len(U) /\ ~(p - 1 \in 1..s) /\ (p - 1) - s = p - s - 1
      BY <1>2, <2>2, <3>1
    <3>3. U[p - 1] = T[p - s - 1]
      BY <1>2, <3>2
    <3> QED
      BY <1>2, <2>2, <3>1, <3>3
  <2> QED
    BY <1>2, <2>1, <2>2
<1>6. ASSUME NEW p \in 1..Len(U), U[p].do \in {"take", "resolve"}
      PROVE  p < Len(U) /\ U[p + 1].do = "locate"
  <2>1. CASE p \in 1..s /\ U[p] = S[p]
    <3>1. p < s /\ S[p + 1].do = "locate"
      BY <1>6, <2>1 DEF Acts, s
    <3>2. p + 1 \in 1..s /\ p < Len(U)
      BY <1>2, <2>1, <3>1
    <3> QED
      BY <1>2, <3>1, <3>2
  <2>2. CASE p > s /\ p - s \in 1..t /\ U[p] = T[p - s]
    <3>1. p - s < t /\ T[p - s + 1].do = "locate"
      BY <1>6, <2>2 DEF Acts, t
    <3>2. p + 1 \in 1..Len(U) /\ ~(p + 1 \in 1..s) /\ (p + 1) - s = p - s + 1 /\ p < Len(U)
      BY <1>2, <2>2, <3>1
    <3>3. U[p + 1] = T[p - s + 1]
      BY <1>2, <3>2
    <3> QED
      BY <3>1, <3>2, <3>3
  <2> QED
    BY <1>2, <2>1, <2>2
<1>7. ASSUME NEW p \in 1..Len(U), NEW i \in Nat, U[p] \in Typings(i)
      PROVE  \/ p \in 1..s /\ S[p] \in Typings(i) /\ x < i /\ i <= y
             \/ p - s \in 1..t /\ T[p - s] \in Typings(i) /\ y < i /\ i <= z
  <2>1. CASE p \in 1..s /\ U[p] = S[p]
    BY <1>7, <2>1 DEF Acts, s
  <2>2. CASE p > s /\ p - s \in 1..t /\ U[p] = T[p - s]
    BY <1>7, <2>2 DEF Acts, t
  <2> QED
    BY <1>2, <2>1, <2>2
<1>8. \A p \in 1..Len(U) : \A i \in Nat : U[p] \in Typings(i) => x < i /\ i <= z
  BY <1>3, <1>7
<1>9. ASSUME NEW p \in 1..Len(U), NEW q \in 1..Len(U), NEW i \in Nat,
             U[p] \in Typings(i), U[q] \in Typings(i)
      PROVE  p = q
  <2>1. CASE i <= y
    <3>1. p \in 1..s /\ S[p] \in Typings(i) /\ q \in 1..s /\ S[q] \in Typings(i)
      BY <1>3, <1>7, <1>9, <2>1
    <3> QED
      BY <3>1 DEF Acts, s
  <2>2. CASE y < i
    <3>1. /\ p - s \in 1..t /\ T[p - s] \in Typings(i)
          /\ q - s \in 1..t /\ T[q - s] \in Typings(i)
      BY <1>3, <1>7, <1>9, <2>2
    <3>2. p - s = q - s
      BY <3>1 DEF Acts, t
    <3> QED
      BY <1>2, <3>2
  <2> QED
    BY <1>3, <2>1, <2>2
<1> QED
  BY <1>2, <1>3, <1>4, <1>5, <1>8, <1>9, <1>6 DEF Acts, U

----------------------------------------------------------------------------
(***************************************************************************)
(* The parts of the scripts.                                               *)
(***************************************************************************)
\* A character is no key, and knows its target and its place.
LEMMA CharIsNoKey ==
    ASSUME NEW i, NEW j
    PROVE  /\ TypeOp(i, j).op = "send" /\ TypeOp(i, j).target = 0
           /\ TypeOp(i, j).events = <<Char(i, j), Up("char")>>
           /\ TypeOp(i, j) \notin ActOps
           /\ \A k, m : TypeOp(i, j) = TypeOp(k, m) => i = k /\ j = m
<1>1. /\ TypeOp(i, j).op = "send" /\ TypeOp(i, j).target = 0
      /\ TypeOp(i, j).events = <<Char(i, j), Up("char")>>
  BY DEF TypeOp, Send
<1>2. ASSUME TypeOp(i, j) \in ActOps PROVE FALSE
  <2>1. <<Char(i, j), Up("char")>> \in Seq(KeyEvents)
    BY <1>1, <1>2 DEF ActOps, Batch
  <2>2. Char(i, j) \in KeyEvents
    BY <2>1
  <2> QED
    BY <2>2 DEF Char, KeyEvents
<1>3. ASSUME NEW k, NEW m, TypeOp(i, j) = TypeOp(k, m) PROVE i = k /\ j = m
  <2>1. <<Char(i, j), Up("char")>> = <<Char(k, m), Up("char")>>
    BY <1>3 DEF TypeOp, Send
  <2>2. Char(i, j) = Char(k, m)
    BY <2>1
  <2>3. <<i, j>> = <<k, m>>
    BY <2>2 DEF Char
  <2> QED
    BY <2>3
<1> QED
  BY <1>1, <1>2, <1>3

\* Keys that go down and come up again are operations of any job.
LEMMA KeysAct == KeyOps \subseteq ActOps
BY DEF KeyOps, ActOps

\* A lookup, or a job without characters, does not type.
LEMMA JobIsNoText ==
    ASSUME NEW st \in Lookups \cup Job(ActOps), NEW i \in Nat
    PROVE  st \notin Typings(i)
<1> SUFFICES ASSUME st \in Typings(i) PROVE FALSE
  OBVIOUS
<1>1. PICK q \in 1..Len(st.ops) : st.ops[q] = TypeOp(i, q)
  BY DEF Typings
<1>2. st.do = "job"
  BY DEF Typings, Job
<1>3. st.ops \in Seq(ActOps)
  BY <1>2 DEF Lookups, Job, TooLarge
<1>4. st.ops[q] \in ActOps
  BY <1>1, <1>3
<1> QED
  BY <1>1, <1>4, CharIsNoKey

\* A stage that types is for one target.
LEMMA TextIsForOne ==
    ASSUME NEW i \in Nat, NEW k \in Nat, NEW st \in Typings(i), st \in Typings(k)
    PROVE  i = k
<1>1. PICK q \in 1..Len(st.ops) : st.ops[q] = TypeOp(i, q)
  BY DEF Typings
<1>2. st.ops[q] \in KeyOps \/ st.ops[q] = TypeOp(k, q)
  BY DEF Typings
<1> QED
  BY <1>1, <1>2, CharIsNoKey, KeysAct

\* A part that is one stage, or none.
LEMMA ActsNothing ==
    ASSUME NEW k \in Nat, NEW x \in Nat
    PROVE  Acts(<<>>, k, k, x, x)
<1>1. <<>> \in Seq(ActStages) /\ Len(<<>>) = 0
  OBVIOUS
<1> DEFINE f == [p \in 0..0 |-> k]
<1>2. Counts(<<>>, f, k, k)
  BY <1>1 DEF Counts
<1> HIDE DEF f
<1> QED
  BY <1>1, <1>2 DEF Acts

\* A single stage that acts.
LEMMA ActsOneStage ==
    ASSUME NEW st \in ActStages, st.do \in {"point", "job", "refuse"}, NEW k \in Nat, NEW x \in Nat, NEW y \in Nat, x <= y,
           st.do = "job" => WellAimed(st.ops, k),
           \A i \in Nat : st \in Typings(i) => x < i /\ i <= y
    PROVE  Acts(<<st>>, k, k + IF st.do = "point" THEN 1 ELSE 0, x, y)
<1> DEFINE m == k + IF st.do = "point" THEN 1 ELSE 0
           f == [p \in 0..1 |-> IF p = 0 THEN k ELSE m]
<1>1. <<st>> \in Seq(ActStages) /\ Len(<<st>>) = 1 /\ <<st>>[1] = st
  OBVIOUS
<1>2. f[0] = k /\ f[1] = m /\ m \in Nat /\ \A p \in 0..1 : f[p] \in Nat
  OBVIOUS
<1> HIDE DEF f, m
<1>3. \A p \in 1..1 : p = 1 /\ p - 1 = 0
  OBVIOUS
<1>4. Counts(<<st>>, f, k, m)
  BY <1>1, <1>2, <1>3 DEF Counts, m
<1>5. Acts(<<st>>, k, m, x, y)
  BY <1>1, <1>3, <1>4 DEF Acts
<1> QED
  BY <1>5 DEF m

\* A single job that is well aimed acts.
LEMMA ActsJob ==
    ASSUME NEW ops \in Seq(ActOps), NEW strict \in BOOLEAN, NEW k \in Nat, NEW x \in Nat, NEW y \in Nat,
           x <= y, WellAimed(ops, k)
    PROVE  Acts(<<[do |-> "job", strict |-> strict, ops |-> ops]>>, k, k, x, y)
<1> DEFINE st == [do |-> "job", strict |-> strict, ops |-> ops]
<1>1. st \in Job(ActOps) /\ st.do = "job" /\ st.ops = ops
  BY DEF Job
<1> HIDE DEF st
<1>2. st \in ActStages /\ \A i \in Nat : st \notin Typings(i)
  BY <1>1, JobIsNoText DEF ActStages
<1>3. Acts(<<st>>, k, k + IF st.do = "point" THEN 1 ELSE 0, x, y)
  BY <1>1, <1>2, ActsOneStage
<1>4. k + (IF st.do = "point" THEN 1 ELSE 0) = k
  BY <1>1
<1> QED
  BY <1>3, <1>4 DEF st

\* The same of a job whose error ends the call.
LEMMA ActsStrict ==
    ASSUME NEW ops \in Seq(ActOps), NEW k \in Nat, NEW x \in Nat, WellAimed(ops, k)
    PROVE  Acts(<<Strict(ops)>>, k, k, x, x)
<1>1. Strict(ops) = [do |-> "job", strict |-> TRUE, ops |-> ops]
  BY DEF Strict
<1>2. x <= x /\ TRUE \in BOOLEAN
  OBVIOUS
<1> QED
  BY <1>1, <1>2, ActsJob

\* What is sent for one unit of a text.
LEMMA StrokeIsOne ==
    ASSUME NEW i, NEW j, NEW u
    PROVE  /\ Send(Stroke(i, j, u)) \in KeyOps \/ Send(Stroke(i, j, u)) = TypeOp(i, j)
           /\ Send(Stroke(i, j, u)).op = "send" /\ Send(Stroke(i, j, u)).target = 0
<1>1. ASSUME NEW b \in Batch PROVE Send(b) \in KeyOps
  BY DEF Send, KeyOps
<1>2. <<>> \in Batch
  <2>1. <<>> \in Seq(KeyEvents) /\ Len(<<>>) = 0
    OBVIOUS
  <2> QED
    BY <2>1 DEF Batch, Balanced
<1>3. ASSUME NEW key \in Holdable PROVE <<Down(key), Up(key)>> \in Batch
  <2> DEFINE b == <<Down(key), Up(key)>>
  <2>1. Down(key) \in KeyEvents /\ Up(key) \in KeyEvents
    BY DEF Down, Up, KeyEvents
  <2>2. b \in Seq(KeyEvents) /\ Len(b) = 2 /\ b[1] = Down(key) /\ b[2] = Up(key)
    BY <2>1
  <2> HIDE DEF b
  <2>3. Balanced(b)
    BY <2>2 DEF Balanced, Down, Up
  <2> QED
    BY <2>2, <2>3 DEF Batch, b
<1>4. "enter" \in Holdable /\ "tab" \in Holdable
  BY DEF Holdable, KnownKeys
<1>5. Stroke(i, j, u) \in Batch \/ Stroke(i, j, u) = <<Char(i, j), Up("char")>>
  BY <1>2, <1>3, <1>4 DEF Stroke
<1>6. Send(Stroke(i, j, u)).op = "send" /\ Send(Stroke(i, j, u)).target = 0
  BY DEF Send
<1> QED
  BY <1>1, <1>5, <1>6 DEF TypeOp

\* Typing a text moves on to the next target, unless it has no character.
LEMMA ActsTypeText ==
    ASSUME NEW i \in Nat \ {0}, NEW text \in Seq(Units), NEW k \in Nat
    PROVE  Acts(TypeText(i, text), k, k, i - 1, i) /\ Len(TypeText(i, text)) = 1
<1> DEFINE ops == [j \in DOMAIN text |-> Send(Stroke(i, j, text[j]))]
           st  == Strict(ops)
<1>1. i - 1 \in Nat /\ i - 1 <= i /\ i \in Nat
  OBVIOUS
<1>2. CASE Len(text) > MaxText
  <2>1. TooLarge \in Lookups /\ TooLarge.do = "refuse"
    BY DEF Lookups, TooLarge
  <2>2. TooLarge \in ActStages /\ \A m \in Nat : TooLarge \notin Typings(m)
    BY <2>1, JobIsNoText DEF ActStages
  <2>3. Acts(<<TooLarge>>, k, k + IF TooLarge.do = "point" THEN 1 ELSE 0, i - 1, i)
    BY <1>1, <2>1, <2>2, ActsOneStage
  <2>4. TypeText(i, text) = <<TooLarge>> /\ Len(<<TooLarge>>) = 1
    BY <1>2 DEF TypeText
  <2> QED
    BY <2>1, <2>3, <2>4
<1>3. CASE ~(Len(text) > MaxText)
  <2>1. TypeText(i, text) = <<st>> /\ Len(<<st>>) = 1
    BY <1>3 DEF TypeText
  <2>2. DOMAIN text = 1..Len(text) /\ Len(text) \in Nat
    OBVIOUS
  <2>3. /\ ops \in Seq(KeyOps \cup TypeOps) /\ Len(ops) \in Nat
        /\ \A q \in 1..Len(ops) : ops[q] \in KeyOps \/ ops[q] = TypeOp(i, q)
        /\ \A q \in 1..Len(ops) : ops[q].op = "send" /\ ops[q].target = 0
    <3>1. \A j \in 1..Len(text) : Send(Stroke(i, j, text[j])) \in KeyOps \cup TypeOps
      BY StrokeIsOne DEF TypeOps
    <3>2. ops \in Seq(KeyOps \cup TypeOps) /\ Len(ops) = Len(text)
      BY <2>2, <3>1
    <3>3. \A q \in 1..Len(ops) : ops[q] = Send(Stroke(i, q, text[q]))
      BY <2>2, <3>2
    <3> HIDE DEF ops
    <3> QED
      BY <2>2, <3>2, <3>3, StrokeIsOne
  <2> HIDE DEF ops
  <2>4. st.do = "job" /\ st.ops = ops /\ st = [do |-> "job", strict |-> TRUE, ops |-> ops]
    BY DEF Strict
  <2>5. WellAimed(st.ops, k)
    BY <2>3, <2>4 DEF WellAimed
  <2> HIDE DEF st
  <2>6. st \in ActStages /\ \A m \in Nat : st \in Typings(m) => m = i
    <3>1. CASE \E q \in 1..Len(ops) : ops[q] = TypeOp(i, q)
      <4>1. st \in Typings(i)
        BY <2>3, <2>4, <3>1 DEF Typings, Job
      <4> QED
        BY <1>1, <4>1, TextIsForOne DEF ActStages
    <3>2. CASE ~\E q \in 1..Len(ops) : ops[q] = TypeOp(i, q)
      <4>1. \A q \in 1..Len(ops) : ops[q] \in ActOps
        BY <2>3, <3>2, KeysAct
      <4>2. ops \in Seq(ActOps)
        BY <2>3, <4>1
      <4>3. st \in Job(ActOps)
        BY <2>4, <4>2 DEF Job
      <4> QED
        BY <4>3, JobIsNoText DEF ActStages
    <3> QED
      BY <3>1, <3>2
  <2>7. Acts(<<st>>, k, k + IF st.do = "point" THEN 1 ELSE 0, i - 1, i)
    <3>1. \A m \in Nat : st \in Typings(m) => i - 1 < m /\ m <= i
      BY <1>1, <2>6
    <3> QED
      BY <1>1, <2>4, <2>5, <2>6, <3>1, ActsOneStage
  <2> QED
    BY <2>1, <2>4, <2>7
<1> QED
  BY <1>2, <1>3

\* A target that is there adds one point.
LEMMA ActsTarget ==
    ASSUME NEW t \in Target, NEW k \in Nat, NEW x \in Nat
    PROVE  Acts(ResolveTarget(t), k, k + IF t = NoTarget THEN 0 ELSE 1, x, x)
<1>1. CASE t \in ByPoint
  <2> DEFINE st == [do |-> "point", at |-> t.at]
  <2>1. t.by = "point" /\ t # NoTarget /\ t.at \in Int
    BY <1>1 DEF ByPoint, NoTarget
  <2>2. ResolveTarget(t) = <<st>>
    BY <2>1 DEF ResolveTarget
  <2>3. st \in Lookups /\ st.do = "point"
    BY <2>1 DEF Lookups
  <2> HIDE DEF st
  <2>4. st \in ActStages /\ \A i \in Nat : st \notin Typings(i)
    BY <2>3, JobIsNoText DEF ActStages
  <2>5. Acts(<<st>>, k, k + IF st.do = "point" THEN 1 ELSE 0, x, x)
    BY <2>3, <2>4, ActsOneStage
  <2> QED
    BY <2>1, <2>2, <2>3, <2>5
<1>2. CASE t \in ByLabel \cup BySelector
  <2> DEFINE look == IF t.by = "selector" THEN [do |-> "resolve", target |-> t]
                     ELSE [do |-> "take", label |-> t.label]
             loc == [do |-> "locate"]
             S == <<look, loc>>
  <2>1. t.by \in {"label", "selector"} /\ t # NoTarget
    BY <1>2 DEF ByLabel, BySelector, NoTarget
  <2>2. ResolveTarget(t) = S
    <3>1. ResolveLabel(t) = <<look>>
      BY <2>1 DEF ResolveLabel
    <3>2. ResolveTarget(t) = ResolveLabel(t) \o <<loc>>
      <4>1. t.by # "point"
        BY <2>1
      <4> QED
        BY <2>1, <4>1 DEF ResolveTarget
    <3>3. <<look>> \o <<loc>> = <<look, loc>>
      BY TwoStages
    <3> QED
      BY <3>1, <3>2, <3>3
  <2>3. look \in Lookups /\ look.do \in {"resolve", "take"} /\ loc \in Lookups /\ loc.do = "locate"
    BY <1>2, <2>1 DEF Lookups, ByLabel, BySelector
  <2> HIDE DEF look, loc
  <2>4. S \in Seq(ActStages) /\ Len(S) = 2 /\ S[1] = look /\ S[2] = loc
    BY <2>3 DEF ActStages
  <2> HIDE DEF S
  <2> DEFINE f == [p \in 0..2 |-> IF p = 2 THEN k + 1 ELSE k]
  <2>5. f[0] = k /\ f[1] = k /\ f[2] = k + 1 /\ \A p \in 0..2 : f[p] \in Nat
    OBVIOUS
  <2> HIDE DEF f
  <2>6. \A p \in 1..2 : (p = 1 /\ p - 1 = 0) \/ (p = 2 /\ p - 1 = 1)
    OBVIOUS
  <2>7. Counts(S, f, k, k + 1)
    BY <2>3, <2>4, <2>5, <2>6 DEF Counts
  <2>8. \A p \in 1..Len(S) : \A i \in Nat : S[p] \notin Typings(i)
    BY <2>3, <2>4, <2>6, JobIsNoText
  <2>9. \A p \in 1..Len(S) :
          /\ S[p].do = "locate" => p > 1 /\ S[p - 1].do \in {"take", "resolve"}
          /\ S[p].do \in {"take", "resolve"} => p < Len(S) /\ S[p + 1].do = "locate"
    BY <2>3, <2>4, <2>6
  <2>10. Acts(S, k, k + 1, x, x)
    BY <2>4, <2>7, <2>8, <2>9 DEF Acts
  <2> QED
    BY <2>1, <2>2, <2>10
<1>3. CASE t = NoTarget
  <2>1. ResolveTarget(t) = <<>>
    BY <1>3 DEF ResolveTarget, NoTarget
  <2>2. k + (IF t = NoTarget THEN 0 ELSE 1) = k
    BY <1>3
  <2> QED
    BY <2>1, <2>2, ActsNothing
<1> QED
  BY <1>1, <1>2, <1>3 DEF Target

----------------------------------------------------------------------------
(***************************************************************************)
(* The jobs of a call that acts.                                           *)
(***************************************************************************)
LEMMA Ups == ASSUME NEW key \in Holdable PROVE Up(key) \in KeyEvents /\ Down(key) \in KeyEvents
BY DEF Up, Down, KeyEvents

\* Press is an operation of a tool that acts.
LEMMA PressOp == ASSUME NEW k \in Nat PROVE Press(k) \in ActOps
<1> DEFINE d == Down("button")
           u == Up("button")
           b == <<d, u>>
<1>5. d \in KeyEvents /\ u \in KeyEvents /\ d.event = "down" /\ u.event = "up" /\ d.key = u.key
  BY DEF KeyEvents, Holdable, Down, Up
<1> HIDE DEF d, u
<1>1. b \in Seq(KeyEvents) /\ Len(b) = 2 /\ b[1] = d /\ b[2] = u
  BY <1>5
<1> HIDE DEF b
<1>2. \A i \in 1..2 : i = 1 \/ i = 2
  OBVIOUS
<1>3. Balanced(b)
  BY <1>1, <1>2, <1>5 DEF Balanced
<1>4. Press(k) = [op |-> "send", target |-> k, events |-> b]
  BY DEF Press, b, d, u
<1> QED
  BY <1>1, <1>3, <1>4 DEF ActOps, Batch

\* Wheel is an operation without a target.
LEMMA WheelOp == Wheel \in ActOps /\ Wheel.op = "send" /\ Wheel.target = 0
<1> DEFINE e == [event |-> "wheel", key |-> "wheel"]
           b == <<e>>
<1>4. e \in KeyEvents
  BY DEF KeyEvents
<1> HIDE DEF e
<1>1. b \in Seq(KeyEvents) /\ Len(b) = 1 /\ b[1] = e
  BY <1>4
<1> USE DEF e
<1>2. e.event # "down" /\ Wheel = [op |-> "send", target |-> 0, events |-> b]
  BY DEF Wheel, Send
<1> HIDE DEF b, e
<1>3. Balanced(b)
  BY <1>1, <1>2 DEF Balanced
<1> QED
  BY <1>1, <1>2, <1>3 DEF ActOps, Batch

\* A chord puts its keys down, and up again in the opposite order.
LEMMA ShortcutOp ==
    ASSUME NEW keys \in Seq(KnownKeys)
    PROVE  Shortcut(keys) \in ActOps /\ Shortcut(keys).op = "send" /\ Shortcut(keys).target = 0
<1> DEFINE n == Len(keys)
           b == [i \in 1..(2 * n) |-> IF i <= n THEN Down(keys[i]) ELSE Up(keys[2 * n + 1 - i])]
<1>1. n \in Nat /\ \A i \in 1..n : keys[i] \in Holdable
  BY DEF Holdable
<1>2. \A i \in 1..(2 * n) : ~(i <= n) => 2 * n + 1 - i \in 1..n
  BY <1>1
<1>3. \A i \in 1..(2 * n) : (i <= n => b[i] = Down(keys[i])) /\ (~(i <= n) => b[i] = Up(keys[2 * n + 1 - i]))
  OBVIOUS
<1>4. b \in Seq(KeyEvents) /\ Len(b) = 2 * n
  <2>1. \A i \in 1..(2 * n) : i <= n => i \in 1..n
    BY <1>1
  <2>2. \A i \in 1..(2 * n) : b[i] \in KeyEvents
    BY <1>1, <1>2, <1>3, <2>1, Ups
  <2>3. b = [i \in 1..(2 * n) |-> b[i]] /\ 2 * n \in Nat
    BY <1>1
  <2> HIDE DEF b, n
  <2> QED
    BY <2>2, <2>3
<1> HIDE DEF b
<1>5. Balanced(b)
  <2> SUFFICES ASSUME NEW i \in 1..(2 * n), b[i].event = "down"
               PROVE  \E j \in 1..(2 * n) : i < j /\ b[j].event = "up" /\ b[j].key = b[i].key
    BY <1>4 DEF Balanced
  <2>1. i <= n /\ b[i] = Down(keys[i])
    <3>1. \A key : Up(key).event # "down"
      BY DEF Up
    <3> QED
      BY <1>3, <3>1
  <2> DEFINE j == 2 * n + 1 - i
  <2>2. j \in 1..(2 * n) /\ i < j /\ ~(j <= n) /\ 2 * n + 1 - j = i
    BY <1>1, <2>1
  <2> HIDE DEF j
  <2>3. b[j] = Up(keys[i])
    BY <1>3, <2>2
  <2> QED
    BY <2>1, <2>2, <2>3 DEF Up, Down
<1>6. Shortcut(keys) = [op |-> "send", target |-> 0, events |-> b]
  BY DEF Shortcut, Send, b
<1> QED
  BY <1>4, <1>5, <1>6 DEF ActOps, Batch

\* The remaining operations of the tools that act, and their targets.
LEMMA OtherOps ==
    /\ \A k \in Nat : Aim(k) \in ActOps /\ Aim(k).op = "aim" /\ Aim(k).target = k
    /\ \A key \in Holdable : Hold(key) \in ActOps /\ Hold(key).op = "hold"
    /\ \A k \in Nat : Press(k).op = "send" /\ Press(k).target = k
BY DEF Aim, Hold, Press, ActOps

\* Times repeats one operation.
LEMMA Repeated ==
    ASSUME NEW S, NEW x \in S, NEW n \in Int
    PROVE  Times(n, x) \in Seq(S) /\ \A q \in 1..Len(Times(n, x)) : Times(n, x)[q] = x
<1>1. CASE n \in Nat
  BY <1>1 DEF Times
<1>2. CASE n \notin Nat
  <2>1. 1..n = {}
    BY <1>2
  <2>2. Times(n, x) = <<>>
    BY <2>1 DEF Times
  <2> QED
    BY <2>2
<1> QED
  BY <1>1, <1>2

\* Two well-aimed sequences of operations are well aimed one after the other.
LEMMA AimedInTurn ==
    ASSUME NEW u \in Seq(ActOps), NEW v \in Seq(ActOps), NEW k, WellAimed(u, k), WellAimed(v, k)
    PROVE  u \o v \in Seq(ActOps) /\ WellAimed(u \o v, k)
<1> DEFINE w == u \o v
<1>1. /\ w \in Seq(ActOps) /\ Len(w) = Len(u) + Len(v) /\ Len(u) \in Nat /\ Len(v) \in Nat
      /\ \A p \in 1..Len(u) : w[p] = u[p]
      /\ \A p \in 1..Len(v) : w[Len(u) + p] = v[p]
      /\ \A p \in 1..Len(w) : \/ p \in 1..Len(u) /\ w[p] = u[p]
                              \/ p > Len(u) /\ p - Len(u) \in 1..Len(v) /\ w[p] = v[p - Len(u)]
  BY Concatenated
<1> HIDE DEF w
<1>2. ASSUME NEW q \in 1..Len(w)
      PROVE  /\ w[q].op = "aim" => w[q].target \in 1..k
             /\ w[q].op = "send" /\ w[q].target # 0 =>
                    q > 1 /\ w[q - 1].op \in {"aim", "send"} /\ w[q - 1].target = w[q].target
  <2>1. CASE q \in 1..Len(u) /\ w[q] = u[q]
    <3>1. q > 1 => q - 1 \in 1..Len(u)
      BY <1>1, <2>1
    <3> QED
      BY <1>1, <2>1, <3>1 DEF WellAimed
  <2>2. CASE q > Len(u) /\ q - Len(u) \in 1..Len(v) /\ w[q] = v[q - Len(u)]
    <3>1. PICK r \in 1..Len(v) : r = q - Len(u)
      BY <2>2
    <3>2. r > 1 => r - 1 \in 1..Len(v) /\ q - 1 = Len(u) + (r - 1) /\ q > 1
      BY <1>1, <3>1
    <3> QED
      <4>1. /\ v[r].op = "aim" => v[r].target \in 1..k
            /\ v[r].op = "send" /\ v[r].target # 0 =>
                   r > 1 /\ v[r - 1].op \in {"aim", "send"} /\ v[r - 1].target = v[r].target
        BY DEF WellAimed
      <4>2. w[q] = v[r] /\ (r > 1 => w[q - 1] = v[r - 1])
        BY <1>1, <2>2, <3>1, <3>2
      <4> QED
        BY <3>2, <4>1, <4>2
  <2> QED
    BY <1>1, <2>1, <2>2
<1> QED
  BY <1>1, <1>2 DEF WellAimed, w

\* One operation that is no click.
LEMMA AimedOnce ==
    ASSUME NEW o \in ActOps, NEW k, o.op = "aim" => o.target \in 1..k, o.op = "send" => o.target = 0
    PROVE  <<o>> \in Seq(ActOps) /\ WellAimed(<<o>>, k)
<1>1. <<o>> \in Seq(ActOps) /\ Len(<<o>>) = 1 /\ <<o>>[1] = o
  OBVIOUS
<1>2. \A q \in 1..1 : q = 1
  OBVIOUS
<1> QED
  BY <1>1, <1>2 DEF WellAimed

\* Operations that neither aim nor click.
LEMMA AimedNowhere ==
    ASSUME NEW ops \in Seq(ActOps), NEW k, \A q \in 1..Len(ops) : ops[q].op = "send" /\ ops[q].target = 0
    PROVE  WellAimed(ops, k)
BY DEF WellAimed

\* Clicking any number of times on the k-th target acts, once the target is resolved.
LEMMA ActsClick ==
    ASSUME NEW k \in Nat, NEW m \in Nat, NEW n \in Int, NEW x \in Nat, 1 <= k, k <= m
    PROVE  Acts(Click(k, n), m, m, x, x)
<1> DEFINE u == <<Aim(k)>>
           v == Times(n, Press(k))
           w == u \o v
<1>1. u \in Seq(ActOps) /\ v \in Seq(ActOps)
  BY PressOp, OtherOps, Repeated
<1>2. Len(u) = 1 /\ u[1] = Aim(k) /\ \A q \in 1..Len(v) : v[q] = Press(k)
  BY PressOp, Repeated
<1> HIDE DEF u, v
<1>3. /\ w \in Seq(ActOps)
      /\ \A q \in 1..Len(u) : w[q] = u[q]
      /\ \A q \in 1..Len(w) : \/ q \in 1..Len(u) /\ w[q] = u[q]
                              \/ q > Len(u) /\ q - Len(u) \in 1..Len(v) /\ w[q] = v[q - Len(u)]
  BY <1>1, Concatenated
<1>4. \A q \in 1..Len(w) : (q = 1 /\ w[q] = Aim(k)) \/ (q > 1 /\ w[q] = Press(k))
  BY <1>2, <1>3
<1>5. \A q \in 1..Len(w) : q > 1 => q - 1 \in 1..Len(w)
  BY <1>3
<1>6. k \in 1..m
  OBVIOUS
<1> HIDE DEF w
<1>7. WellAimed(w, m)
  BY <1>4, <1>5, <1>6, OtherOps DEF WellAimed
<1>8. Click(k, n) = <<[do |-> "job", strict |-> TRUE, ops |-> w]>>
  BY DEF Click, Strict, u, v, w
<1> QED
  <2>1. w \in Seq(ActOps) /\ x <= x
    BY <1>3 DEF w
  <2> QED
    BY <1>7, <1>8, <2>1, ActsJob

\* Scripts for each target in turn act, as one script for all of them.
LEMMA ActsAll ==
    ASSUME NEW seqs \in Seq(Seq(ActStages)), NEW y, y[0] \in Nat,
           \A k \in 1..Len(seqs) : Acts(seqs[k], k - 1, k, y[k - 1], y[k])
    PROVE  Acts(FlattenSeq(seqs), 0, Len(seqs), y[0], y[Len(seqs)])
<1>1. PICK g : /\ g[0] = <<>> /\ FlattenSeq(seqs) = g[Len(seqs)]
               /\ \A k \in 1..Len(seqs) : g[k] = g[k - 1] \o seqs[k]
  BY Flattening
<1> DEFINE n == Len(seqs)
           S == { m \in Nat : m <= n => Acts(g[m], 0, m, y[0], y[m]) }
<1>2. n \in Nat
  OBVIOUS
<1>3. 0 \in S
  BY <1>1, ActsNothing
<1>4. ASSUME NEW m \in Nat, m \in S PROVE m + 1 \in S
  <2> SUFFICES ASSUME m + 1 <= n PROVE Acts(g[m + 1], 0, m + 1, y[0], y[m + 1])
    OBVIOUS
  <2>1. m + 1 \in 1..n /\ (m + 1) - 1 = m /\ m <= n
    BY <1>2
  <2>2. Acts(g[m], 0, m, y[0], y[m])
    BY <1>4, <2>1
  <2>3. Acts(seqs[m + 1], m, m + 1, y[m], y[m + 1]) /\ g[m + 1] = g[m] \o seqs[m + 1]
    BY <1>1, <2>1
  <2> QED
    BY <2>2, <2>3, ActsInTurn
<1> HIDE DEF S
<1>5. n \in S
  BY <1>2, <1>3, <1>4, Induction
<1> QED
  BY <1>1, <1>2, <1>5 DEF S

\* Pairs of an aim and a click, and what may be held while they are made.
LEMMA ClicksAimed ==
    ASSUME NEW n \in Nat
    PROVE  LET clicks == FlattenSeq([k \in 1..n |-> <<Aim(k), Press(k)>>]) IN
           clicks \in Seq(ActOps) /\ WellAimed(clicks, n)
<1> DEFINE seqs == [k \in 1..n |-> <<Aim(k), Press(k)>>]
<1>1. \A k \in 1..n : seqs[k] = <<Aim(k), Press(k)>> /\ k \in Nat
  OBVIOUS
<1>2. seqs \in Seq(Seq(ActOps)) /\ Len(seqs) = n
  <2>1. \A k \in 1..n : <<Aim(k), Press(k)>> \in Seq(ActOps)
    BY PressOp, OtherOps
  <2> QED
    BY <2>1
<1>3. ASSUME NEW k \in 1..n PROVE WellAimed(seqs[k], n)
  <2>1. /\ Len(seqs[k]) = 2 /\ seqs[k][1] = Aim(k) /\ seqs[k][2] = Press(k)
        /\ \A q \in 1..2 : q = 1 \/ (q = 2 /\ q - 1 = 1)
    BY <1>1
  <2>2. Aim(k).op = "aim" /\ Aim(k).target = k /\ Press(k).op = "send" /\ Press(k).target = k
    BY OtherOps
  <2> HIDE DEF seqs
  <2> QED
    BY <2>1, <2>2 DEF WellAimed
<1> HIDE DEF seqs
<1>4. PICK g : /\ g[0] = <<>> /\ FlattenSeq(seqs) = g[n]
               /\ \A k \in 1..n : g[k] = g[k - 1] \o seqs[k]
  BY <1>2, Flattening
<1> DEFINE S == { m \in Nat : m <= n => g[m] \in Seq(ActOps) /\ WellAimed(g[m], n) }
<1>5. 0 \in S
  <2>1. <<>> \in Seq(ActOps) /\ Len(<<>>) = 0
    OBVIOUS
  <2>2. WellAimed(<<>>, n)
    BY <2>1 DEF WellAimed
  <2> QED
    BY <1>4, <2>1, <2>2
<1>6. ASSUME NEW m \in Nat, m \in S PROVE m + 1 \in S
  <2> SUFFICES ASSUME m + 1 <= n PROVE g[m + 1] \in Seq(ActOps) /\ WellAimed(g[m + 1], n)
    OBVIOUS
  <2>1. m + 1 \in 1..n /\ (m + 1) - 1 = m /\ m <= n
    OBVIOUS
  <2>2. g[m] \in Seq(ActOps) /\ WellAimed(g[m], n)
    BY <1>6, <2>1
  <2>3. seqs[m + 1] \in Seq(ActOps) /\ WellAimed(seqs[m + 1], n) /\ g[m + 1] = g[m] \o seqs[m + 1]
    <3>1. seqs[m + 1] \in Seq(ActOps)
      BY <1>2, <2>1
    <3> QED
      BY <1>3, <1>4, <2>1, <3>1
  <2> QED
    BY <2>2, <2>3, AimedInTurn
<1> HIDE DEF S
<1>7. n \in S
  BY <1>5, <1>6, Induction
<1> QED
  BY <1>4, <1>7 DEF S, seqs

\* Clicking all targets of a batch in one job acts, with Ctrl held or not.
LEMMA ActsClickMany ==
    ASSUME NEW n \in Nat, NEW hold \in BOOLEAN, NEW x \in Nat
    PROVE  Acts(ClickMany(n, hold), n, n, x, x)
<1> DEFINE clicks == FlattenSeq([k \in 1..n |-> <<Aim(k), Press(k)>>])
           ops == IF hold THEN <<Hold("ctrl")>> \o clicks ELSE clicks
<1>1. clicks \in Seq(ActOps) /\ WellAimed(clicks, n)
  BY ClicksAimed
<1>2. <<Hold("ctrl")>> \in Seq(ActOps) /\ WellAimed(<<Hold("ctrl")>>, n)
  <2>1. Hold("ctrl") \in ActOps /\ Hold("ctrl").op = "hold"
    BY OtherOps DEF Holdable, KnownKeys
  <2> QED
    BY <2>1, AimedOnce
<1>3. ClickMany(n, hold) = <<[do |-> "job", strict |-> TRUE, ops |-> ops]>>
  BY DEF ClickMany, Strict
<1> HIDE DEF clicks
<1>4. ops \in Seq(ActOps) /\ WellAimed(ops, n)
  BY <1>1, <1>2, AimedInTurn
<1> HIDE DEF ops
<1>5. x <= x /\ TRUE \in BOOLEAN
  OBVIOUS
<1> QED
  BY <1>3, <1>4, <1>5, ActsJob

\* A chord in a job of its own.
LEMMA ActsChord ==
    ASSUME NEW keys \in Seq(KnownKeys), NEW strict \in BOOLEAN, NEW m \in Nat, NEW x \in Nat
    PROVE  Acts(<<[do |-> "job", strict |-> strict, ops |-> <<Shortcut(keys)>>]>>, m, m, x, x)
<1>1. Shortcut(keys) \in ActOps /\ Shortcut(keys).op = "send" /\ Shortcut(keys).target = 0
  BY ShortcutOp
<1>2. <<Shortcut(keys)>> \in Seq(ActOps) /\ WellAimed(<<Shortcut(keys)>>, m) /\ x <= x
  BY <1>1, AimedOnce
<1> QED
  BY <1>2, ActsJob

\* Selecting all and deleting acts, whether its errors are looked at or not.
LEMMA ActsClear ==
    ASSUME NEW strict \in BOOLEAN, NEW m \in Nat, NEW x \in Nat
    PROVE  Acts([i \in DOMAIN ClearField |-> [do |-> "job", strict |-> strict, ops |-> ClearField[i]]],
                m, m, x, x)
<1> DEFINE a == <<Shortcut(<<"ctrl", "a">>)>>
           d == <<Shortcut(<<"delete">>)>>
           J(ops) == [do |-> "job", strict |-> strict, ops |-> ops]
<1>1. <<"ctrl", "a">> \in Seq(KnownKeys) /\ <<"delete">> \in Seq(KnownKeys)
  BY DEF KnownKeys
<1>2. Acts(<<J(a)>>, m, m, x, x) /\ Acts(<<J(d)>>, m, m, x, x)
  BY <1>1, ActsChord
<1>3. ClearField = <<a, d>>
  BY DEF ClearField
<1> HIDE DEF a, d, J
<1>4. Acts(<<J(a), J(d)>>, m, m, x, x)
  <2>1. Acts(<<J(a)>> \o <<J(d)>>, m, m, x, x)
    BY <1>2, ActsInTurn
  <2> QED
    BY <2>1, TwoStages
<1>5. [i \in DOMAIN <<a, d>> |-> J(<<a, d>>[i])] = <<J(a), J(d)>>
  OBVIOUS
<1> QED
  BY <1>3, <1>4, <1>5 DEF J

----------------------------------------------------------------------------
(***************************************************************************)
(* The scripts of the tools.                                               *)
(***************************************************************************)
\* The shape of the script S of a request for some tool.
Acting(S, tool)  == tool # "Assert" /\ Len(S) \in Nat \ {0} /\ \E m, y \in Nat : Acts(S, 0, m, 0, y)
Shaped(S, tool) ==
    \/ Acting(S, tool)
    \/ S \in Look
    \/ S \in Use1 /\ tool # "Assert"
    \/ S \in Use2

\* A script that ends with more points than it began with is not empty.
LEMMA ActingWithPoints ==
    ASSUME NEW S, NEW tool, tool # "Assert", NEW m \in Nat \ {0}, NEW y \in Nat, Acts(S, 0, m, 0, y)
    PROVE  Acting(S, tool)
<1>1. PICK f : Counts(S, f, 0, m)
  BY DEF Acts
<1>2. Len(S) # 0
  BY <1>1 DEF Counts
<1>3. Len(S) \in Nat
  BY DEF Acts
<1> QED
  BY <1>2, <1>3 DEF Acting

\* The tools that are one job with one operation, without a target.
LEMMA ActingOneJob ==
    ASSUME NEW o \in ActOps, NEW tool, tool # "Assert",
           o.op # "aim", o.op = "send" => o.target = 0
    PROVE  Acting(<<Strict(<<o>>)>>, tool)
<1>1. <<o>> \in Seq(ActOps) /\ WellAimed(<<o>>, 0)
  BY AimedOnce
<1>2. Acts(<<Strict(<<o>>)>>, 0, 0, 0, 0)
  BY <1>1, ActsStrict
<1>3. Len(<<Strict(<<o>>)>>) = 1
  OBVIOUS
<1> QED
  BY <1>2, <1>3 DEF Acting

\* The script of Click, and of all that resolve a target and click it.
LEMMA ClickShape ==
    ASSUME NEW t \in Target, t # NoTarget, NEW n \in Int, NEW tool, tool # "Assert"
    PROVE  Acting(ResolveTarget(t) \o Click(1, n), tool)
<1>1. Acts(ResolveTarget(t), 0, 1, 0, 0)
  <2>1. Acts(ResolveTarget(t), 0, 0 + IF t = NoTarget THEN 0 ELSE 1, 0, 0)
    BY ActsTarget
  <2> QED
    BY <2>1
<1>2. Acts(Click(1, n), 1, 1, 0, 0)
  BY ActsClick
<1>3. Acts(ResolveTarget(t) \o Click(1, n), 0, 1, 0, 0)
  BY <1>1, <1>2, ActsInTurn
<1> QED
  BY <1>3, ActingWithPoints

\* The script of Scroll.
LEMMA ScrollShape ==
    ASSUME NEW r \in Asks, r.targets # <<>>, r.targets[1] # NoTarget, r.tool = "Scroll"
    PROVE  Acting(Scroll(r), r.tool)
<1> DEFINE t == r.targets[1]
           notches == Times(Notches(r.size), Wheel)
           hold == IF r.hold THEN <<Hold("shift")>> ELSE <<>>
           ops == <<Aim(1)>> \o hold \o notches
<1>1. t \in Target /\ r.size \in Int /\ r.hold \in BOOLEAN
  BY DEF Asks, Target
<1>2. Notches(r.size) \in Int
  BY <1>1, InteractionAssumption DEF Notches
<1>3. notches \in Seq(ActOps) /\ WellAimed(notches, 1)
  <2>1. notches \in Seq(ActOps) /\ \A q \in 1..Len(notches) : notches[q] = Wheel
    BY <1>2, WheelOp, Repeated
  <2> HIDE DEF notches
  <2> QED
    BY <2>1, WheelOp, AimedNowhere
<1>4. hold \in Seq(ActOps) /\ WellAimed(hold, 1)
  <2>1. CASE r.hold
    <3>1. Hold("shift") \in ActOps /\ Hold("shift").op = "hold"
      BY OtherOps DEF Holdable, KnownKeys
    <3>2. hold = <<Hold("shift")>>
      BY <2>1
    <3> QED
      BY <3>1, <3>2, AimedOnce
  <2>2. CASE ~r.hold
    <3>1. hold = <<>> /\ Len(<<>>) = 0 /\ <<>> \in Seq(ActOps)
      BY <2>2
    <3> QED
      BY <3>1 DEF WellAimed
  <2> QED
    BY <2>1, <2>2
<1>5. <<Aim(1)>> \in Seq(ActOps) /\ WellAimed(<<Aim(1)>>, 1)
  <2>1. Aim(1) \in ActOps /\ Aim(1).op = "aim" /\ Aim(1).target = 1
    BY OtherOps
  <2> QED
    BY <2>1, AimedOnce
<1> HIDE DEF notches, hold
<1>6. <<Aim(1)>> \o hold \in Seq(ActOps) /\ WellAimed(<<Aim(1)>> \o hold, 1)
  BY <1>4, <1>5, AimedInTurn
<1>7. ops \in Seq(ActOps) /\ WellAimed(ops, 1)
  BY <1>3, <1>6, AimedInTurn
<1> HIDE DEF ops
<1>8. Acts(<<Strict(ops)>>, 1, 1, 0, 0)
  BY <1>7, ActsStrict
<1>9. Acts(ResolveTarget(t), 0, 1, 0, 0)
  <2>1. Acts(ResolveTarget(t), 0, 0 + IF t = NoTarget THEN 0 ELSE 1, 0, 0)
    BY <1>1, ActsTarget
  <2> QED
    BY <2>1
<1>10. Scroll(r) = ResolveTarget(t) \o <<Strict(ops)>>
  BY DEF Scroll, ops, hold, notches
<1>11. Acts(Scroll(r), 0, 1, 0, 0)
  BY <1>8, <1>9, <1>10, ActsInTurn
<1> QED
  BY <1>11, ActingWithPoints

\* The script of Type, with or without a target, clearing or not.
LEMMA TypeShape ==
    ASSUME NEW r \in Asks, r.targets # <<>>, r.tool = "Type"
    PROVE  Acting(Type(r), r.tool)
<1> DEFINE t == r.targets[1]
           m == IF t = NoTarget THEN 0 ELSE 1
           click == IF t.by = "none" THEN <<>> ELSE Click(1, 1)
           clear == IF r.clear THEN [i \in DOMAIN ClearField |-> Strict(ClearField[i])] ELSE <<>>
           enter == IF r.enter THEN <<Strict(<<Shortcut(<<"enter">>)>>)>> ELSE <<>>
<1>1. t \in Target /\ r.text \in Seq(Units) /\ m \in Nat /\ (t.by = "none" <=> t = NoTarget)
  BY DEF Asks, Target, ByPoint, ByLabel, BySelector, NoTarget
<1>2. Acts(ResolveTarget(t), 0, m, 0, 0)
  <2>1. Acts(ResolveTarget(t), 0, 0 + IF t = NoTarget THEN 0 ELSE 1, 0, 0)
    BY <1>1, ActsTarget
  <2> QED
    BY <2>1
<1>3. Acts(click, m, m, 0, 0)
  <2>1. CASE t = NoTarget
    <3>1. click = <<>>
      BY <1>1, <2>1
    <3> QED
      BY <1>1, <3>1, ActsNothing
  <2>2. CASE t # NoTarget
    <3>1. click = Click(1, 1) /\ m = 1
      BY <1>1, <2>2
    <3>2. Acts(Click(1, 1), 1, 1, 0, 0)
      <4>1. 1 \in Nat /\ 1 \in Int /\ 0 \in Nat /\ 1 <= 1
        OBVIOUS
      <4> QED
        BY <4>1, ActsClick
    <3> HIDE DEF click, m
    <3> QED
      BY <3>1, <3>2
  <2> QED
    BY <2>1, <2>2
<1>4. Acts(clear, m, m, 0, 0)
  BY <1>1, ActsClear, ActsNothing DEF Strict
<1>5. Acts(TypeText(1, r.text), m, m, 0, 1)
  <2>1. Acts(TypeText(1, r.text), m, m, 1 - 1, 1)
    BY <1>1, ActsTypeText
  <2> QED
    BY <2>1
<1>6. Acts(enter, m, m, 1, 1)
  <2>1. <<"enter">> \in Seq(KnownKeys)
    BY DEF KnownKeys
  <2> QED
    BY <1>1, <2>1, ActsChord, ActsNothing DEF Strict
<1> HIDE DEF click, clear, enter, m
<1> DEFINE before == ResolveTarget(t) \o click \o clear
           text == before \o TypeText(1, r.text)
<1>7. Acts(before, 0, m, 0, 0)
  <2>1. Acts(ResolveTarget(t) \o click, 0, m, 0, 0)
    BY <1>2, <1>3, ActsInTurn
  <2> QED
    BY <1>4, <2>1, ActsInTurn
<1>8. Acts(text, 0, m, 0, 1)
  BY <1>5, <1>7, ActsInTurn
<1>9. Len(text) \in Nat \ {0}
  <2>1. before \in Seq(ActStages) /\ TypeText(1, r.text) \in Seq(ActStages)
    BY <1>5, <1>7 DEF Acts
  <2>2. Len(TypeText(1, r.text)) = 1
    BY <1>1, ActsTypeText
  <2> HIDE DEF before
  <2> DEFINE typed == TypeText(1, r.text)
  <2> HIDE DEF typed
  <2>4. typed \in Seq(ActStages) /\ Len(typed) = 1
    BY <2>1, <2>2 DEF typed
  <2>5. Len(before \o typed) = Len(before) + Len(typed) /\ Len(before) \in Nat
    BY <2>1, <2>4, Concatenated
  <2>3. Len(text) = Len(before) + 1 /\ Len(before) \in Nat
    BY <2>4, <2>5 DEF typed
  <2> HIDE DEF text
  <2> QED
    BY <2>3
<1> HIDE DEF text
<1>10. Acts(text \o enter, 0, m, 0, 1) /\ Len(text \o enter) \in Nat \ {0}
  <2>1. Acts(text \o enter, 0, m, 0, 1)
    BY <1>6, <1>8, ActsInTurn
  <2>2. text \in Seq(ActStages) /\ enter \in Seq(ActStages)
    BY <1>6, <1>8 DEF Acts
  <2>3. Len(text \o enter) = Len(text) + Len(enter) /\ Len(enter) \in Nat
    BY <2>2, Concatenated
  <2> QED
    BY <1>9, <2>1, <2>3
<1>11. Type(r) = text \o enter
  BY DEF Type, text, click, clear, enter
<1> QED
  BY <1>1, <1>10, <1>11 DEF Acting

\* The script of MultiEdit, for any number of edits.
LEMMA MultiEditShape ==
    ASSUME NEW r \in Asks, r.tool = "MultiEdit", r.targets \in Seq(ByPoint \cup ByLabel),
           Len(r.targets) # 0
    PROVE  Acting(MultiEdit(r), r.tool)
<1> DEFINE n == Len(r.targets)
           piece(k) == ResolveTarget(r.targets[k]) \o Click(k, 1)
                       \o [i \in DOMAIN ClearField |-> Lax(ClearField[i])] \o TypeText(k, r.text)
           seqs == [k \in DOMAIN r.targets |-> piece(k)]
           y == [k \in 0..n |-> k]
<1>1. n \in Nat \ {0} /\ DOMAIN r.targets = 1..n /\ r.text \in Seq(Units)
  BY DEF Asks
<1>2. ASSUME NEW k \in 1..n PROVE Acts(piece(k), k - 1, k, k - 1, k)
  <2> DEFINE t == r.targets[k]
             R == ResolveTarget(t)
             C == [i \in DOMAIN ClearField |-> Lax(ClearField[i])]
  <2>1. t \in Target /\ t # NoTarget /\ k - 1 \in Nat /\ k \in Nat \ {0} /\ 1 <= k /\ (k - 1) + 1 = k
    BY <1>1 DEF Target, NoTarget, ByPoint, ByLabel
  <2>2. Acts(R, k - 1, k, k - 1, k - 1)
    <3>1. Acts(R, k - 1, (k - 1) + IF t = NoTarget THEN 0 ELSE 1, k - 1, k - 1)
      BY <2>1, ActsTarget
    <3> QED
      BY <2>1, <3>1
  <2>3. Acts(Click(k, 1), k, k, k - 1, k - 1)
    <3>1. k \in Nat /\ 1 \in Int /\ k <= k
      OBVIOUS
    <3> QED
      BY <2>1, <3>1, ActsClick
  <2>4. Acts(C, k, k, k - 1, k - 1)
    <3>1. C = [i \in DOMAIN ClearField |-> [do |-> "job", strict |-> FALSE, ops |-> ClearField[i]]]
      BY DEF Lax
    <3> QED
      BY <2>1, <3>1, ActsClear
  <2>5. Acts(TypeText(k, r.text), k, k, k - 1, k)
    BY <1>1, <2>1, ActsTypeText
  <2> HIDE DEF R, C
  <2>6. Acts(R \o Click(k, 1), k - 1, k, k - 1, k - 1)
    BY <2>2, <2>3, ActsInTurn
  <2>7. Acts(R \o Click(k, 1) \o C, k - 1, k, k - 1, k - 1)
    BY <2>4, <2>6, ActsInTurn
  <2>8. Acts(R \o Click(k, 1) \o C \o TypeText(k, r.text), k - 1, k, k - 1, k)
    BY <2>5, <2>7, ActsInTurn
  <2> QED
    BY <2>8 DEF R, C
<1> HIDE DEF piece
<1>3. seqs \in Seq(Seq(ActStages)) /\ Len(seqs) = n /\ \A k \in 1..n : seqs[k] = piece(k)
  <2>1. \A k \in 1..n : piece(k) \in Seq(ActStages)
    BY <1>2 DEF Acts
  <2> QED
    BY <1>1, <2>1
<1>4. y[0] = 0 /\ y[n] = n /\ \A k \in 1..n : y[k - 1] = k - 1 /\ y[k] = k
  BY <1>1
<1>5. MultiEdit(r) = FlattenSeq(seqs)
  BY DEF MultiEdit, piece
<1> HIDE DEF seqs, y
<1>6. Acts(FlattenSeq(seqs), 0, n, 0, n)
  <2>1. \A k \in 1..Len(seqs) : Acts(seqs[k], k - 1, k, y[k - 1], y[k])
    BY <1>2, <1>3, <1>4
  <2>2. Acts(FlattenSeq(seqs), 0, Len(seqs), y[0], y[Len(seqs)])
    <3>1. seqs \in Seq(Seq(ActStages)) /\ y[0] \in Nat
      BY <1>3, <1>4
    <3> QED
      BY <2>1, <3>1, ActsAll
  <2> QED
    BY <1>3, <1>4, <2>2
<1> QED
  BY <1>1, <1>5, <1>6, ActingWithPoints

\* The script of MultiSelect, for any number of targets.
LEMMA MultiSelectShape ==
    ASSUME NEW r \in Asks, r.tool = "MultiSelect", r.targets \in Seq(ByPoint \cup ByLabel),
           Len(r.targets) # 0
    PROVE  Acting(MultiSelect(r), r.tool)
<1> DEFINE n == Len(r.targets)
           seqs == [k \in DOMAIN r.targets |-> ResolveTarget(r.targets[k])]
           y == [k \in 0..n |-> 0]
<1>1. n \in Nat \ {0} /\ DOMAIN r.targets = 1..n /\ r.hold \in BOOLEAN
  BY DEF Asks
<1>2. ASSUME NEW k \in 1..n PROVE Acts(ResolveTarget(r.targets[k]), k - 1, k, 0, 0)
  <2> DEFINE t == r.targets[k]
  <2>1. t \in Target /\ t # NoTarget /\ k - 1 \in Nat /\ (k - 1) + 1 = k
    BY <1>1 DEF Target, NoTarget, ByPoint, ByLabel
  <2>2. Acts(ResolveTarget(t), k - 1, (k - 1) + IF t = NoTarget THEN 0 ELSE 1, 0, 0)
    BY <2>1, ActsTarget
  <2> QED
    BY <2>1, <2>2
<1>3. seqs \in Seq(Seq(ActStages)) /\ Len(seqs) = n
      /\ \A k \in 1..n : seqs[k] = ResolveTarget(r.targets[k])
  <2>1. \A k \in 1..n : ResolveTarget(r.targets[k]) \in Seq(ActStages)
    BY <1>2 DEF Acts
  <2> QED
    BY <1>1, <2>1
<1>4. y[0] = 0 /\ y[n] = 0 /\ \A k \in 1..n : y[k - 1] = 0 /\ y[k] = 0
  BY <1>1
<1>5. MultiSelect(r) = FlattenSeq(seqs) \o ClickMany(n, r.hold)
  BY DEF MultiSelect, ResolveAll
<1> HIDE DEF seqs, y
<1>6. Acts(FlattenSeq(seqs), 0, n, 0, 0)
  <2>1. \A k \in 1..Len(seqs) : Acts(seqs[k], k - 1, k, y[k - 1], y[k])
    BY <1>2, <1>3, <1>4
  <2>2. Acts(FlattenSeq(seqs), 0, Len(seqs), y[0], y[Len(seqs)])
    <3>1. seqs \in Seq(Seq(ActStages)) /\ y[0] \in Nat
      BY <1>3, <1>4
    <3> QED
      BY <2>1, <3>1, ActsAll
  <2> QED
    BY <1>3, <1>4, <2>2
<1>7. Acts(ClickMany(n, r.hold), n, n, 0, 0)
  BY <1>1, ActsClickMany
<1>8. Acts(MultiSelect(r), 0, n, 0, 0)
  BY <1>5, <1>6, <1>7, ActsInTurn
<1> QED
  BY <1>1, <1>8, ActingWithPoints

\* The script of Shortcut, for any known keys.
LEMMA ShortcutShape ==
    ASSUME NEW r \in Asks, r.tool = "Shortcut", ~UnknownKey(r.keys)
    PROVE  Acting(<<Strict(<<Shortcut(r.keys)>>)>>, r.tool)
<1>1. r.keys \in Seq(STRING) /\ r.keys # <<>> /\ Range(r.keys) \cap KnownKeys = Range(r.keys)
  BY DEF Asks, UnknownKey
<1>2. \A i \in 1..Len(r.keys) : r.keys[i] \in KnownKeys
  BY <1>1 DEF Range
<1>3. r.keys \in Seq(KnownKeys)
  BY <1>1, <1>2
<1> QED
  BY <1>3, ShortcutOp, ActingOneJob

\* The scripts of App.
LEMMA AppShape ==
    ASSUME NEW r \in Asks, r.targets # <<>>, r.tool # "Assert"
    PROVE  Acting(App(r), r.tool)
<1> DEFINE op == IF r.tool = "Switch" THEN "activate" ELSE "resize"
           o == Window(op, r)
<1>1. r.targets[1] \in Target /\ Trim(r.wanted.text) \in Names
  <2>1. r.targets \in Seq(Target) /\ r.wanted.text \in Names
    BY DEF Asks, Target
  <2>2. r.targets[1] \in Target
    BY <2>1
  <2>3. \A name \in Names : Trim(name) \in Names
    BY DEF Trim, Names
  <2> QED
    BY <2>1, <2>2, <2>3
<1>2. o \in ActOps /\ o.op \in {"activate", "resize"}
  BY <1>1 DEF Window, ActOps
<1>3. App(r) = <<Strict(<<o>>)>>
  BY DEF App
<1> HIDE DEF o
<1> QED
  BY <1>2, <1>3, ActingOneJob

\* Every request that is not refused has a script of one of the four shapes.
LEMMA ScriptShape ==
    ASSUME NEW n \in DOMAIN Requests, ~Refused(Requests[n])
    PROVE  Shaped(Script(Requests[n]), Requests[n].tool)
<1> DEFINE r == Requests[n]
           t == r.targets[1]
<1>1. /\ r \in Asks /\ r.size \in Int
      /\ IF r.tool \in Batches THEN r.targets \in Seq(ByPoint \cup ByLabel) ELSE r.targets # <<>>
      /\ r.tool = "Invoke" => t \in ByLabel \cup BySelector \cup {NoTarget}
      /\ r.tool = "Assert" => t \in BySelector \cup {NoTarget}
  BY RequestsAssumption DEF Asks
<1>2. /\ r.tool \in {"Click", "Move", "Scroll", "Invoke", "Resize"} => t # NoTarget
      /\ r.tool = "Shortcut" => ~UnknownKey(r.keys)
      /\ r.tool \in Batches => Len(r.targets) # 0
      /\ r.tool = "Assert" /\ r.subject # "title" => t # NoTarget
  <2>1. NoTarget.by = "none"
    BY DEF NoTarget
  <2>2. r.tool \in Batches => ~BadBatch(r.targets)
    BY DEF Refused, Batches
  <2> QED
    BY <2>1, <2>2 DEF Refused, BadBatch, BadSelector
<1>3. r.tool \notin Batches => t \in Target
  BY <1>1 DEF Asks, Target
<1> HIDE DEF r, t
<1>4. CASE r.tool = "Click"
  <2>1. Acting(ClickOn(r), r.tool)
    BY <1>1, <1>2, <1>3, <1>4, ClickShape DEF ClickOn, t, Batches
  <2> QED
    BY <1>4, <2>1 DEF Script, Shaped, r
<1>5. CASE r.tool = "Move"
  <2>1. Acting(Move(r), r.tool)
    BY <1>1, <1>2, <1>3, <1>5, ClickShape DEF Move, t, Batches
  <2> QED
    BY <1>5, <2>1 DEF Script, Shaped, r
<1>6. CASE r.tool = "Type"
  <2>1. Acting(Type(r), r.tool)
    BY <1>1, <1>6, TypeShape DEF Batches
  <2> QED
    BY <1>6, <2>1 DEF Script, Shaped, r
<1>7. CASE r.tool = "MultiEdit"
  <2>1. Acting(MultiEdit(r), r.tool)
    BY <1>1, <1>2, <1>7, MultiEditShape DEF Batches
  <2> QED
    BY <1>7, <2>1 DEF Script, Shaped, r
<1>8. CASE r.tool = "MultiSelect"
  <2>1. Acting(MultiSelect(r), r.tool)
    BY <1>1, <1>2, <1>8, MultiSelectShape DEF Batches
  <2> QED
    BY <1>8, <2>1 DEF Script, Shaped, r
<1>9. CASE r.tool = "Scroll"
  <2>1. Acting(Scroll(r), r.tool)
    BY <1>1, <1>2, <1>9, ScrollShape DEF t, Batches
  <2> QED
    BY <1>9, <2>1 DEF Script, Shaped, r
<1>10. CASE r.tool = "Shortcut"
  <2>1. Acting(<<Strict(<<Shortcut(r.keys)>>)>>, r.tool)
    BY <1>1, <1>2, <1>10, ShortcutShape
  <2> QED
    BY <1>10, <2>1 DEF Script, Shaped, r
<1>11. CASE r.tool \in {"Snapshot", "WaitFor"}
  BY <1>11 DEF Script, Shaped, r, TakeSnapshot, WaitFor, Look
<1>12. CASE r.tool = "Evidence"
  <2>1. CaptureEvidence = <<Strict(<<Walk>>), Strict(<<Capture>>)>>
    BY TwoStages DEF CaptureEvidence, TakeSnapshot
  <2> QED
    BY <1>12, <2>1 DEF Script, Shaped, r, Look
<1>13. CASE r.tool = "Invoke"
  <2>1. t \in ByLabel \cup BySelector
    BY <1>1, <1>2, <1>13
  <2>2. \E l \in [do : {"resolve"}, target : BySelector] \cup [do : {"take"}, label : Int] :
          ResolveLabel(t) = <<l>>
    BY <2>1 DEF ResolveLabel, ByLabel, BySelector
  <2>3. \E l \in [do : {"resolve"}, target : BySelector] \cup [do : {"take"}, label : Int] :
          Invoke(r) = Found1(l)
    BY <2>2, TwoStages DEF Invoke, Found1, t
  <2> QED
    BY <1>13, <2>3 DEF Script, Shaped, r, Use1
<1>14. CASE r.tool = "Assert"
  <2>1. CASE r.subject # "state"
    <3>1. Assertion(r) = <<Strict(<<Walk>>), Judge>>
      <4>1. <<Strict(<<Walk>>)>> \o <<>> = <<Strict(<<Walk>>)>>
        OBVIOUS
      <4>2. <<Strict(<<Walk>>)>> \o <<Judge>> = <<Strict(<<Walk>>), Judge>>
        BY TwoStages
      <4> QED
        BY <2>1, <4>1, <4>2 DEF Assertion
    <3> QED
      BY <1>14, <3>1 DEF Script, Shaped, r, Look
  <2>2. CASE r.subject = "state"
    <3>1. t \in BySelector
      BY <1>1, <1>2, <1>14, <2>2
    <3> DEFINE l == [do |-> "resolve", target |-> t]
               w == Strict(<<Walk>>)
               u == Strict(<<UseLabel>>)
    <3>2. ResolveLabel(t) = <<l>> /\ l \in [do : {"resolve"}, target : BySelector]
      BY <3>1 DEF ResolveLabel, BySelector
    <3>3. Assertion(r) = <<w>> \o (<<l>> \o <<u>>) \o <<Judge>>
      BY <2>2, <3>2 DEF Assertion, t
    <3> HIDE DEF l, w, u
    <3>4. <<w>> \o (<<l>> \o <<u>>) \o <<Judge>> = <<w, l, u, Judge>>
      BY FourStages
    <3>5. Assertion(r) = Found2(l)
      BY <3>3, <3>4 DEF Found2, w, u
    <3> QED
      BY <1>14, <3>2, <3>5 DEF Script, Shaped, r, Use2
  <2> QED
    BY <2>1, <2>2
<1>15. CASE r.tool \notin {"Click", "Move", "Type", "MultiEdit", "MultiSelect", "Scroll", "Shortcut",
                           "Snapshot", "WaitFor", "Evidence", "Invoke", "Assert"}
  <2>1. Acting(App(r), r.tool)
    BY <1>1, <1>15, AppShape DEF Batches
  <2>2. Script(r) = App(r)
    BY <1>15 DEF Script
  <2> QED
    BY <2>1, <2>2 DEF Shaped, r
<1> QED
  BY <1>4, <1>5, <1>6, <1>7, <1>8, <1>9, <1>10, <1>11, <1>12, <1>13, <1>14, <1>15

----------------------------------------------------------------------------
(***************************************************************************)
(* The inductive invariant.                                                *)
(***************************************************************************)
\* A call under way was not refused, and is at a stage of its script.
InScript == \A c \in InFlight : ~Refused(Asked(c)) /\ at[c] \in 1..Len(Scripts[request[c]])

\* The job the engine runs is that of a call under way; without one it releases no key.
InJob == /\ holder = Nobody => undo = {}
         /\ holder # Nobody => holder \in InFlight /\ Stage(holder).do = "job"

\* The stage that types characters of the text of a call for its i-th target.
TypesAt(st, i, q) ==
    /\ st.ops[q].op = "send" /\ Len(st.ops[q].events) = 2
    /\ st.ops[q].events[1].event = "char" /\ st.ops[q].events[1].key[1] = i
Types(st, i) == st.do = "job" /\ \E q \in 1..Len(st.ops) : TypesAt(st, i, q)

\* Who typed a character is at the stage that types it, or beyond.  While it is there
\* it has typed no further than its job is, and what it typed ends every text.
Unfinished(t, p) ==
    LET c == t[p][1] IN
    /\ c = holder /\ t[p][3] < next
    /\ \A k \in p..Len(t) : t[k][1] = c /\ t[k][2] = t[p][2]
Traced(t, p) ==
    LET c == t[p][1] IN
    IF c = Nobody THEN p = 1
    ELSE \E q \in 1..at[c] : /\ q <= Len(Scripts[request[c]])
                             /\ Types(Scripts[request[c]][q], t[p][2])
                             /\ q = at[c] /\ c \in InFlight => Unfinished(t, p)
Typist == \A e \in Elements : \A p \in 1..Len(desk.text[e]) : Traced(desk.text[e], p)

\* How many points a script has resolved after each of its stages.
Resolved(S) ==
    LET f[p \in 0..Len(S)] ==
            IF p = 0 THEN 0 ELSE f[p - 1] + IF S[p].do \in {"point", "locate"} THEN 1 ELSE 0
    IN  f

\* The scripts that move the cursor or the windows, and those that look or use a label.
Moving(S) ==
    \A p \in 1..Len(S) :
        /\ S[p].do # "judge"
        /\ S[p].do = "job" => \A q \in 1..Len(S[p].ops) : S[p].ops[q].op \notin {"walk", "use", "capture"}
Using(st) == st.do = "job" /\ st.ops = <<UseLabel>>
Walking(st) == st.do = "job" /\ st.ops = <<Walk>>

\* A call has one set of meanings for each point it resolved, and for the label it
\* is about to use.
Reckoned(c) ==
    LET S  == Scripts[request[c]]
        st == Stage(c)
        n  == Resolved(S)[at[c] - 1] IN
    IF Moving(S)
    THEN /\ Len(points[c]) = n
         /\ Len(meant[c]) = n + IF st.do = "locate" THEN 1 ELSE 0
    ELSE /\ st.do \in {"take", "resolve"} => meant[c] = <<>> /\ hits[c] = {}
         /\ Using(st) => Len(meant[c]) = 1

\* What a call has resolved stands for what it means as long as nothing overtakes it.
Current(c) ==
    /\ last = screen
    /\ Moving(Scripts[request[c]]) =>
           \A k \in 1..Len(points[c]) : Fits(points[c][k]) => Shows[screen][points[c][k]] \in meant[c][k]
    /\ (Stage(c).do = "locate" \/ Using(Stage(c))) /\ label[c] \in DOMAIN snapshot =>
           snapshot[label[c]].el \in meant[c][Len(meant[c])]

Meant(c) ==
    /\ at[c] = 0 => points[c] = <<>> /\ meant[c] = <<>> /\ hits[c] = {}
    /\ c \in InFlight => Reckoned(c) /\ (c \notin muddled => Current(c))
    /\ c \notin muddled => \A h \in hits[c] : h[1] \in DOMAIN meant[c] /\ h[2] \in meant[c][h[1]]

\* In a job, the cursor is where it was aimed last, and a snapshot starts afresh.
AtHand ==
    holder # Nobody /\ next # 1 =>
        /\ next <= Len(Ops) /\ Ops[next - 1].op \in {"aim", "send"} /\ Ops[next - 1].target # 0 =>
               /\ Ops[next - 1].target \in 1..Len(points[holder])
               /\ points[holder][Ops[next - 1].target] = desk.cursor
        /\ Walking(Stage(holder)) /\ ~broken => meant[holder] = <<>> /\ hits[holder] = {}

----------------------------------------------------------------------------
(***************************************************************************)
(* What the scripts are made of.                                           *)
(***************************************************************************)
Looks       == Lookups \cup Job(LookOps) \cup {Judge}
Stages      == Lookups \cup Job(ActOps \cup TypeOps \cup LookOps) \cup {Judge}

\* The scripts that look or use an element are built of such stages.
LEMMA OtherScripts ==
    ASSUME NEW S \in Look \cup Use1 \cup Use2
    PROVE  S \in Seq(Looks) /\ Len(S) \in Nat \ {0}
<1> DEFINE w == Strict(<<Walk>>)
           x == Lax(<<Walk>>)
           u == Strict(<<UseLabel>>)
           v == Strict(<<Capture>>)
<1>1. w \in Looks /\ x \in Looks /\ u \in Looks /\ v \in Looks /\ Judge \in Looks
  <2>1. \A o \in LookOps : <<o>> \in Seq(LookOps)
    OBVIOUS
  <2>2. Walk \in LookOps /\ UseLabel \in LookOps /\ Capture \in LookOps
    BY DEF LookOps
  <2>3. \A ops \in Seq(LookOps) : Strict(ops) \in Job(LookOps) /\ Lax(ops) \in Job(LookOps)
    BY DEF Strict, Lax, Job
  <2> QED
    BY <2>1, <2>2, <2>3 DEF Looks
<1> HIDE DEF w, x, u, v
<1>2. CASE S \in Look
  <2>1. S = <<w>> \/ S = <<w, v>> \/ S = <<w, Judge>> \/ S = <<x, Judge>>
    BY <1>2 DEF Look, w, x, v
  <2>2. \A a \in Looks : <<a>> \in Seq(Looks) /\ Len(<<a>>) = 1
    OBVIOUS
  <2>3. \A a, b \in Looks : <<a, b>> \in Seq(Looks) /\ Len(<<a, b>>) = 2
    OBVIOUS
  <2>4. 1 \in Nat \ {0} /\ 2 \in Nat \ {0}
    OBVIOUS
  <2> QED
    BY <1>1, <2>1, <2>2, <2>3, <2>4
<1>3. CASE S \in Use1
  <2>1. PICK l \in [do : {"resolve"}, target : BySelector] \cup [do : {"take"}, label : Int] : S = <<l, u>>
    BY <1>3 DEF Use1, Found1, u
  <2>2. l \in Looks
    BY <2>1 DEF Looks, Lookups
  <2> QED
    BY <1>1, <2>1, <2>2
<1>4. CASE S \in Use2
  <2>1. PICK l \in [do : {"resolve"}, target : BySelector] : S = <<w, l, u, Judge>>
    BY <1>4 DEF Use2, Found2, w, u
  <2>2. l \in Looks
    BY <2>1 DEF Looks, Lookups
  <2> QED
    BY <1>1, <2>1, <2>2
<1> QED
  BY <1>2, <1>3, <1>4

\* What an operation of a job types, it types as a character.
LEMMA TypedAsChar ==
    ASSUME NEW st, NEW i, NEW q, TypesAt(st, i, q)
    PROVE  /\ st.ops[q] \notin ActOps \cup LookOps
           /\ \A k, j : st.ops[q] = TypeOp(k, j) => k = i
<1>1. /\ st.ops[q].op = "send" /\ Len(st.ops[q].events) = 2
      /\ st.ops[q].events[1].event = "char" /\ st.ops[q].events[1].key[1] = i
  BY DEF TypesAt
<1>2. ASSUME st.ops[q] \in ActOps PROVE FALSE
  <2>1. st.ops[q].events \in Seq(KeyEvents)
    BY <1>1, <1>2 DEF ActOps, Batch
  <2>2. st.ops[q].events[1] \in KeyEvents
    BY <1>1, <2>1
  <2> QED
    BY <1>1, <2>2 DEF KeyEvents
<1>3. st.ops[q] \notin LookOps
  BY <1>1 DEF LookOps, Walk, UseLabel, Capture
<1>4. ASSUME NEW k, NEW j, st.ops[q] = TypeOp(k, j) PROVE k = i
  <2>1. st.ops[q].events = <<Char(k, j), Up("char")>>
    BY <1>4, CharIsNoKey
  <2>2. st.ops[q].events[1] = Char(k, j)
    BY <2>1
  <2> QED
    BY <1>1, <2>2 DEF Char
<1> QED
  BY <1>2, <1>3, <1>4

\* A stage that types for the i-th target has operations that type, for that target.
LEMMA TextOps == ASSUME NEW i \in Nat, NEW st \in Typings(i)
                 PROVE  st \in Job(KeyOps \cup TypeOps) /\ Types(st, i)
<1>1. st \in Job(KeyOps \cup TypeOps) /\ st.do = "job"
  BY DEF Typings, Job
<1>2. PICK q \in 1..Len(st.ops) : st.ops[q] = TypeOp(i, q)
  BY DEF Typings
<1>3. Char(i, q).event = "char" /\ Char(i, q).key[1] = i
  BY DEF Char
<1>4. Len(<<Char(i, q), Up("char")>>) = 2 /\ <<Char(i, q), Up("char")>>[1] = Char(i, q)
  OBVIOUS
<1>5. st.ops[q].op = "send" /\ st.ops[q].events = <<Char(i, q), Up("char")>>
  BY <1>2, CharIsNoKey
<1>6. TypesAt(st, i, q)
  BY <1>3, <1>4, <1>5 DEF TypesAt
<1> QED
  BY <1>1, <1>6 DEF Types

\* The stages that type are those of TypeText.
LEMMA OnlyTexts == ASSUME NEW st \in Stages, NEW i, Types(st, i), st \in ActStages \cup Looks
                   PROVE  i \in Nat /\ st \in Typings(i)
<1>1. PICK q \in 1..Len(st.ops) : TypesAt(st, i, q)
  BY DEF Types
<1>2. st.do = "job"
  BY DEF Types
<1>3. st \notin Job(ActOps) /\ st \notin Job(LookOps)
  <2>1. ASSUME NEW A, st \in Job(A) PROVE st.ops[q] \in A
    <3>1. st.ops \in Seq(A)
      BY <2>1 DEF Job
    <3> QED
      BY <1>1, <3>1
  <2> QED
    BY <1>1, <2>1, TypedAsChar
<1>4. st \notin Lookups /\ st # Judge
  BY <1>2 DEF Lookups, Judge, TooLarge
<1>5. PICK k \in Nat : st \in Typings(k)
  BY <1>3, <1>4 DEF ActStages, Looks
<1>6. st.ops[q] = TypeOp(k, q)
  BY <1>1, <1>5, TypedAsChar, KeysAct DEF Typings
<1>7. k = i
  BY <1>1, <1>6, TypedAsChar
<1> QED
  BY <1>5, <1>7

\* The stages of scripts of either kind; a stage that looks neither types nor judges.
LEMMA StagesOf ==
    /\ ActStages \subseteq Stages /\ Looks \subseteq Stages
    /\ \A st \in ActStages : st.do # "judge"
    /\ \A st \in Looks : \A i : ~Types(st, i)
<1>1. \A A, B : A \subseteq B => Job(A) \subseteq Job(B)
  <2> SUFFICES ASSUME NEW A, NEW B, A \subseteq B, NEW st \in Job(A) PROVE st \in Job(B)
    OBVIOUS
  <2>1. \A q \in Seq(A) : q \in Seq(B)
    OBVIOUS
  <2> QED
    BY <2>1 DEF Job
<1>2. /\ Job(ActOps) \subseteq Stages /\ Job(LookOps) \subseteq Stages
      /\ Job(KeyOps \cup TypeOps) \subseteq Stages
  BY <1>1, KeysAct DEF Stages
<1>3. ActStages \subseteq Stages /\ Looks \subseteq Stages
  BY <1>2, TextOps DEF ActStages, Looks, Stages
<1>4. \A st \in Lookups : st.do # "judge" /\ st.do # "job"
  BY DEF Lookups, TooLarge
<1>5. \A A : \A st \in Job(A) : st.do # "judge"
  BY DEF Job
<1>6. \A st \in ActStages : st.do # "judge"
  BY <1>4, <1>5, TextOps DEF ActStages
<1>7. ASSUME NEW st \in Looks, NEW i, Types(st, i) PROVE FALSE
  <2>1. PICK q \in 1..Len(st.ops) : TypesAt(st, i, q)
    BY <1>7 DEF Types
  <2>2. st \in Job(LookOps)
    BY <1>4, <1>7 DEF Looks, Judge, Types
  <2>3. st.ops \in Seq(LookOps)
    BY <2>2 DEF Job
  <2>4. st.ops[q] \in LookOps
    BY <2>1, <2>3
  <2> QED
    BY <2>1, <2>4, TypedAsChar
<1> QED
  BY <1>3, <1>6, <1>7

\* A script is not empty; it types the text for one target at one stage, and none if
\* it judges anything.
LEMMA Scripted ==
    ASSUME NEW n \in DOMAIN Requests, ~Refused(Requests[n]),
           NEW S, S = Scripts[n]
    PROVE  /\ S \in Seq(Stages) /\ Len(S) \in Nat \ {0}
           /\ \A p \in 1..Len(S) : S[p] \in Stages
           /\ \A p \in 1..Len(S) : \A i : Types(S[p], i) => i \in Nat /\ S[p] \in Typings(i)
           /\ \A p, q \in 1..Len(S) : \A i : Types(S[p], i) /\ Types(S[q], i) => p = q
           /\ \A p, q \in 1..Len(S) : \A i : ~(S[p].do = "judge" /\ Types(S[q], i))
<1>1. Shaped(S, Requests[n].tool)
  BY ScriptShape DEF Scripts
<1>2. CASE Acting(S, Requests[n].tool)
  <2>1. PICK m, y \in Nat : Acts(S, 0, m, 0, y)
    BY <1>2 DEF Acting
  <2>2. S \in Seq(ActStages) /\ Len(S) \in Nat \ {0}
    BY <1>2, <2>1 DEF Acting, Acts
  <2>3. \A p \in 1..Len(S) : S[p] \in ActStages
    BY <2>2
  <2>4. S \in Seq(Stages) /\ \A p \in 1..Len(S) : S[p] \in Stages /\ S[p].do # "judge"
    BY <2>2, <2>3, StagesOf
  <2>5. \A p \in 1..Len(S) : \A i : Types(S[p], i) => i \in Nat /\ S[p] \in Typings(i)
    BY <2>3, <2>4, OnlyTexts
  <2>6. \A p, q \in 1..Len(S) : \A i \in Nat : S[p] \in Typings(i) /\ S[q] \in Typings(i) => p = q
    BY <2>1 DEF Acts
  <2> QED
    <3>1. ASSUME NEW p \in 1..Len(S), NEW q \in 1..Len(S), NEW i, Types(S[p], i), Types(S[q], i)
          PROVE  p = q
      <4>1. i \in Nat /\ S[p] \in Typings(i) /\ S[q] \in Typings(i)
        BY Zenon, <2>5, <3>1
      <4> QED
        BY Zenon, <2>6, <4>1
    <3>2. \A p, q \in 1..Len(S) : \A i : ~(S[p].do = "judge" /\ Types(S[q], i))
      BY Zenon, <2>4
    <3> QED
      BY Zenon, <2>2, <2>4, <2>5, <3>1, <3>2
<1>3. CASE S \in Look \cup Use1 \cup Use2
  <2>1. S \in Seq(Looks) /\ Len(S) \in Nat \ {0}
    BY <1>3, OtherScripts
  <2>2. \A p \in 1..Len(S) : S[p] \in Looks
    BY <2>1
  <2>3. S \in Seq(Stages) /\ \A p \in 1..Len(S) : S[p] \in Stages
    BY <2>1, <2>2, StagesOf
  <2> QED
    BY <2>1, <2>2, <2>3, StagesOf
<1> QED
  BY <1>1, <1>2, <1>3 DEF Shaped

----------------------------------------------------------------------------
(***************************************************************************)
(* What injected events do.                                                *)
(***************************************************************************)
Events == KeyEvents \cup { Char(i, j) : i, j \in Nat } \cup {Up("char")}

\* The keys that may be down once an event has happened, and what it leaves of a text.
HeldAfter(held, ev) ==
    IF ev.event = "down" THEN held \cup {ev.key}
    ELSE IF ev.event = "up" THEN held \ {ev.key} ELSE held

\* The fields of a desktop.
LEMMA FieldsOfDesks ==
    ASSUME NEW d \in Desks
    PROVE  /\ d.cursor \in 1..MaxPoint /\ d.held \subseteq Holdable /\ d.text \in [Elements -> Seq(Tokens)]
           /\ {d.focus, d.selected, d.submitted} \subseteq Elements \cup {Nothing}
BY DEF Desks

\* A desktop with another cursor is one, and so on for the fields that input changes.
LEMMA OtherCursor ==
    ASSUME NEW d \in Desks, NEW cur \in 1..MaxPoint, NEW x, x = [d EXCEPT !.cursor = cur]
    PROVE  x \in Desks /\ x.cursor = cur /\ x.held = d.held /\ x.text = d.text
BY DEF Desks

\* A desktop with other keys down.
LEMMA OtherKeys ==
    ASSUME NEW d \in Desks, NEW keys \in SUBSET Holdable, NEW x, x = [d EXCEPT !.held = keys]
    PROVE  x \in Desks /\ x.cursor = d.cursor /\ x.held = keys /\ x.text = d.text
           /\ x.focus = d.focus /\ x.selected = d.selected
BY DEF Desks

\* A desktop with other texts.
LEMMA OtherText ==
    ASSUME NEW d \in Desks, NEW t \in [Elements -> Seq(Tokens)], NEW x, x = [d EXCEPT !.text = t]
    PROVE  x \in Desks /\ x.cursor = d.cursor /\ x.held = d.held /\ x.text = t
BY DEF Desks

\* A desktop with another focus, selection or submission.
LEMMA OtherFocus ==
    ASSUME NEW d \in Desks, NEW f \in Elements \cup {Nothing}, NEW x,
           \/ x = [d EXCEPT !.focus = f] \/ x = [d EXCEPT !.selected = f]
           \/ x = [d EXCEPT !.submitted = f]
    PROVE  x \in Desks /\ x.cursor = d.cursor /\ x.held = d.held /\ x.text = d.text
<1>1. CASE x = [d EXCEPT !.focus = f]
  BY <1>1 DEF Desks
<1>2. CASE x = [d EXCEPT !.selected = f]
  BY <1>2 DEF Desks
<1>3. CASE x = [d EXCEPT !.submitted = f]
  BY <1>3 DEF Desks
<1> QED
  BY <1>1, <1>2, <1>3

\* A key that goes down is held, and at most empties a text.
LEMMA KeyGoesDown ==
    ASSUME screen \in Screens, NEW d \in Desks, NEW key \in Holdable,
           NEW x, x = Pressed(d, key)
    PROVE  /\ x \in Desks /\ x.cursor = d.cursor /\ x.held = d.held \cup {key}
           /\ \A e \in Elements : x.text[e] = d.text[e] \/ x.text[e] = <<>>
<1> DEFINE k == [d EXCEPT !.held = @ \cup {key}]
<1>1. /\ k \in Desks /\ k.cursor = d.cursor /\ k.held = d.held \cup {key} /\ k.text = d.text
  <2>1. d.held \cup {key} \in SUBSET Holdable
    BY FieldsOfDesks
  <2>2. k = [d EXCEPT !.held = d.held \cup {key}]
    OBVIOUS
  <2> HIDE DEF k
  <2> QED
    BY SMTT(30), <2>1, <2>2, OtherKeys
<1>2. /\ Shows[screen][d.cursor] \in Elements \cup {Nothing} /\ d.focus \in Elements \cup {Nothing}
      /\ Tabs[screen][d.focus] \in Elements \cup {Nothing} /\ Nothing \in Elements \cup {Nothing}
  BY InteractionAssumption, FieldsOfDesks
<1>3. x = CASE key = "button" -> [k EXCEPT !.focus = Shows[screen][d.cursor], !.selected = Nothing]
            [] key = "a" /\ "ctrl" \in d.held -> [k EXCEPT !.selected = d.focus]
            [] key = "delete" /\ d.focus # Nothing /\ d.selected = d.focus ->
                   [k EXCEPT !.text[d.focus] = <<>>, !.selected = Nothing]
            [] key = "enter" -> [k EXCEPT !.submitted = d.focus]
            [] key = "tab" -> [k EXCEPT !.focus = Tabs[screen][d.focus], !.selected = Nothing]
            [] OTHER -> k
  BY DEF Pressed
<1> HIDE DEF k
<1>4. CASE x = k
  BY <1>1, <1>4
<1>5. ASSUME NEW f \in Elements \cup {Nothing}, x = [k EXCEPT !.focus = f, !.selected = Nothing]
      PROVE  /\ x \in Desks /\ x.cursor = d.cursor /\ x.held = d.held \cup {key}
             /\ \A e \in Elements : x.text[e] = d.text[e]
  <2> DEFINE y == [k EXCEPT !.focus = f]
  <2>1. y \in Desks /\ y.cursor = k.cursor /\ y.held = k.held /\ y.text = k.text
    BY <1>1, <1>2, <1>5, OtherFocus
  <2>2. x = [y EXCEPT !.selected = Nothing]
    BY <1>5
  <2> HIDE DEF y
  <2>3. x \in Desks /\ x.cursor = y.cursor /\ x.held = y.held /\ x.text = y.text
    BY <1>2, <2>1, <2>2, OtherFocus
  <2> QED
    BY <1>1, <2>1, <2>3
<1>6. CASE x = [k EXCEPT !.selected = d.focus]
  <2>1. x \in Desks /\ x.cursor = k.cursor /\ x.held = k.held /\ x.text = k.text
    BY <1>1, <1>2, <1>6, OtherFocus
  <2> QED
    BY <1>1, <2>1
<1>7. CASE x = [k EXCEPT !.submitted = d.focus]
  <2>1. x \in Desks /\ x.cursor = k.cursor /\ x.held = k.held /\ x.text = k.text
    BY <1>1, <1>2, <1>7, OtherFocus
  <2> QED
    BY <1>1, <2>1
<1>8. CASE d.focus # Nothing /\ x = [k EXCEPT !.text[d.focus] = <<>>, !.selected = Nothing]
  <2> DEFINE t == [k.text EXCEPT ![d.focus] = <<>>]
             y == [k EXCEPT !.text = t]
  <2>1. k.text \in [Elements -> Seq(Tokens)]
    BY <1>1, FieldsOfDesks
  <2>2. t \in [Elements -> Seq(Tokens)] /\ \A e \in Elements : t[e] = k.text[e] \/ t[e] = <<>>
    <3>1. <<>> \in Seq(Tokens)
      OBVIOUS
    <3> QED
      BY <2>1, <3>1
  <2> HIDE DEF t
  <2>3. y \in Desks /\ y.cursor = k.cursor /\ y.held = k.held /\ y.text = t
    BY <1>1, <2>2, OtherText
  <2>4. x = [y EXCEPT !.selected = Nothing]
    BY <1>8 DEF t
  <2> HIDE DEF y
  <2>5. x \in Desks /\ x.cursor = y.cursor /\ x.held = y.held /\ x.text = y.text
    BY <1>2, <2>3, <2>4, OtherFocus
  <2> QED
    BY <1>1, <2>2, <2>3, <2>5
<1> QED
  BY <1>2, <1>3, <1>4, <1>5, <1>6, <1>7, <1>8

\* A character that is typed ends a text, replaces it, or is lost.
LEMMA CharIsTyped ==
    ASSUME NEW d \in Desks, NEW tok \in Tokens, NEW x, x = Typed(d, tok)
    PROVE  /\ x \in Desks /\ x.cursor = d.cursor /\ x.held = d.held
           /\ \A e \in Elements : \/ x.text[e] = d.text[e] \/ x.text[e] = <<tok>>
                                  \/ x.text[e] = Append(d.text[e], tok)
<1>1. CASE d.focus = Nothing \/ "ctrl" \in d.held
  BY <1>1 DEF Typed
<1>2. CASE ~(d.focus = Nothing \/ "ctrl" \in d.held)
  <2> DEFINE v == IF d.selected = d.focus THEN <<tok>> ELSE Append(d.text[d.focus], tok)
             t == [d.text EXCEPT ![d.focus] = v]
             y == [d EXCEPT !.text = t]
  <2>1. d.text \in [Elements -> Seq(Tokens)] /\ d.focus \in Elements
    BY <1>2, FieldsOfDesks
  <2>2. v \in Seq(Tokens)
    BY <2>1
  <2>3. t \in [Elements -> Seq(Tokens)] /\ \A e \in Elements : t[e] = d.text[e] \/ (e = d.focus /\ t[e] = v)
    BY <2>1, <2>2
  <2>4. x = [y EXCEPT !.selected = Nothing]
    BY <1>2 DEF Typed
  <2> HIDE DEF t
  <2>5. y \in Desks /\ y.cursor = d.cursor /\ y.held = d.held /\ y.text = t
    BY <2>3, OtherText
  <2> HIDE DEF y
  <2>6. x \in Desks /\ x.cursor = y.cursor /\ x.held = y.held /\ x.text = y.text
    <3>1. Nothing \in Elements \cup {Nothing}
      OBVIOUS
    <3> QED
      BY <2>4, <2>5, <3>1, OtherFocus
  <2>7. \A e \in Elements : \/ t[e] = d.text[e] \/ t[e] = <<tok>> \/ t[e] = Append(d.text[e], tok)
    BY <2>3
  <2> QED
    BY <2>5, <2>6, <2>7
<1> QED
  BY <1>1, <1>2

\* A character of text, in a field.
Token(c, i, j) == <<c, i, j>>

\* What one injected event does to the keys, and to the texts.
LEMMA EventHappens ==
    ASSUME screen \in Screens, NEW c \in Callers, NEW d \in Desks, NEW ev \in Events,
           NEW x, x = Happened(c, d, ev)
    PROVE  /\ x \in Desks /\ x.cursor = d.cursor /\ x.held = HeldAfter(d.held, ev)
           /\ ev.event # "char" => \A e \in Elements : x.text[e] = d.text[e] \/ x.text[e] = <<>>
           /\ \A i, j \in Nat : ev = Char(i, j) =>
                  \A e \in Elements : \/ x.text[e] = d.text[e] \/ x.text[e] = <<Token(c, i, j)>>
                                      \/ x.text[e] = Append(d.text[e], Token(c, i, j))
<1>1. CASE ev.event = "down"
  <2>1. ev.key \in Holdable
    BY <1>1 DEF Events, KeyEvents, Char, Up
  <2>2. x = Pressed(d, ev.key)
    BY <1>1 DEF Happened
  <2>3. \A i, j : ev # Char(i, j)
    BY <1>1 DEF Char
  <2> QED
    BY <1>1, <2>1, <2>2, <2>3, KeyGoesDown DEF HeldAfter
<1>2. CASE ev.event = "up"
  <2>1. x = [d EXCEPT !.held = @ \ {ev.key}]
    BY <1>2 DEF Happened
  <2>2. d.held \ {ev.key} \in SUBSET Holdable
    BY FieldsOfDesks
  <2>3. \A i, j : ev # Char(i, j)
    BY <1>2 DEF Char
  <2>4. x \in Desks /\ x.cursor = d.cursor /\ x.held = d.held \ {ev.key} /\ x.text = d.text
    <3>1. x = [d EXCEPT !.held = d.held \ {ev.key}]
      BY <2>1
    <3> QED
      BY <2>2, <3>1, OtherKeys
  <2> QED
    BY <1>2, <2>3, <2>4 DEF HeldAfter
<1>3. CASE ev.event = "char"
  <2>1. PICK i \in Nat, j \in Nat : ev = Char(i, j)
    BY <1>3 DEF Events, KeyEvents, Up
  <2>2. ev.key[1] = i /\ ev.key[2] = j /\ \A a, b : ev = Char(a, b) => a = i /\ b = j
    BY <2>1 DEF Char
  <2>3. x = Typed(d, Token(c, i, j))
    BY <1>3, <2>2 DEF Happened, Token
  <2>4. Token(c, i, j) \in Tokens
    BY DEF Tokens, Token
  <2>5. /\ x \in Desks /\ x.cursor = d.cursor /\ x.held = d.held
        /\ \A e \in Elements : \/ x.text[e] = d.text[e] \/ x.text[e] = <<Token(c, i, j)>>
                               \/ x.text[e] = Append(d.text[e], Token(c, i, j))
    BY <2>3, <2>4, CharIsTyped
  <2>6. ASSUME NEW a \in Nat, NEW b \in Nat, ev = Char(a, b) PROVE a = i /\ b = j
    BY <2>2, <2>6
  <2> QED
    BY <1>3, <2>5, <2>6 DEF HeldAfter
<1>4. CASE ev.event \notin {"down", "up", "char"}
  <2>1. x = d
    BY <1>4 DEF Happened
  <2>2. \A i, j : ev # Char(i, j)
    BY <1>4 DEF Char
  <2> QED
    BY <1>4, <2>1, <2>2 DEF HeldAfter
<1> QED
  BY <1>1, <1>2, <1>3, <1>4

\* The same, of every desktop and every event.
LEMMA EventOutcome ==
    ASSUME screen \in Screens, NEW c \in Callers
    PROVE  /\ \A d \in Desks : \A ev \in Events :
                  /\ Happened(c, d, ev) \in Desks /\ Happened(c, d, ev).cursor = d.cursor
                  /\ Happened(c, d, ev).held = HeldAfter(d.held, ev)
           /\ \A d \in Desks : \A i, j \in Nat : \A e \in Elements :
                  \/ Happened(c, d, Char(i, j)).text[e] = d.text[e]
                  \/ Happened(c, d, Char(i, j)).text[e] = <<Token(c, i, j)>>
                  \/ Happened(c, d, Char(i, j)).text[e] = Append(d.text[e], Token(c, i, j))
<1>1. ASSUME NEW d \in Desks, NEW ev \in Events
      PROVE  /\ Happened(c, d, ev) \in Desks /\ Happened(c, d, ev).cursor = d.cursor
             /\ Happened(c, d, ev).held = HeldAfter(d.held, ev)
  BY EventHappens
<1>2. ASSUME NEW d \in Desks, NEW i \in Nat, NEW j \in Nat, NEW e \in Elements
      PROVE  \/ Happened(c, d, Char(i, j)).text[e] = d.text[e]
             \/ Happened(c, d, Char(i, j)).text[e] = <<Token(c, i, j)>>
             \/ Happened(c, d, Char(i, j)).text[e] = Append(d.text[e], Token(c, i, j))
  <2>1. Char(i, j) \in Events
    BY DEF Events
  <2> QED
    BY <2>1, EventHappens
<1> QED
  BY <1>1, <1>2

\* A key that is down after the first n events was down before them, or one of them
\* put it down and none released it.
Left(b, n, k) == \E j \in 1..n : /\ b[j].event = "down" /\ b[j].key = k
                                 /\ \A m \in (j + 1)..n : ~(b[m].event = "up" /\ b[m].key = k)

\* The elements of a sequence are of its set.
LEMMA Members == ASSUME NEW T, NEW b \in Seq(T) PROVE \A q \in 1..Len(b) : b[q] \in T
OBVIOUS

\* The beginning of a batch that a failing SendInput injects.
LEMMA Beginning ==
    ASSUME NEW T, NEW b \in Seq(T), NEW n \in 0..Len(b)
    PROVE  /\ n \in Nat /\ DOMAIN SubSeq(b, 1, n) = 1..n
           /\ \A i \in 1..n : SubSeq(b, 1, n)[i] = b[i] /\ b[i] \in T
OBVIOUS

\* What a beginning of a batch leaves down was down, or is released in the rest of it.
LEMMA KeysInjected ==
    ASSUME screen \in Screens, NEW c \in Callers, NEW d \in Desks, NEW b \in Seq(Events),
           NEW n \in 0..Len(b), NEW x, x = Injected(c, d, SubSeq(b, 1, n))
    PROVE  /\ x \in Desks /\ x.cursor = d.cursor
           /\ \A k \in x.held : k \in d.held \/ Left(b, n, k)
<1> DEFINE D == [i \in 0..n |-> { y \in Desks : /\ y.cursor = d.cursor
                                              /\ \A k \in y.held : k \in d.held \/ Left(b, i, k) }]
           s == SubSeq(b, 1, n)
<1>1. n \in Nat /\ DOMAIN s = 1..n /\ \A i \in 1..n : s[i] = b[i] /\ b[i] \in Events
  BY Beginning
<1>2. 0 \in 0..n /\ n \in 0..n
  BY <1>1
<1>3. d \in D[0]
  BY <1>2
<1>4. ASSUME NEW i \in 1..n, NEW y \in D[i - 1] PROVE Happened(c, y, s[i]) \in D[i]
  <2> DEFINE z == Happened(c, y, s[i])
  <2>1. i - 1 \in 0..n /\ i \in 0..n /\ i \in Nat
    BY <1>1
  <2>2. y \in Desks /\ y.cursor = d.cursor /\ \A k \in y.held : k \in d.held \/ Left(b, i - 1, k)
    BY <1>4, <2>1
  <2>3. z \in Desks /\ z.cursor = y.cursor /\ z.held = HeldAfter(y.held, b[i])
    <3>1. s[i] \in Events /\ s[i] = b[i] /\ y \in Desks
      BY <1>1, <2>2
    <3>2. z \in Desks /\ z.cursor = y.cursor
      BY <3>1, EventOutcome
    <3>3. z.held = HeldAfter(y.held, s[i])
      BY <3>1, EventOutcome
    <3> HIDE DEF z
    <3> QED
      BY <3>1, <3>2, <3>3
  <2> HIDE DEF z
  <2>4. ASSUME NEW k \in z.held PROVE k \in d.held \/ Left(b, i, k)
    <3>1. CASE k \in y.held /\ ~(b[i].event = "up" /\ b[i].key = k)
      <4> SUFFICES ASSUME Left(b, i - 1, k) PROVE Left(b, i, k)
        BY <2>2, <3>1
      <4>1. PICK j \in 1..(i - 1) : /\ b[j].event = "down" /\ b[j].key = k
                                    /\ \A m \in (j + 1)..(i - 1) : ~(b[m].event = "up" /\ b[m].key = k)
        BY DEF Left
      <4>2. j \in 1..i /\ \A m \in (j + 1)..i : m \in (j + 1)..(i - 1) \/ m = i
        BY <2>1
      <4> QED
        BY <3>1, <4>1, <4>2 DEF Left
    <3>2. CASE b[i].event = "down" /\ b[i].key = k
      <4>1. i \in 1..i /\ (i + 1)..i = {}
        BY <2>1
      <4> QED
        BY <3>2, <4>1 DEF Left
    <3> QED
      BY <2>3, <2>4, <3>1, <3>2 DEF HeldAfter
  <2>5. z \in D[i]
    BY <2>1, <2>2, <2>3, <2>4
  <2> QED
    BY <2>5 DEF z
<1> HIDE DEF D, s
<1>5. Injected(c, d, s) \in D[n]
  BY <1>1, <1>3, <1>4, InjectedInto
<1> QED
  BY <1>2, <1>5 DEF D, s

\* Keys leave a text as it was, or delete it.
LEMMA TextsKept ==
    ASSUME screen \in Screens, NEW c \in Callers, NEW d \in Desks, NEW b \in Seq(KeyEvents),
           NEW n \in 0..Len(b), NEW x, x = Injected(c, d, SubSeq(b, 1, n))
    PROVE  \A e \in Elements : x.text[e] = d.text[e] \/ x.text[e] = <<>>
<1> DEFINE D == { y \in Desks : \A e \in Elements : y.text[e] = d.text[e] \/ y.text[e] = <<>> }
           DD == [i \in 0..n |-> D]
           s == SubSeq(b, 1, n)
<1>1. n \in Nat /\ DOMAIN s = 1..n /\ \A i \in 1..n : s[i] = b[i] /\ b[i] \in KeyEvents
  BY Beginning
<1>2. \A i \in 0..n : DD[i] = D
  OBVIOUS
<1>3. 0 \in 0..n /\ n \in 0..n /\ \A i \in 1..n : i - 1 \in 0..n /\ i \in 0..n
  BY <1>1
<1>4. d \in D
  OBVIOUS
<1>5. ASSUME NEW i \in 1..n, NEW y \in D PROVE Happened(c, y, s[i]) \in D
  <2>1. s[i] \in Events /\ s[i].event # "char"
    BY <1>1 DEF Events, KeyEvents
  <2>2. y \in Desks
    OBVIOUS
  <2> DEFINE z == Happened(c, y, s[i])
  <2>3. z \in Desks /\ \A e \in Elements : z.text[e] = y.text[e] \/ z.text[e] = <<>>
    BY <2>1, <2>2, EventHappens
  <2> HIDE DEF z
  <2>4. z \in D
    BY <2>3
  <2> QED
    BY <2>4 DEF z
<1> HIDE DEF D, DD, s
<1>6. d \in DD[0] /\ \A i \in 1..n : \A y \in DD[i - 1] : Happened(c, y, s[i]) \in DD[i]
  BY <1>2, <1>3, <1>4, <1>5
<1>7. Injected(c, d, s) \in DD[n]
  BY <1>1, <1>6, InjectedInto
<1> QED
  BY <1>2, <1>3, <1>7 DEF D, s

\* A text, and what one more character makes of it.
Grown(t, tok) == {t, <<tok>>, Append(t, tok)}

\* One character, with or without its key coming up.
LEMMA TextGrows ==
    ASSUME screen \in Screens, NEW c \in Callers, NEW d \in Desks, NEW b \in Seq(Events),
           Len(b) = 2, b[1].event = "char", b[2] = Up("char"),
           NEW tok, tok = Token(c, b[1].key[1], b[1].key[2]),
           NEW n \in 0..Len(b), NEW x, x = Injected(c, d, SubSeq(b, 1, n))
    PROVE  \A e \in Elements : x.text[e] \in Grown(d.text[e], tok)
<1> DEFINE G(y) == \A e \in Elements : y.text[e] \in Grown(d.text[e], tok)
           D == [k \in 0..n |-> IF k = 0 THEN {d} ELSE { y \in Desks : G(y) }]
           s == SubSeq(b, 1, n)
<1>1. b[1] \in Events /\ b[2] \in Events
  <2>1. 1 \in 1..2 /\ 2 \in 1..2
    OBVIOUS
  <2> QED
    BY <2>1, Members
<1>2. PICK i \in Nat, j \in Nat : b[1] = Char(i, j)
  BY <1>1 DEF Events, KeyEvents, Up
<1>3. tok = Token(c, i, j)
  BY <1>2 DEF Char
<1>4. n \in Nat /\ DOMAIN s = 1..n /\ \A k \in 1..n : s[k] = b[k]
  BY <1>1, Beginning
<1>5. /\ 0 \in 0..n /\ n \in 0..n
      /\ \A k \in 1..n : k \in 0..n /\ k - 1 \in 0..n /\ k # 0 /\ ((k = 1 /\ k - 1 = 0) \/ (k = 2 /\ k - 1 = 1))
  BY <1>4
<1> HIDE DEF s
<1>6. d \in D[0] /\ \A k \in 1..n : D[k] = { y \in Desks : G(y) }
  BY <1>5
<1>7. ASSUME NEW k \in 1..n, NEW y \in D[k - 1] PROVE Happened(c, y, s[k]) \in D[k]
  <2> DEFINE z == Happened(c, y, s[k])
  <2>1. CASE k = 1
    <3>1. y = d /\ s[k] = Char(i, j) /\ s[k] \in Events
      BY <1>1, <1>4, <1>5, <1>6, <1>7, <1>2, <2>1
    <3>2. z \in Desks /\ G(z)
      <4>1. z \in Desks
        BY SMTT(30), <3>1, EventOutcome
      <4>2. \A e \in Elements : z.text[e] \in Grown(d.text[e], tok)
        <5> SUFFICES ASSUME NEW e \in Elements
                     PROVE  z.text[e] \in Grown(d.text[e], tok)
          OBVIOUS
        <5>1. z = Happened(c, d, Char(i, j))
          BY <3>1
        <5>2. \/ z.text[e] = d.text[e] \/ z.text[e] = <<Token(c, i, j)>>
              \/ z.text[e] = Append(d.text[e], Token(c, i, j))
          BY <5>1, EventOutcome
        <5> QED
          BY <1>3, <5>2 DEF Grown
      <4> QED
        BY <4>1, <4>2
    <3> QED
      BY <1>6, <3>2
  <2>2. CASE k = 2
    <3>1. k - 1 \in 1..n /\ k - 1 # 0
      BY <1>4, <2>2
    <3>2. y \in Desks /\ G(y)
      BY <1>6, <1>7, <3>1
    <3>3. s[k] = Up("char") /\ s[k] \in Events
      BY <1>1, <1>4, <2>2
    <3>4. z = [y EXCEPT !.held = @ \ {"char"}]
      BY <3>3 DEF Up, Happened
    <3>5. z \in Desks /\ z.text = y.text
      <4>1. z \in Desks
        BY <3>2, <3>3, EventHappens
      <4> QED
        BY <3>2, <3>4, <4>1 DEF Desks
    <3> QED
      BY <1>6, <3>2, <3>5
  <2> QED
    BY <1>5, <2>1, <2>2
<1> HIDE DEF D
<1>8. Injected(c, d, s) \in D[n]
  BY <1>4, <1>6, <1>7, InjectedInto
<1> QED
  <2>1. CASE n = 0
    BY <1>8, <2>1 DEF D, s, Grown
  <2>2. CASE n # 0
    BY <1>4, <1>5, <1>6, <1>8, <2>2 DEF s
  <2> QED
    BY <2>1, <2>2

----------------------------------------------------------------------------
(***************************************************************************)
(* Types, scripts and keys.                                                *)
(***************************************************************************)
Base == TypeOK /\ InScript /\ InJob /\ KeysComeUp

\* A snapshot has the elements the screen showed, at the points where it showed them.
LEMMA WalksTyped ==
    ASSUME NEW s \in Screens \cup {None}
    PROVE  /\ Walks[s] \in Seq([at : 1..MaxPoint, el : Elements \cup {Nothing}])
           /\ s # None => \A l \in DOMAIN Walks[s] : Walks[s][l].el = Shows[s][Walks[s][l].at]
<1> DEFINE T == [at : 1..MaxPoint, el : Elements \cup {Nothing}]
           seqs == [p \in 1..MaxPoint |-> IF Shows[s][p] = Nothing THEN <<>>
                                          ELSE <<[at |-> p, el |-> Shows[s][p]]>>]
<1>1. CASE s = None
  <2>1. Walks[s] = <<>>
    BY <1>1 DEF Walks
  <2> QED
    BY <1>1, <2>1
<1>2. CASE s # None
  <2>1. Walks[s] = FlattenSeq(seqs)
    BY <1>2 DEF Walks, WalkOf
  <2>2. \A p \in 1..MaxPoint : Shows[s][p] \in Elements \cup {Nothing}
    BY <1>2, InteractionAssumption
  <2>3. \A p \in 1..MaxPoint : [at |-> p, el |-> Shows[s][p]] \in T
    BY <2>2
  <2>4. /\ \A p \in 1..MaxPoint : seqs[p] \in Seq(T)
        /\ \A p \in 1..MaxPoint : \A a \in 1..Len(seqs[p]) : seqs[p][a].el = Shows[s][seqs[p][a].at]
    <3>1. ASSUME NEW p \in 1..MaxPoint
          PROVE  seqs[p] \in Seq(T) /\ \A a \in 1..Len(seqs[p]) : seqs[p][a].el = Shows[s][seqs[p][a].at]
      <4> DEFINE x == [at |-> p, el |-> Shows[s][p]]
      <4>1. x \in T /\ x.el = Shows[s][x.at]
        BY <2>3
      <4>2. seqs[p] = <<>> \/ seqs[p] = <<x>>
        OBVIOUS
      <4> HIDE DEF x, seqs, T
      <4>3. <<>> \in Seq(T) /\ <<x>> \in Seq(T) /\ Len(<<>>) = 0 /\ Len(<<x>>) = 1 /\ <<x>>[1] = x
        BY <4>1
      <4>4. (\A a \in 1..0 : FALSE) /\ \A a \in 1..1 : a = 1
        OBVIOUS
      <4> QED
        BY <4>1, <4>2, <4>3, <4>4
    <3> QED
      BY <3>1
  <2>5. MaxPoint \in Nat
    BY InteractionAssumption
  <2>6. seqs \in Seq(Seq(T)) /\ Len(seqs) = MaxPoint
    <3> HIDE DEF T
    <3> QED
      BY <2>4, <2>5
  <2> HIDE DEF seqs, T
  <2>7. FlattenSeq(seqs) \in Seq(T)
    BY <2>6, Flattened
  <2>8. PICK off : Spread(seqs, FlattenSeq(seqs), off)
    BY <2>6, Flattened
  <2>9. ASSUME NEW l \in 1..Len(FlattenSeq(seqs))
        PROVE  FlattenSeq(seqs)[l].el = Shows[s][FlattenSeq(seqs)[l].at]
    <3>1. PICK k \in 1..Len(seqs) : \E a \in 1..Len(seqs[k]) : l = off[k - 1] + a
      BY <2>8 DEF Spread
    <3>2. PICK a \in 1..Len(seqs[k]) : l = off[k - 1] + a
      BY <3>1
    <3>3. FlattenSeq(seqs)[l] = seqs[k][a]
      BY <2>8, <3>2 DEF Spread
    <3> QED
      BY <2>4, <2>6, <3>3
  <2> QED
    BY <2>1, <2>7, <2>9 DEF T
<1> QED
  BY <1>1, <1>2

\* The last snapshot has a point and an element for each label.
LEMMA SnapshotTyped ==
    ASSUME TypeOK
    PROVE  /\ snapshot \in Seq([at : 1..MaxPoint, el : Elements \cup {Nothing}])
           /\ DOMAIN snapshot = 1..Len(snapshot) /\ Len(snapshot) \in Nat
           /\ \A l \in DOMAIN snapshot : /\ snapshot[l].at \in 1..MaxPoint
                                         /\ snapshot[l].el \in Elements \cup {Nothing}
           /\ last = screen => \A l \in DOMAIN snapshot : snapshot[l].el = Shows[screen][snapshot[l].at]
<1>1. last \in Screens \cup {None} /\ screen \in Screens
  BY DEF TypeOK
<1>2. screen # None
  BY <1>1, InteractionAssumption
<1>3. snapshot \in Seq([at : 1..MaxPoint, el : Elements \cup {Nothing}])
  BY <1>1, WalksTyped DEF snapshot
<1>4. last = screen => \A l \in DOMAIN snapshot : snapshot[l].el = Shows[screen][snapshot[l].at]
  BY <1>1, <1>2, WalksTyped DEF snapshot
<1>5. \A T : \A q \in Seq(T) : /\ DOMAIN q = 1..Len(q) /\ Len(q) \in Nat
                                /\ \A l \in DOMAIN q : q[l] \in T
  OBVIOUS
<1>6. /\ DOMAIN snapshot = 1..Len(snapshot) /\ Len(snapshot) \in Nat
      /\ \A l \in DOMAIN snapshot : snapshot[l] \in [at : 1..MaxPoint, el : Elements \cup {Nothing}]
  BY <1>3, <1>5
<1> QED
  BY <1>3, <1>4, <1>6

\* What is known of a call under way.
LEMMA AtWork ==
    ASSUME TypeOK, InScript, NEW c \in InFlight
    PROVE  /\ c \in Callers /\ c # Nobody /\ request[c] \in DOMAIN Requests
           /\ ~Refused(Requests[request[c]]) /\ at[c] \in Nat /\ result[c] = "none"
           /\ Scripts[request[c]] \in Seq(Stages) /\ Len(Scripts[request[c]]) \in Nat \ {0}
           /\ at[c] \in 1..Len(Scripts[request[c]])
           /\ Stage(c) = Scripts[request[c]][at[c]] /\ Stage(c) \in Stages
<1>1. c \in Callers /\ c # Nobody /\ result[c] = "none"
  BY InteractionAssumption DEF InFlight
<1>2. request[c] \in DOMAIN Requests
  BY <1>1, InteractionAssumption DEF TypeOK
<1>3. ~Refused(Requests[request[c]]) /\ at[c] \in 1..Len(Scripts[request[c]])
  BY DEF InScript, Asked
<1>4. /\ Scripts[request[c]] \in Seq(Stages) /\ Len(Scripts[request[c]]) \in Nat \ {0}
      /\ \A p \in 1..Len(Scripts[request[c]]) : Scripts[request[c]][p] \in Stages
  BY <1>2, <1>3, Scripted
<1>5. at[c] \in Nat
  BY <1>1 DEF TypeOK
<1> QED
  BY <1>1, <1>2, <1>3, <1>4, <1>5 DEF Stage

\* What is known of the call whose job runs.
LEMMA JobAtWork ==
    ASSUME TypeOK, InScript, InJob, holder # Nobody
    PROVE  /\ holder \in InFlight /\ holder \in Callers /\ Stage(holder) \in Stages
           /\ Stage(holder).do = "job" /\ next \in Nat \ {0}
           /\ Ops \in Seq(ActOps \cup TypeOps \cup LookOps) /\ Len(Ops) \in Nat
           /\ \A q \in 1..Len(Ops) : Ops[q] \in ActOps \cup TypeOps \cup LookOps
           /\ next <= Len(Ops) => next \in 1..Len(Ops) /\ Ops[next] \in ActOps \cup TypeOps \cup LookOps
<1>1. holder \in InFlight /\ Stage(holder).do = "job" /\ next \in Nat \ {0}
  BY DEF InJob, TypeOK
<1>2. holder \in Callers /\ Stage(holder) \in Stages
  BY <1>1, AtWork
<1>3. Stage(holder) \in Job(ActOps \cup TypeOps \cup LookOps)
  BY <1>1, <1>2 DEF Stages, Lookups, Judge, TooLarge
<1>4. Ops \in Seq(ActOps \cup TypeOps \cup LookOps)
  BY <1>3 DEF Ops, Job
<1>5. Len(Ops) \in Nat /\ \A q \in 1..Len(Ops) : Ops[q] \in ActOps \cup TypeOps \cup LookOps
  BY <1>4
<1>6. next <= Len(Ops) => next \in 1..Len(Ops)
  BY <1>1, <1>5
<1> QED
  BY <1>1, <1>2, <1>4, <1>5, <1>6

\* A step of a call outside the engine: it goes to a stage of its script, or ends.
Results == {"none", "ok", "error", "timeout", "cancelled"}
Moved(c) ==
    \/ \E i \in 1..Len(Scripts[request[c]]) : Goto(c, i)
    \/ \E r \in Results \ {"none"} : End(c, r)

\* Advancing and failing move a call within its script, or end it.
LEMMA AdvanceMoves ==
    ASSUME TypeOK, InScript, NEW c \in InFlight, Advance(c) \/ End(c, "error")
    PROVE  Moved(c)
<1>1. at[c] \in 1..Len(Scripts[request[c]]) /\ Len(Scripts[request[c]]) \in Nat
  BY AtWork
<1>2. at[c] # Len(Scripts[request[c]]) => at[c] + 1 \in 1..Len(Scripts[request[c]])
  BY <1>1
<1>3. "ok" \in Results \ {"none"} /\ "error" \in Results \ {"none"}
  BY DEF Results
<1> QED
  BY <1>2, <1>3 DEF Advance, Moved

\* A call that moves keeps the types, and leaves the other calls where they are.
LEMMA CallMoves ==
    ASSUME TypeOK, InScript, NEW c \in InFlight, request' = request, Moved(c)
    PROVE  /\ at' \in [Callers -> Nat] /\ result' \in [Callers -> Results]
           /\ \A x \in Callers : at'[x] \in {0, 1} \cup 1..Len(Scripts[request'[x]])
           /\ \A x \in Callers \ {c} : at'[x] = at[x] /\ result'[x] = result[x]
           /\ \A x : x \in InFlight' => x \in InFlight
           /\ \A x \in InFlight : x # c => x \in InFlight'
           /\ InScript'
<1>1. at \in [Callers -> Nat] /\ result \in [Callers -> Results]
  BY DEF TypeOK, Results
<1>2. c \in Callers /\ at[c] \in 1..Len(Scripts[request[c]]) /\ at[c] \in Nat /\ result[c] = "none"
      /\ ~Refused(Requests[request[c]]) /\ Len(Scripts[request[c]]) \in Nat
  BY AtWork
<1>3. \A x \in Callers : at[x] \in {0, 1} \cup 1..Len(Scripts[request[x]])
  BY DEF TypeOK
<1>4. CASE \E i \in 1..Len(Scripts[request[c]]) : Goto(c, i)
  <2>1. PICK i \in 1..Len(Scripts[request[c]]) : Goto(c, i)
    BY <1>4
  <2>2. at' = [at EXCEPT ![c] = i] /\ result' = result /\ i \in Nat
    BY <1>2, <2>1 DEF Goto
  <2>3. at' \in [Callers -> Nat] /\ at'[c] = i /\ \A x \in Callers \ {c} : at'[x] = at[x]
    BY <1>1, <1>2, <2>2
  <2>4. \A x \in Callers : x # c => at'[x] \in {0, 1} \cup 1..Len(Scripts[request'[x]])
    BY <1>3, <2>3
  <2>5. at'[c] \in 0..Len(Scripts[request'[c]])
    BY <1>2, <2>3
  <2>6. \A x : x \in InFlight' <=> x \in InFlight
    BY <1>2, <2>2, <2>3 DEF InFlight
  <2>7. InScript'
    <3> SUFFICES ASSUME NEW x \in InFlight'
                 PROVE  ~Refused(Asked(x)') /\ at'[x] \in 1..Len(Scripts[request'[x]])
      BY DEF InScript
    <3>1. x \in InFlight /\ x \in Callers
      BY <2>6 DEF InFlight
    <3>2. CASE x = c
      BY <1>2, <2>3, <3>2 DEF Asked
    <3>3. CASE x # c
      BY <2>3, <3>1, <3>3 DEF Asked, InScript
    <3> QED
      BY <3>2, <3>3
  <2> QED
    BY <1>1, <2>2, <2>3, <2>4, <2>5, <2>6, <2>7
<1>5. CASE \E r \in Results \ {"none"} : End(c, r)
  <2>1. PICK r \in Results \ {"none"} : End(c, r)
    BY <1>5
  <2>2. at' = at /\ result' = [result EXCEPT ![c] = r]
    BY <2>1 DEF End
  <2>3. /\ result' \in [Callers -> Results] /\ result'[c] # "none"
        /\ \A x \in Callers \ {c} : result'[x] = result[x]
    BY <1>1, <1>2, <2>2
  <2>4. /\ \A x : x \in InFlight' => x \in InFlight
        /\ \A x \in InFlight : x # c => x \in InFlight'
    BY <2>2, <2>3 DEF InFlight
  <2>5. InScript'
    BY <2>2, <2>4 DEF InScript, Asked
  <2> QED
    BY <1>1, <1>3, <2>2, <2>3, <2>4, <2>5
<1> QED
  BY <1>4, <1>5 DEF Moved

\* What holds of the other variables when a call moves outside the engine.
LEMMA OutsideStep ==
    ASSUME Base, NEW c \in InFlight, holder # c, Moved(c),
           UNCHANGED <<request, expired, cancelled, world, engine, blamed, hits, muddled, disturbed>>,
           points' \in [Callers -> Seq(Int)], label' \in [Callers -> Int],
           own' \in [Callers -> Screens \cup {None}], passes' \in [Callers -> BOOLEAN],
           meant' \in [Callers -> Seq(SUBSET (Elements \cup {Nothing}))]
    PROVE  Base'
<1>1. TypeOK /\ InScript /\ InJob /\ KeysComeUp
  BY DEF Base
<1>2. request' = request
  OBVIOUS
<1>3. /\ at' \in [Callers -> Nat] /\ result' \in [Callers -> Results]
      /\ \A x \in Callers : at'[x] \in {0, 1} \cup 1..Len(Scripts[request'[x]])
      /\ \A x \in Callers \ {c} : at'[x] = at[x] /\ result'[x] = result[x]
      /\ \A x \in InFlight : x # c => x \in InFlight'
      /\ InScript'
  BY <1>1, <1>2, CallMoves
<1>4. TypeOK'
  BY <1>1, <1>3 DEF TypeOK, world, engine, Results
<1>5. InJob'
  <2>1. holder' = holder /\ undo' = undo
    BY DEF engine
  <2>2. holder # Nobody => holder \in InFlight /\ holder \in Callers /\ Stage(holder).do = "job"
    BY <1>1, JobAtWork
  <2>3. holder # Nobody => Stage(holder)' = Stage(holder)
    BY <1>3, <2>1, <2>2 DEF Stage
  <2> QED
    BY <1>1, <1>3, <2>1, <2>2, <2>3 DEF InJob
<1>6. KeysComeUp'
  BY <1>1 DEF KeysComeUp, world, engine
<1> QED
  BY <1>3, <1>4, <1>5, <1>6 DEF Base

\* Resolving a target that is a point or a label keeps Base.
LEMMA TakeBase ==
    ASSUME Base, NEW c \in Callers, Take(c)
    PROVE  Moved(c) /\ Base'
<1>1. TypeOK /\ InScript
  BY DEF Base
<1>2. c \in InFlight /\ holder # c /\ Stage(c) \in Stages
  BY <1>1, AtWork DEF Take, AtStage
<1>3. Moved(c)
  BY <1>1, <1>2, AdvanceMoves DEF Take
<1>4. /\ points \in [Callers -> Seq(Int)] /\ label \in [Callers -> Int]
      /\ meant \in [Callers -> Seq(SUBSET (Elements \cup {Nothing}))]
      /\ own \in [Callers -> Screens \cup {None}] /\ passes \in [Callers -> BOOLEAN]
  BY <1>1 DEF TypeOK
<1>5. /\ points' \in [Callers -> Seq(Int)] /\ label' \in [Callers -> Int]
      /\ meant' \in [Callers -> Seq(SUBSET (Elements \cup {Nothing}))]
  <2>1. CASE /\ AtStage(c, "point") /\ points' = [points EXCEPT ![c] = Append(@, Stage(c).at)]
             /\ Means(c, Elements \cup {Nothing}) /\ label' = label
    <3>1. Stage(c).at \in Int
      BY <1>2, <2>1 DEF AtStage, Stages, Lookups, Job, Judge, TooLarge
    <3> QED
      BY <1>4, <2>1, <3>1 DEF Means
  <2>2. CASE /\ AtStage(c, "take") /\ label' = [label EXCEPT ![c] = Stage(c).label]
             /\ Means(c, { snapshot[l].el : l \in {Stage(c).label} \cap DOMAIN snapshot })
             /\ points' = points
    <3>1. Stage(c).label \in Int
      BY <1>2, <2>2 DEF AtStage, Stages, Lookups, Job, Judge, TooLarge
    <3>2. { snapshot[l].el : l \in {Stage(c).label} \cap DOMAIN snapshot } \subseteq Elements \cup {Nothing}
      BY <1>1, SnapshotTyped
    <3> HIDE DEF snapshot
    <3> QED
      BY <1>4, <2>2, <3>1, <3>2 DEF Means
  <2> QED
    BY <2>1, <2>2 DEF Take
<1> QED
  BY <1>2, <1>3, <1>4, <1>5, OutsideStep DEF Take

\* A selector that resolves gives the label that its occurrence chooses.
LEMMA ResolvedLabel ==
    ASSUME NEW T, NEW snap \in Seq(T), NEW spec, spec.occurrence.index \in Int,
           NEW r, r = Resolve(spec, snap), r.error = "none"
    PROVE  /\ r.label \in Matches(spec, snap) /\ r.label \in DOMAIN snap /\ r.label \in Nat
           /\ r.label \in Chosen(spec.occurrence, Matches(spec, snap))
<1> DEFINE found == Matches(spec, snap)
           n == Cardinality(found)
           occ == spec.occurrence
<1>1. found \subseteq 1..Len(snap) /\ DOMAIN snap = 1..Len(snap) /\ Len(snap) \in Nat
  BY DEF Matches
<1>2. IsFiniteSet(found) /\ n \in Nat /\ found \subseteq Nat
  <2>1. IsFiniteSet(1..Len(snap))
    BY <1>1, FS_Interval
  <2>2. IsFiniteSet(found)
    BY <1>1, <2>1, FS_Subset
  <2> QED
    BY <1>1, <2>2, FS_CardinalityType
<1>3. \A e : Error(e).error = e
  BY DEF Error
<1>4. \A l : Answer(l).label = l
  BY DEF Answer
<1>5. r = IF Malformed(spec) THEN Error("malformed")
          ELSE IF n = 0 THEN Error("no match")
          ELSE IF occ.mode \in {"", "unique", "first"}
               THEN IF n > 1 /\ occ.mode # "first" THEN Error("ambiguous") ELSE Answer(Nth(found, 0))
          ELSE IF occ.index < 0 THEN Error("bad occurrence")
          ELSE IF occ.index >= n THEN Error("out of range") ELSE Answer(Nth(found, occ.index))
  BY DEF Resolve
<1>9. occ.index \in Int
  OBVIOUS
<1> HIDE DEF found, n, occ
<1>6. CASE r = Error("malformed") \/ r = Error("no match") \/ r = Error("ambiguous")
           \/ r = Error("bad occurrence") \/ r = Error("out of range")
  <2>1. r.error \in {"malformed", "no match", "ambiguous", "bad occurrence", "out of range"}
    BY Zenon, <1>3, <1>6
  <2>2. r.error # "none"
    BY <2>1
  <2> QED
    BY <2>2
<1>7. CASE r = Answer(Nth(found, 0)) /\ n # 0 /\ (occ.mode \in {"", "unique"} => ~(n > 1))
           /\ occ.mode \in {"", "unique", "first"}
  <2>1. r.label \in found /\ Cardinality({ k \in found : k < r.label }) = 0
    <3>1. 0 \in Nat /\ 0 < n
      <4>1. n \in Nat /\ n # 0
        BY <1>2, <1>7
      <4> QED
        BY <4>1
    <3>2. Nth(found, 0) \in found /\ Cardinality({ k \in found : k < Nth(found, 0) }) = 0
      BY <1>2, <3>1, NthExists DEF n
    <3> QED
      BY <1>4, <1>7, <3>2
  <2>2. r.label \in 1..Len(snap) /\ r.label \in Nat
    BY <1>1, <1>2, <2>1
  <2>3. ASSUME occ.mode = "first" PROVE r.label \in Chosen(occ, found)
    <3> DEFINE less == { k \in found : k < r.label }
    <3>1. less = {}
      <4>1. IsFiniteSet(less)
        BY <1>2, FS_Subset
      <4> HIDE DEF less
      <4>2. Cardinality(less) = 0
        BY <2>1 DEF less
      <4> QED
        BY <4>1, <4>2, FS_EmptySet
    <3>2. \A k \in found : k >= r.label
      BY <1>2, <2>2, <3>1
    <3> QED
      BY <2>1, <2>3, <3>2 DEF Chosen
  <2>4. ASSUME occ.mode \in {"", "unique"} PROVE r.label \in Chosen(occ, found)
    <3>1. n = 1
      <4>1. n \in Nat /\ n # 0 /\ ~(n > 1)
        BY Zenon, <1>2, <1>7, <2>4
      <4> QED
        BY <4>1
    <3>2. PICK x : found = {x}
      BY <1>2, <3>1, FS_Singleton DEF n
    <3>3. found = {r.label}
      BY <2>1, <3>2
    <3> QED
      BY <2>4, <3>3 DEF Chosen
  <2> QED
    BY <1>1, <1>7, <2>1, <2>2, <2>3, <2>4 DEF found, occ
<1>8. CASE r = Answer(Nth(found, occ.index)) /\ ~(occ.index < 0) /\ ~(occ.index >= n)
           /\ occ.mode \notin {"", "unique", "first"}
  <2>1. occ.index \in Nat /\ occ.index < n
    <3>1. n \in Nat /\ ~(occ.index < 0) /\ ~(occ.index >= n)
      BY <1>2, <1>8
    <3> QED
      BY <1>9, <3>1
  <2>2. /\ Nth(found, occ.index) \in found
        /\ Cardinality({ k \in found : k < Nth(found, occ.index) }) = occ.index
    BY <1>2, <2>1, NthExists DEF n
  <2>3. r.label \in found /\ Cardinality({ k \in found : k < r.label }) = occ.index
    BY <1>4, <1>8, <2>2
  <2>4. r.label \in Chosen(occ, found)
    BY <1>8, <2>3 DEF Chosen
  <2>5. r.label \in 1..Len(snap) /\ r.label \in Nat
    BY <1>1, <1>2, <2>3
  <2> QED
    BY <1>1, <2>3, <2>4, <2>5 DEF found, occ
<1> QED
  BY <1>5, <1>6, <1>7, <1>8

\* An occurrence index is an integer, whether it is of the selector or of nth.
LEMMA IndexTyped ==
    ASSUME NEW args \in Arguments
    PROVE  SelectorFromArgs(args).occurrence.index \in Int
<1>1. args.spec \in Specs /\ args.nth \subseteq Int
  BY DEF Arguments
<1>2. args.spec.occurrence \in [mode : STRING, index : Int]
  BY <1>1 DEF Specs
<1> DEFINE o == IF args.spec.occurrence.mode = ""
                THEN IF args.nth = {} THEN [mode |-> "unique", index |-> 0]
                     ELSE [mode |-> "index", index |-> CHOOSE i \in args.nth : TRUE]
                ELSE args.spec.occurrence
<1>3. o.index \in Int
  <2>1. args.nth # {} => (CHOOSE i \in args.nth : TRUE) \in Int
    BY <1>1
  <2>2. CASE args.spec.occurrence.mode = "" /\ args.nth = {}
    <3>1. o = [mode |-> "unique", index |-> 0]
      BY <2>2
    <3> HIDE DEF o
    <3> QED
      BY <3>1
  <2>3. CASE args.spec.occurrence.mode = "" /\ args.nth # {}
    <3> DEFINE i == CHOOSE i \in args.nth : TRUE
    <3>1. o = [mode |-> "index", index |-> i] /\ i \in Int
      BY <2>1, <2>3
    <3> HIDE DEF i, o
    <3> QED
      BY <3>1
  <2>4. CASE args.spec.occurrence.mode # ""
    BY <1>2, <2>4
  <2> QED
    BY <2>2, <2>3, <2>4
<1>4. SelectorFromArgs(args).occurrence = o
  BY <1>1 DEF SelectorFromArgs, Specs
<1> QED
  BY <1>3, <1>4

\* So does resolving a selector.
LEMMA ResolveSelectorBase ==
    ASSUME Base, NEW c \in Callers, ResolveSelector(c)
    PROVE  Moved(c) /\ Base'
<1>1. TypeOK /\ InScript
  BY DEF Base
<1>2. c \in InFlight /\ holder # c /\ Stage(c) \in Stages /\ Stage(c).do = "resolve"
  BY <1>1, AtWork DEF ResolveSelector, AtStage
<1> DEFINE spec == SelectorFromArgs(Stage(c).target.args)
           r == Resolve(spec, snapshot)
<1>3. spec.occurrence.index \in Int
  <2>1. Stage(c).target \in BySelector
    BY <1>2 DEF Stages, Lookups, Job, Judge, TooLarge
  <2>2. Stage(c).target.args \in Arguments
    BY <2>1 DEF BySelector
  <2> QED
    BY <2>2, IndexTyped
<1>4. snapshot \in Seq([at : 1..MaxPoint, el : Elements \cup {Nothing}])
  BY <1>1, SnapshotTyped
<1>5. /\ points \in [Callers -> Seq(Int)] /\ label \in [Callers -> Int]
      /\ meant \in [Callers -> Seq(SUBSET (Elements \cup {Nothing}))]
      /\ own \in [Callers -> Screens \cup {None}] /\ passes \in [Callers -> BOOLEAN]
  BY <1>1 DEF TypeOK
<1> HIDE DEF spec, r
<1>6. CASE r.error = "none"
  <2>1. /\ label' = [label EXCEPT ![c] = r.label] /\ Means(c, Designated(spec))
        /\ Advance(c) /\ passes' = passes
    BY <1>6 DEF ResolveSelector, spec, r
  <2>2. Moved(c)
    BY <1>1, <1>2, <2>1, AdvanceMoves
  <2>3. r.label \in Nat
    BY <1>3, <1>4, <1>6, ResolvedLabel DEF r
  <2>4. Designated(spec) \subseteq Elements \cup {Nothing}
    <3>1. \A l \in Chosen(spec.occurrence, Matches(spec, snapshot)) :
              snapshot[l].el \in Elements \cup {Nothing}
      BY <1>1, SnapshotTyped DEF Matches, Chosen
    <3> HIDE DEF snapshot
    <3> QED
      BY <3>1 DEF Designated
  <2>5. label' \in [Callers -> Int] /\ meant' \in [Callers -> Seq(SUBSET (Elements \cup {Nothing}))]
    BY <1>5, <2>1, <2>3, <2>4 DEF Means
  <2> QED
    BY <1>2, <1>5, <2>1, <2>2, <2>5, OutsideStep DEF ResolveSelector
<1>7. CASE r.error # "none"
  <2>1. /\ \/ Goto(c, Len(Scripts[request[c]])) /\ \E b \in BOOLEAN : passes' = [passes EXCEPT ![c] = b]
           \/ End(c, "error") /\ passes' = passes
        /\ label' = label /\ meant' = meant
    BY <1>7 DEF ResolveSelector, spec, r
  <2>2. Moved(c)
    <3>1. Len(Scripts[request[c]]) \in 1..Len(Scripts[request[c]]) /\ "error" \in Results \ {"none"}
      BY <1>1, <1>2, AtWork DEF Results
    <3> QED
      BY <2>1, <3>1 DEF Moved
  <2>3. passes' \in [Callers -> BOOLEAN]
    BY <1>5, <2>1
  <2> QED
    BY <1>2, <1>5, <2>1, <2>2, <2>3, OutsideStep DEF ResolveSelector
<1> QED
  BY <1>6, <1>7

\* So does looking up the point of a label.
LEMMA LocateBase ==
    ASSUME Base, NEW c \in Callers, Locate(c)
    PROVE  Moved(c) /\ Base'
<1>1. TypeOK /\ InScript
  BY DEF Base
<1>2. c \in InFlight /\ holder # c
  BY DEF Locate, AtStage
<1>3. Moved(c)
  BY <1>1, <1>2, AdvanceMoves DEF Locate
<1>4. /\ points \in [Callers -> Seq(Int)] /\ label \in [Callers -> Int]
      /\ meant \in [Callers -> Seq(SUBSET (Elements \cup {Nothing}))]
      /\ own \in [Callers -> Screens \cup {None}] /\ passes \in [Callers -> BOOLEAN]
  BY <1>1 DEF TypeOK
<1>5. points' \in [Callers -> Seq(Int)]
  <2>1. \A l \in DOMAIN snapshot : snapshot[l].at \in Int
    BY <1>1, SnapshotTyped
  <2> HIDE DEF snapshot
  <2> QED
    <3>1. CASE label[c] \in DOMAIN snapshot
      <4>1. points' = [points EXCEPT ![c] = Append(@, snapshot[label[c]].at)]
        BY <3>1 DEF Locate
      <4>2. snapshot[label[c]].at \in Int
        BY <2>1, <3>1
      <4> QED
        BY <1>4, <4>1, <4>2
    <3>2. CASE label[c] \notin DOMAIN snapshot
      BY <1>4, <3>2 DEF Locate
    <3> QED
      BY <3>1, <3>2
<1> QED
  BY <1>2, <1>3, <1>4, <1>5, OutsideStep DEF Locate, history

\* So does a round of polling.
LEMMA EvaluateBase ==
    ASSUME Base, NEW c \in Callers, Evaluate(c)
    PROVE  Moved(c) /\ Base'
<1>1. TypeOK /\ InScript
  BY DEF Base
<1>2. c \in InFlight /\ holder # c
  BY DEF Evaluate, AtStage
<1>3. Moved(c)
  <2>1. Goto(c, 1) \/ \E r \in {"ok", "error", "timeout", "cancelled"} : End(c, r)
    BY DEF Evaluate
  <2>2. 1 \in 1..Len(Scripts[request[c]])
    BY <1>1, <1>2, AtWork
  <2> QED
    BY <2>1, <2>2 DEF Moved, Results
<1>4. /\ points \in [Callers -> Seq(Int)] /\ label \in [Callers -> Int]
      /\ meant \in [Callers -> Seq(SUBSET (Elements \cup {Nothing}))]
      /\ own \in [Callers -> Screens \cup {None}] /\ passes \in [Callers -> BOOLEAN]
  BY <1>1 DEF TypeOK
<1> QED
  BY <1>2, <1>3, <1>4, OutsideStep DEF Evaluate, call, history

\* So does a call that the closed engine refuses.
LEMMA RefuseBase ==
    ASSUME Base, NEW c \in Callers, Refuse(c)
    PROVE  Moved(c) /\ Base'
<1>1. TypeOK /\ InScript
  BY DEF Base
<1>2. c \in InFlight /\ holder # c
  BY DEF Refuse, AtStage
<1>3. Moved(c)
  BY <1>1, <1>2, AdvanceMoves DEF Refuse, JobOver
<1>4. /\ points \in [Callers -> Seq(Int)] /\ label \in [Callers -> Int]
      /\ meant \in [Callers -> Seq(SUBSET (Elements \cup {Nothing}))]
      /\ own \in [Callers -> Screens \cup {None}] /\ passes \in [Callers -> BOOLEAN]
  BY <1>1 DEF TypeOK
<1>5. own' \in [Callers -> Screens \cup {None}]
  BY <1>4 DEF Refuse
<1> QED
  BY <1>2, <1>3, <1>4, <1>5, OutsideStep DEF Refuse, history

\* A call that starts is refused at once, or is at the first stage of its script.
LEMMA StartCallBase ==
    ASSUME Base, NEW c \in Callers, StartCall(c)
    PROVE  /\ Base' /\ c \notin InFlight /\ \A x \in Callers \ {c} : at'[x] = at[x] /\ result'[x] = result[x]
           /\ at'[c] = 1 /\ \A x \in InFlight' : x # c => x \in InFlight
           /\ \A x \in InFlight : x \in InFlight'
<1>1. TypeOK /\ InScript /\ InJob /\ KeysComeUp
  BY DEF Base
<1>2. at \in [Callers -> Nat] /\ result \in [Callers -> Results] /\ request[c] \in DOMAIN Requests
      /\ muddled \subseteq Callers
  <2>1. request \in Plans
    BY <1>1 DEF TypeOK
  <2>2. request[c] \in DOMAIN Requests
    BY <2>1, InteractionAssumption
  <2> QED
    BY <1>1, <2>2 DEF TypeOK, Results
<1>3. at[c] = 0 /\ at' = [at EXCEPT ![c] = 1] /\ request' = request
  BY DEF StartCall
<1>4. result' = [result EXCEPT ![c] = IF Refused(Asked(c)) THEN "error" ELSE "none"]
  BY DEF StartCall
<1>5. /\ at' \in [Callers -> Nat] /\ at'[c] = 1 /\ result' \in [Callers -> Results]
      /\ \A x \in Callers \ {c} : at'[x] = at[x] /\ result'[x] = result[x]
  BY <1>2, <1>3, <1>4 DEF Results
<1>6. c \notin InFlight
  BY <1>3 DEF InFlight
<1>7. /\ \A x \in InFlight' : x # c => x \in InFlight
      /\ \A x \in InFlight : x \in InFlight'
  BY <1>5, <1>6 DEF InFlight
<1>8. muddled' \subseteq Callers
  BY <1>2 DEF StartCall
<1>9. TypeOK'
  <2>1. \A x \in Callers : at'[x] \in {0, 1} \cup 1..Len(Scripts[request'[x]])
    <3>1. \A x \in Callers : at[x] \in {0, 1} \cup 1..Len(Scripts[request[x]])
      BY <1>1 DEF TypeOK
    <3> QED
      BY <1>3, <1>5, <3>1
  <2> QED
    BY <1>1, <1>5, <1>8, <2>1 DEF TypeOK, StartCall, call, world, engine, Results
<1>10. InScript'
  <2> SUFFICES ASSUME NEW x \in InFlight'
               PROVE  ~Refused(Asked(x)') /\ at'[x] \in 1..Len(Scripts[request'[x]])
    BY DEF InScript
  <2>1. CASE x = c
    <3>1. ~Refused(Requests[request[c]])
      <4>1. result'[c] = "none"
        BY <2>1 DEF InFlight
      <4> QED
        BY <1>2, <1>4, <4>1 DEF Asked
    <3>2. Len(Scripts[request[c]]) \in Nat \ {0}
      BY <1>2, <3>1, Scripted
    <3> QED
      BY <1>3, <1>5, <2>1, <3>1, <3>2 DEF Asked
  <2>2. CASE x # c
    BY <1>1, <1>3, <1>5, <1>7, <2>2 DEF InScript, Asked, InFlight
  <2> QED
    BY <2>1, <2>2
<1>11. InJob'
  <2>1. holder' = holder /\ undo' = undo
    BY DEF StartCall, engine
  <2>2. holder # Nobody => holder \in InFlight /\ holder \in Callers /\ Stage(holder).do = "job"
    BY <1>1, JobAtWork
  <2>3. holder # Nobody => holder # c /\ Stage(holder)' = Stage(holder)
    BY <1>3, <1>5, <1>6, <2>1, <2>2 DEF Stage
  <2> QED
    BY <1>1, <1>7, <2>1, <2>2, <2>3 DEF InJob
<1>12. KeysComeUp'
  BY <1>1 DEF KeysComeUp, StartCall, world, engine
<1> QED
  BY <1>5, <1>6, <1>7, <1>9, <1>10, <1>11, <1>12 DEF Base

\* Steps that no call moves in.
LEMMA CallsStay ==
    ASSUME UNCHANGED <<request, at, result>>
    PROVE  /\ InFlight' = InFlight /\ (InScript => InScript')
           /\ \A x : Stage(x)' = Stage(x) /\ Asked(x)' = Asked(x)
<1>1. InFlight' = InFlight
  BY DEF InFlight
<1>2. \A x : Stage(x)' = Stage(x) /\ Asked(x)' = Asked(x)
  BY DEF Stage, Asked
<1>3. InScript => InScript'
  BY <1>1 DEF InScript, Asked
<1> QED
  BY <1>1, <1>2, <1>3

\* So do a deadline, a cancellation and the beginning of a job.
LEMMA WaitingBase ==
    ASSUME Base, NEW c \in Callers, Expire(c) \/ Cancel(c) \/ Begin(c)
    PROVE  Base'
<1>1. TypeOK /\ InScript /\ InJob /\ KeysComeUp
  BY DEF Base
<1>2. UNCHANGED <<request, at, result>>
  BY DEF Expire, Cancel, Begin
<1>3. /\ InFlight' = InFlight /\ InScript'
      /\ \A x : Stage(x)' = Stage(x)
  BY <1>1, <1>2, CallsStay
<1>4. CASE Expire(c) \/ Cancel(c)
  <2>1. /\ TypeOK' /\ KeysComeUp' /\ holder' = holder /\ undo' = undo
    BY <1>1, <1>4 DEF TypeOK, KeysComeUp, Expire, Cancel, call, world, engine, history
  <2>2. InJob'
    BY <1>1, <1>3, <2>1 DEF InJob
  <2> QED
    BY <1>3, <2>1, <2>2 DEF Base
<1>5. CASE Begin(c)
  <2>1. holder = Nobody /\ undo = {} /\ holder' = c /\ undo' = {}
    BY <1>1, <1>5 DEF InJob, Begin
  <2>2. c \in InFlight /\ Stage(c).do = "job"
    BY <1>5 DEF Begin, AtStage
  <2>3. c # Nobody
    BY InteractionAssumption
  <2>4. TypeOK' /\ KeysComeUp'
    BY <1>1, <1>5, <2>1, <2>3 DEF TypeOK, KeysComeUp, Begin, call, world, history
  <2>5. InJob'
    BY <1>3, <2>1, <2>2, <2>3 DEF InJob
  <2> QED
    BY <1>3, <2>4, <2>5 DEF Base
<1> QED
  BY <1>4, <1>5

\* Windows releases the keys of the job, or does not and is to blame.
LEMMA EndJobBase ==
    ASSUME Base, EndJob
    PROVE  Base' /\ holder \in InFlight /\ Moved(holder) /\ Stage(holder).do = "job"
<1>1. TypeOK /\ InScript /\ InJob /\ KeysComeUp
  BY DEF Base
<1>2. holder \in InFlight /\ holder \in Callers /\ Stage(holder).do = "job"
  BY <1>1, JobAtWork DEF EndJob
<1>3. Moved(holder)
  BY <1>1, <1>2, AdvanceMoves DEF EndJob, JobOver
<1>4. /\ at' \in [Callers -> Nat] /\ result' \in [Callers -> Results]
      /\ \A x \in Callers : at'[x] \in {0, 1} \cup 1..Len(Scripts[request'[x]])
      /\ InScript'
  BY <1>1, <1>2, <1>3, CallMoves DEF EndJob
<1>5. desk \in Desks /\ desk.held \subseteq Holdable /\ undo \subseteq Holdable /\ blamed \subseteq Holdable
  BY <1>1, FieldsOfDesks DEF TypeOK
<1>6. holder' = Nobody /\ next' = 1 /\ undo' = {} /\ broken' = FALSE
  BY DEF EndJob
<1>7. /\ desk' \in Desks /\ blamed' \subseteq Holdable
      /\ {faults', changes', faults' + changes'} \subseteq 0..MaxMishaps
      /\ desk'.held \subseteq blamed'
  <2>1. {faults, changes, faults + changes} \subseteq 0..MaxMishaps /\ MaxMishaps \in Nat /\ changes' = changes
    BY <1>1, InteractionAssumption DEF TypeOK, EndJob
  <2>2. desk.held \subseteq blamed \cup undo
    BY <1>1 DEF KeysComeUp
  <2>3. CASE desk' = [desk EXCEPT !.held = @ \ undo] /\ blamed' = blamed \ undo /\ faults' = faults
    <3>1. desk.held \ undo \in SUBSET Holdable /\ desk' = [desk EXCEPT !.held = desk.held \ undo]
      BY <1>5, <2>3
    <3>2. desk' \in Desks /\ desk'.held = desk.held \ undo
      BY <1>5, <3>1, OtherKeys
    <3> QED
      BY <1>5, <2>1, <2>2, <2>3, <3>2
  <2>4. CASE Faulty /\ blamed' = blamed \cup undo /\ desk' = desk
    BY <1>5, <2>1, <2>2, <2>4 DEF Faulty
  <2> QED
    BY <2>3, <2>4 DEF EndJob
<1>8. TypeOK'
  <2>1. UNCHANGED <<request, points, label, own, passes, expired, cancelled, screen, last, open,
                    meant, hits, muddled, disturbed>>
    BY DEF EndJob, call
  <2>2. holder' \in Callers \cup {Nobody} /\ next' \in Nat \ {0} /\ broken' \in BOOLEAN
        /\ undo' \subseteq Holdable /\ (holder' = Nobody => next' = 1)
    <3>1. holder' \in Callers \cup {Nobody} /\ next' \in Nat \ {0} /\ undo' \subseteq Holdable
          /\ (holder' = Nobody => next' = 1)
      BY <1>6
    <3>2. broken' \in BOOLEAN
      BY <1>6
    <3> QED
      BY <3>1, <3>2
  <2> QED
    BY <1>1, <1>4, <1>7, <2>1, <2>2 DEF TypeOK, Results
<1>9. InJob' /\ KeysComeUp'
  BY <1>6, <1>7 DEF InJob, KeysComeUp
<1> QED
  BY <1>2, <1>3, <1>4, <1>8, <1>9 DEF Base

----------------------------------------------------------------------------
(***************************************************************************)
(* The operations of a job.                                                *)
(***************************************************************************)
\* What an operation leaves alone, and how it ends.
Within ==
    /\ holder # Nobody /\ next \in 1..Len(Ops)
    /\ UNCHANGED <<request, at, points, label, expired, cancelled, result, changes, holder, open>>
    /\ faults' = faults \/ Faulty
    /\ Done \/ Break

\* What an operation of a job must show to keep Base: the rest follows from Within.
LEMMA OperationStep ==
    ASSUME Base, Within,
           own' \in [Callers -> Screens \cup {None}], passes' \in [Callers -> BOOLEAN],
           screen' \in Screens, last' \in Screens \cup {None}, desk' \in Desks,
           undo' \subseteq Holdable, blamed' \subseteq Holdable, desk'.held \subseteq blamed' \cup undo',
           meant' \in [Callers -> Seq(SUBSET (Elements \cup {Nothing}))],
           hits' \in [Callers -> SUBSET (Nat \X (Elements \cup {Nothing}))],
           muddled' \subseteq Callers, disturbed' \subseteq Callers
    PROVE  Base'
<1>1. TypeOK /\ InScript /\ InJob /\ KeysComeUp
  BY DEF Base
<1>2. UNCHANGED <<request, at, points, label, expired, cancelled, result, changes, holder, open>>
      /\ holder # Nobody
  BY DEF Within
<1>3. InFlight' = InFlight /\ InScript' /\ \A x : Stage(x)' = Stage(x)
  BY <1>1, <1>2, CallsStay
<1>4. InJob' /\ KeysComeUp'
  BY <1>1, <1>2, <1>3 DEF InJob, KeysComeUp
<1>5. {faults', changes', faults' + changes'} \subseteq 0..MaxMishaps
  <2>1. {faults, changes, faults + changes} \subseteq 0..MaxMishaps /\ MaxMishaps \in Nat
    BY <1>1, InteractionAssumption DEF TypeOK
  <2> QED
    BY <1>2, <2>1 DEF Within, Faulty
<1>6. next' \in Nat \ {0} /\ broken' \in BOOLEAN
  <2>1. next \in Nat \ {0} /\ broken \in BOOLEAN
    BY <1>1 DEF TypeOK
  <2>2. Len(Ops) \in Nat
    BY <1>1, <1>2, JobAtWork
  <2>3. next' \in Nat \ {0}
    BY <2>1, <2>2 DEF Within, Done, Break
  <2>4. broken' \in BOOLEAN
    BY <2>1 DEF Within, Done, Break
  <2> QED
    BY <2>3, <2>4
<1>7. TypeOK'
  BY <1>1, <1>2, <1>5, <1>6 DEF TypeOK
<1> QED
  BY <1>3, <1>4, <1>7 DEF Base

\* The types of what operations change.
LEMMA StateTyped ==
    ASSUME Base
    PROVE  /\ own \in [Callers -> Screens \cup {None}] /\ passes \in [Callers -> BOOLEAN]
           /\ screen \in Screens /\ last \in Screens \cup {None} /\ desk \in Desks
           /\ undo \subseteq Holdable /\ blamed \subseteq Holdable /\ desk.held \subseteq blamed \cup undo
           /\ meant \in [Callers -> Seq(SUBSET (Elements \cup {Nothing}))]
           /\ hits \in [Callers -> SUBSET (Nat \X (Elements \cup {Nothing}))]
           /\ muddled \subseteq Callers /\ disturbed \subseteq Callers
           /\ points \in [Callers -> Seq(Int)] /\ label \in [Callers -> Int]
           /\ at \in [Callers -> Nat] /\ InFlight \subseteq Callers
BY DEF Base, TypeOK, KeysComeUp, InFlight

\* What is known of the operation that runs next.
LEMMA RunningOp ==
    ASSUME Base, NEW op, Running(op)
    PROVE  /\ holder \in Callers /\ holder \in InFlight /\ holder # Nobody /\ next \in 1..Len(Ops)
           /\ Ops[next].op = op /\ Ops[next] \in ActOps \cup TypeOps \cup LookOps
           /\ Len(Ops) \in Nat /\ Stage(holder).do = "job"
BY JobAtWork DEF Base, Running

\* Aiming keeps Base.
LEMMA AimCursorBase ==
    ASSUME Base, AimCursor
    PROVE  Within /\ Base'
<1>1. /\ holder \in Callers /\ holder \in InFlight /\ holder # Nobody /\ next \in 1..Len(Ops)
  BY RunningOp DEF AimCursor
<1>2. Within
  <2>1. UNCHANGED <<request, at, points, label, expired, cancelled, result, changes, holder, open>>
    BY DEF AimCursor, call
  <2>2. faults' = faults \/ Faulty
    BY DEF AimCursor
  <2>3. Done \/ Break
    BY DEF AimCursor
  <2> QED
    BY <1>1, <2>1, <2>2, <2>3 DEF Within
<1>3. desk' \in Desks /\ desk'.held = desk.held
  <2>1. desk \in Desks
    BY StateTyped
  <2>2. CASE desk' = desk
    BY <2>1, <2>2
  <2>3. ASSUME NEW p, Fits(p), desk' = [desk EXCEPT !.cursor = p] PROVE desk' \in Desks /\ desk'.held = desk.held
    BY <2>1, <2>3, OtherCursor DEF Fits
  <2> QED
    BY <2>2, <2>3 DEF AimCursor
<1>4. disturbed' \subseteq Callers
  BY StateTyped DEF AimCursor
<1>5. UNCHANGED <<own, passes, screen, last, undo, blamed, meant, hits, muddled>>
  BY DEF AimCursor, call
<1> QED
  BY <1>2, <1>3, <1>4, <1>5, StateTyped, OperationStep

\* What is sent is balanced, or one character.
LEMMA SentEvents ==
    ASSUME Base, Running("send"), NEW b, b = Ops[next].events
    PROVE  /\ b \in Seq(Events) /\ Balanced(b) /\ Ops[next].target \in Nat
           /\ \/ b \in Seq(KeyEvents)
              \/ \E i, j \in Nat : Ops[next] = TypeOp(i, j) /\ b = <<Char(i, j), Up("char")>>
<1>1. Ops[next].op = "send" /\ Ops[next] \in ActOps \cup TypeOps \cup LookOps
  BY RunningOp
<1>2. CASE Ops[next] \in ActOps
  <2>1. b \in Batch /\ Ops[next].target \in Nat
    BY <1>1, <1>2 DEF ActOps
  <2>2. b \in Seq(KeyEvents) /\ Balanced(b)
    BY <2>1 DEF Batch
  <2>3. b \in Seq(Events)
    BY <2>2 DEF Events
  <2> QED
    BY <2>1, <2>2, <2>3
<1>3. CASE Ops[next] \in TypeOps
  <2>1. PICK i \in Nat, j \in Nat : Ops[next] = TypeOp(i, j)
    BY <1>3 DEF TypeOps
  <2>2. b = <<Char(i, j), Up("char")>> /\ Ops[next].target = 0
    BY <2>1 DEF TypeOp, Send
  <2> DEFINE x == Char(i, j)
             y == Up("char")
  <2>3. x \in Events /\ y \in Events /\ x.event # "down" /\ y.event # "down"
    BY DEF Events, Char, Up
  <2>4. b = <<x, y>>
    BY <2>2
  <2> HIDE DEF x, y
  <2>5. b \in Seq(Events) /\ Len(b) = 2 /\ b[1] = x /\ b[2] = y
    BY <2>3, <2>4
  <2>6. \A k \in 1..2 : k = 1 \/ k = 2
    OBVIOUS
  <2>7. Balanced(b)
    BY <2>3, <2>5, <2>6 DEF Balanced
  <2> QED
    BY <2>1, <2>2, <2>5, <2>7
<1>4. CASE Ops[next] \in LookOps
  BY <1>1, <1>4 DEF LookOps, Walk, UseLabel, Capture
<1> QED
  BY <1>1, <1>2, <1>3, <1>4

\* So does SendInput, also when it injects only a beginning; it leaves the cursor.
LEMMA SendBatchBase ==
    ASSUME Base, SendBatch
    PROVE  Within /\ Base' /\ desk'.cursor = desk.cursor
<1>1. /\ holder \in Callers /\ holder \in InFlight /\ holder # Nobody /\ next \in 1..Len(Ops)
  BY RunningOp DEF SendBatch
<1> DEFINE b == Ops[next].events
<1>2. Running("send")
  BY DEF SendBatch
<1>3. b \in Seq(Events) /\ Balanced(b) /\ Ops[next].target \in Nat
  BY <1>2, SentEvents
<1>4. PICK n \in 0..Len(b) :
        /\ IF n = Len(b) THEN Done /\ UNCHANGED faults ELSE Break /\ Faulty
        /\ desk' = Injected(holder, desk, SubSeq(b, 1, n))
        /\ blamed' = (blamed \cup { b[i].key : i \in { j \in (n + 1)..Len(b) : b[j].event = "up" } })
                     \cap desk'.held
        /\ hits' = IF Ops[next].target > 0 /\ n > 0
                   THEN [hits EXCEPT ![holder] =
                             @ \cup {<<Ops[next].target, Shows[screen][desk.cursor]>>}]
                   ELSE hits
  BY DEF SendBatch
<1>5. UNCHANGED <<request, at, call, expired, cancelled, result, screen, last, changes,
                  holder, undo, open, meant, muddled>>
  BY DEF SendBatch
<1>6. Within
  BY <1>1, <1>4, <1>5 DEF Within, call
<1>7. screen \in Screens /\ desk \in Desks /\ desk.cursor \in 1..MaxPoint
  BY StateTyped, FieldsOfDesks
<1> HIDE DEF b
<1>8. /\ desk' \in Desks /\ desk'.cursor = desk.cursor
      /\ \A k \in desk'.held : k \in desk.held \/ Left(b, n, k)
  BY <1>1, <1>3, <1>4, <1>7, KeysInjected
<1>9. desk'.held \subseteq Holdable
  BY <1>8, FieldsOfDesks
<1>10. blamed' \subseteq Holdable
  BY <1>4, <1>9
<1>11. desk'.held \subseteq blamed' \cup undo'
  <2> SUFFICES ASSUME NEW k \in desk'.held, k \notin undo PROVE k \in blamed'
    BY <1>5
  <2>1. CASE k \in desk.held
    BY <1>4, <2>1, StateTyped
  <2>2. CASE Left(b, n, k)
    <3>1. PICK j \in 1..n : /\ b[j].event = "down" /\ b[j].key = k
                            /\ \A m \in (j + 1)..n : ~(b[m].event = "up" /\ b[m].key = k)
      BY <2>2 DEF Left
    <3>2. Len(b) \in Nat /\ n \in Nat /\ j \in 1..Len(b)
      BY <1>3
    <3>3. PICK m \in 1..Len(b) : j < m /\ b[m].event = "up" /\ b[m].key = b[j].key
      BY <1>3, <3>1, <3>2 DEF Balanced
    <3>4. m \in (n + 1)..Len(b)
      <4>1. m \notin (j + 1)..n
        BY <3>1, <3>3
      <4> QED
        BY <3>2, <3>3, <4>1
    <3> QED
      BY <1>4, <3>1, <3>3, <3>4
  <2> QED
    BY <1>8, <2>1, <2>2
<1>12. hits' \in [Callers -> SUBSET (Nat \X (Elements \cup {Nothing}))]
  <2>1. Shows[screen][desk.cursor] \in Elements \cup {Nothing}
    BY <1>7, InteractionAssumption
  <2>2. hits \in [Callers -> SUBSET (Nat \X (Elements \cup {Nothing}))]
    BY StateTyped
  <2> DEFINE h == <<Ops[next].target, Shows[screen][desk.cursor]>>
  <2>3. h \in Nat \X (Elements \cup {Nothing})
    BY <1>3, <2>1
  <2>4. hits' = hits \/ hits' = [hits EXCEPT ![holder] = @ \cup {h}]
    BY <1>4
  <2> HIDE DEF h
  <2> QED
    BY <1>1, <2>2, <2>3, <2>4
<1>13. disturbed' \subseteq Callers
  BY StateTyped DEF SendBatch, Interfere
<1>14. UNCHANGED <<own, passes, screen, last, undo, meant, muddled>>
  BY <1>5 DEF call
<1>15. Base'
  BY <1>6, <1>8, <1>10, <1>11, <1>12, <1>13, <1>14, StateTyped, OperationStep
<1> QED
  BY <1>6, <1>8, <1>15


\* So does a key held for the job, which types nothing.
LEMMA HoldKeyBase ==
    ASSUME Base, HoldKey
    PROVE  /\ Within /\ Base' /\ desk'.cursor = desk.cursor
           /\ \A e \in Elements : desk'.text[e] = desk.text[e] \/ desk'.text[e] = <<>>
<1>1. /\ holder \in Callers /\ holder \in InFlight /\ holder # Nobody /\ next \in 1..Len(Ops)
      /\ Ops[next].op = "hold" /\ Ops[next] \in ActOps \cup TypeOps \cup LookOps
  BY RunningOp DEF HoldKey
<1> DEFINE key == Ops[next].key
<1>2. key \in Holdable
  BY <1>1 DEF ActOps, TypeOps, TypeOp, Send, LookOps, Walk, UseLabel, Capture
<1>3. Within
  <2>1. UNCHANGED <<request, at, points, label, expired, cancelled, result, changes, holder, open>>
    BY DEF HoldKey, call
  <2>2. faults' = faults \/ Faulty
    BY DEF HoldKey
  <2>3. Done \/ Break
    BY DEF HoldKey
  <2> QED
    BY <1>1, <2>1, <2>2, <2>3 DEF Within
<1>4. screen \in Screens /\ desk \in Desks /\ undo \subseteq Holdable /\ desk.held \subseteq blamed \cup undo
  BY StateTyped
<1>5. /\ desk' \in Desks /\ desk'.cursor = desk.cursor /\ undo' \subseteq Holdable
      /\ desk'.held \subseteq blamed \cup undo'
      /\ \A e \in Elements : desk'.text[e] = desk.text[e] \/ desk'.text[e] = <<>>
  <2>1. CASE desk' = desk /\ undo' = undo
    BY <1>4, <2>1
  <2>2. CASE desk' = Injected(holder, desk, <<Down(key)>>) /\ undo' = undo \cup {key}
    <3> DEFINE b == <<Down(key)>>
    <3>1. Down(key) \in KeyEvents
      BY <1>2, Ups
    <3>2. b \in Seq(KeyEvents) /\ Len(b) = 1 /\ b[1] = Down(key) /\ SubSeq(b, 1, 1) = b
      <4>1. \A x \in KeyEvents : <<x>> \in Seq(KeyEvents) /\ Len(<<x>>) = 1 /\ <<x>>[1] = x
        OBVIOUS
      <4>2. \A q \in Seq(KeyEvents) : Len(q) = 1 => SubSeq(q, 1, 1) = q
        OBVIOUS
      <4> QED
        BY <3>1, <4>1, <4>2
    <3>3. b \in Seq(Events)
      BY <3>2 DEF Events
    <3> HIDE DEF b
    <3>4. 1 \in 0..Len(b) /\ desk' = Injected(holder, desk, SubSeq(b, 1, 1))
      <4>1. 1 \in 0..Len(b)
        BY <3>2
      <4>2. desk' = Injected(holder, desk, b)
        BY <2>2 DEF b
      <4> QED
        BY <3>2, <4>1, <4>2
    <3>5. /\ desk' \in Desks /\ desk'.cursor = desk.cursor
          /\ \A k \in desk'.held : k \in desk.held \/ Left(b, 1, k)
      BY <1>1, <1>4, <3>3, <3>4, KeysInjected
    <3>6. \A e \in Elements : desk'.text[e] = desk.text[e] \/ desk'.text[e] = <<>>
      BY <1>1, <1>4, <3>2, <3>4, TextsKept
    <3>7. \A k : Left(b, 1, k) => k = key
      BY <3>2 DEF Left, Down
    <3> HIDE DEF key
    <3>8. desk'.held \subseteq blamed \cup undo' /\ undo' \subseteq Holdable
      BY <1>2, <1>4, <2>2, <3>5, <3>7
    <3> QED
      BY <3>5, <3>6, <3>8
  <2> QED
    BY <2>1, <2>2 DEF HoldKey
<1>6. UNCHANGED <<own, passes, screen, last, blamed, meant, hits, muddled>>
  BY DEF HoldKey, call
<1>7. disturbed' \subseteq Callers
  BY StateTyped DEF HoldKey, Interfere
<1>8. Base'
  BY <1>3, <1>5, <1>6, <1>7, StateTyped, OperationStep
<1> QED
  BY <1>3, <1>5, <1>8

\* So does a walk of the screen.
LEMMA WalkScreenBase ==
    ASSUME Base, WalkScreen
    PROVE  Within /\ Base'
<1>1. /\ holder \in Callers /\ holder \in InFlight /\ holder # Nobody /\ next \in 1..Len(Ops)
  BY RunningOp DEF WalkScreen
<1>2. Within
  <2>1. UNCHANGED <<request, at, points, label, expired, cancelled, result, changes, holder, open>>
    BY DEF WalkScreen
  <2>2. faults' = faults \/ Faulty
    BY DEF WalkScreen
  <2>3. Done \/ Break
    BY DEF WalkScreen
  <2> QED
    BY <1>1, <2>1, <2>2, <2>3 DEF Within
<1>3. /\ own' \in [Callers -> Screens \cup {None}] /\ last' \in Screens \cup {None}
      /\ meant' \in [Callers -> Seq(SUBSET (Elements \cup {Nothing}))]
      /\ hits' \in [Callers -> SUBSET (Nat \X (Elements \cup {Nothing}))]
      /\ muddled' \subseteq Callers
  <2>1. CASE /\ last' = screen /\ own' = [own EXCEPT ![holder] = screen]
             /\ muddled' = (IF last' = last THEN muddled ELSE muddled \cup InFlight) \ {holder}
             /\ hits' = [hits EXCEPT ![holder] = {}] /\ meant' = [meant EXCEPT ![holder] = <<>>]
    <3>1. own' \in [Callers -> Screens \cup {None}] /\ last' \in Screens \cup {None}
      BY <2>1, StateTyped
    <3>2. muddled' \subseteq Callers
      BY <2>1, StateTyped
    <3>3. hits' \in [Callers -> SUBSET (Nat \X (Elements \cup {Nothing}))]
      BY <2>1, StateTyped
    <3>4. meant' \in [Callers -> Seq(SUBSET (Elements \cup {Nothing}))]
      <4>1. <<>> \in Seq(SUBSET (Elements \cup {Nothing}))
        OBVIOUS
      <4> QED
        BY <2>1, <4>1, StateTyped
    <3> QED
      BY <3>1, <3>2, <3>3, <3>4
  <2>2. CASE own' = [own EXCEPT ![holder] = None] /\ UNCHANGED <<last, muddled, hits, meant>>
    BY <2>2, StateTyped
  <2> QED
    BY <2>1, <2>2 DEF WalkScreen
<1>4. UNCHANGED <<passes, screen, desk, undo, blamed, disturbed>>
  BY DEF WalkScreen
<1> QED
  BY <1>2, <1>3, <1>4, StateTyped, OperationStep

\* So does the use of an element through a pattern.
LEMMA UseElementBase ==
    ASSUME Base, UseElement
    PROVE  Within /\ Base'
<1>1. /\ holder \in Callers /\ holder \in InFlight /\ holder # Nobody /\ next \in 1..Len(Ops)
  BY RunningOp DEF UseElement
<1> DEFINE l == label[holder]
<1>2. Within
  <2>1. UNCHANGED <<request, at, points, label, expired, cancelled, result, changes, holder, open>>
    BY DEF UseElement
  <2>2. faults' = faults \/ Faulty
    BY DEF UseElement
  <2>3. Done \/ Break
    BY DEF UseElement
  <2> QED
    BY <1>1, <2>1, <2>2, <2>3 DEF Within
<1>3. hits' \in [Callers -> SUBSET (Nat \X (Elements \cup {Nothing}))]
  <2>1. hits' = hits \/ (l \in DOMAIN snapshot
                          /\ hits' = [hits EXCEPT ![holder] = @ \cup {<<1, snapshot[l].el>>}])
    BY DEF UseElement
  <2>2. l \in DOMAIN snapshot => snapshot[l].el \in Elements \cup {Nothing}
    BY SnapshotTyped DEF Base
  <2> DEFINE h == <<1, snapshot[l].el>>
  <2>3. l \in DOMAIN snapshot => h \in Nat \X (Elements \cup {Nothing})
    BY <2>2
  <2>4. hits' = hits \/ (h \in Nat \X (Elements \cup {Nothing})
                          /\ hits' = [hits EXCEPT ![holder] = @ \cup {h}])
    BY <2>1, <2>3
  <2>5. hits \in [Callers -> SUBSET (Nat \X (Elements \cup {Nothing}))]
    BY StateTyped
  <2> HIDE DEF h
  <2> QED
    BY <1>1, <2>4, <2>5
<1>4. passes' \in [Callers -> BOOLEAN]
  <2>1. passes' = passes \/ \E b \in BOOLEAN : passes' = [passes EXCEPT ![holder] = b]
    <3>1. (IF Asked(holder).tool = "Assert" THEN BOOLEAN ELSE {TRUE}) \subseteq BOOLEAN
      OBVIOUS
    <3> QED
      BY <3>1 DEF UseElement
  <2> QED
    BY <2>1, StateTyped
<1>5. UNCHANGED <<own, screen, last, desk, undo, blamed, meant, muddled, disturbed>>
  BY DEF UseElement
<1> QED
  BY <1>2, <1>3, <1>4, <1>5, StateTyped, OperationStep

\* So does a capture.
LEMMA CaptureScreenBase ==
    ASSUME Base, CaptureScreen
    PROVE  Within /\ Base'
<1>1. /\ holder \in Callers /\ holder \in InFlight /\ holder # Nobody /\ next \in 1..Len(Ops)
  BY RunningOp DEF CaptureScreen
<1>2. Within
  BY <1>1 DEF CaptureScreen, Within, call
<1>3. UNCHANGED <<own, passes, screen, last, desk, undo, blamed, meant, hits, muddled, disturbed>>
  BY DEF CaptureScreen, call, history
<1> QED
  BY <1>2, <1>3, StateTyped, OperationStep

\* A window that comes to the front changes the focus of the desktop, and no more of it.
LEMMA InFrontTyped ==
    ASSUME Base, NEW s \in Screens, InFront(s)
    PROVE  /\ screen' \in Screens /\ desk' \in Desks /\ muddled' \subseteq Callers
           /\ desk'.held = desk.held /\ desk'.cursor = desk.cursor /\ desk'.text = desk.text
<1>1. desk \in Desks /\ muddled \subseteq Callers /\ InFlight \subseteq Callers
  BY StateTyped
<1>2. CASE s = screen
  BY <1>1, <1>2 DEF InFront
<1>3. CASE s # screen
  <2>1. PICK f \in Range(Shows[s]) \cup {Nothing} : desk' = [desk EXCEPT !.focus = f]
    BY <1>3 DEF InFront
  <2>2. f \in Elements \cup {Nothing}
    BY <2>1, InteractionAssumption DEF Range
  <2>3. desk' \in Desks /\ desk'.cursor = desk.cursor /\ desk'.held = desk.held /\ desk'.text = desk.text
    BY <1>1, <2>1, <2>2, OtherFocus
  <2> QED
    BY <1>1, <1>3, <2>3 DEF InFront
<1> QED
  BY <1>2, <1>3

\* What activating and resizing a window changes.
LEMMA WindowStep ==
    ASSUME Base, ActivateWindow \/ ResizeWindow
    PROVE  /\ screen' \in Screens /\ desk' \in Desks /\ muddled' \subseteq Callers
           /\ desk'.held = desk.held /\ desk'.cursor = desk.cursor /\ desk'.text = desk.text
           /\ UNCHANGED <<screen, desk, muddled>> \/ \E s \in Screens : InFront(s)
<1>1. screen \in Screens /\ desk \in Desks /\ muddled \subseteq Callers
  BY StateTyped
<1>2. UNCHANGED <<screen, desk, muddled>> \/ \E s \in Screens : InFront(s)
  <2>1. \A name : Found(name) \subseteq Screens
    BY DEF Found
  <2>2. CASE ActivateWindow
    BY <2>1, <2>2 DEF ActivateWindow
  <2>3. CASE ResizeWindow
    <3>1. \/ UNCHANGED <<screen, desk, muddled>>
          \/ \E s \in Found(Ops[next].name) : \E t \in {screen, s} :
               \/ InFront(t)
               \/ \E u \in IF t = s THEN { v \in Screens : Title[v] = Title[s] } ELSE {t} : InFront(u)
      BY <2>3 DEF ResizeWindow
    <3> QED
      BY <1>1, <2>1, <3>1
  <2> QED
    BY <2>2, <2>3
<1> QED
  BY <1>1, <1>2, InFrontTyped

\* So do both of these.
LEMMA WindowBase ==
    ASSUME Base, ActivateWindow \/ ResizeWindow
    PROVE  Within /\ Base'
<1>1. /\ holder \in Callers /\ holder \in InFlight /\ holder # Nobody /\ next \in 1..Len(Ops)
  BY RunningOp DEF ActivateWindow, ResizeWindow
<1>2. Within
  <2>1. UNCHANGED <<request, at, points, label, expired, cancelled, result, changes, holder, open>>
    BY DEF ActivateWindow, ResizeWindow, call
  <2>2. faults' = faults \/ Faulty
    BY DEF ActivateWindow, ResizeWindow
  <2>3. Done \/ Break
    BY DEF ActivateWindow, ResizeWindow
  <2> QED
    BY <1>1, <2>1, <2>2, <2>3 DEF Within
<1>3. UNCHANGED <<own, passes, last, undo, blamed, meant, hits>>
  BY DEF ActivateWindow, ResizeWindow, call
<1>4. disturbed' \subseteq Callers
  BY StateTyped DEF ActivateWindow, ResizeWindow, Interfere
<1> QED
  BY <1>2, <1>3, <1>4, StateTyped, WindowStep, OperationStep

\* So does a change of the application, which moves no call.
LEMMA AppChangesBase ==
    ASSUME Base, AppChanges
    PROVE  /\ Base' /\ UNCHANGED <<request, at, result, holder, next>>
           /\ desk'.text = desk.text /\ desk'.cursor = desk.cursor
<1>1. TypeOK /\ InScript /\ InJob /\ KeysComeUp
  BY DEF Base
<1>2. UNCHANGED <<request, at, call, expired, cancelled, result, last, faults, engine, blamed, meant, hits>>
      /\ UNCHANGED <<holder, next, undo, broken, open, points, label, own, passes>>
  BY DEF AppChanges, engine, call
<1>3. screen' \in Screens
  BY StateTyped DEF AppChanges
<1>4. desk' \in Desks /\ desk'.held = desk.held /\ desk'.text = desk.text /\ desk'.cursor = desk.cursor
  <2>1. CASE desk' = desk
    BY <2>1, StateTyped
  <2>2. CASE \E f \in (Elements \cup {Nothing}) \ {desk.focus} : desk' = [desk EXCEPT !.focus = f]
    <3>1. PICK f \in Elements \cup {Nothing} : desk' = [desk EXCEPT !.focus = f]
      BY <2>2
    <3>2. desk \in Desks
      BY StateTyped
    <3> QED
      BY <3>1, <3>2, OtherFocus
  <2> QED
    BY <2>1, <2>2 DEF AppChanges
<1>5. muddled' \subseteq Callers /\ disturbed' \subseteq Callers
  BY StateTyped DEF AppChanges
<1>6. {faults', changes', faults' + changes'} \subseteq 0..MaxMishaps
  <2>1. {faults, changes, faults + changes} \subseteq 0..MaxMishaps /\ MaxMishaps \in Nat
    BY <1>1, InteractionAssumption DEF TypeOK
  <2>2. faults' = faults /\ changes' = changes + 1 /\ faults + changes < MaxMishaps
    BY <1>2 DEF AppChanges
  <2> QED
    BY <2>1, <2>2
<1>7. InFlight' = InFlight /\ InScript' /\ \A x : Stage(x)' = Stage(x)
  BY <1>1, <1>2, CallsStay
<1>8. InJob' /\ KeysComeUp'
  BY <1>1, <1>2, <1>4, <1>7 DEF InJob, KeysComeUp
<1>9. TypeOK'
  BY <1>1, <1>2, <1>3, <1>4, <1>5, <1>6 DEF TypeOK
<1> QED
  BY <1>2, <1>4, <1>7, <1>8, <1>9 DEF Base

\* So does closing the engine.
LEMMA StillBase ==
    ASSUME Base, Close \/ UNCHANGED vars
    PROVE  Base' /\ UNCHANGED <<request, at, result, desk, holder, next>>
<1>1. TypeOK /\ InScript /\ InJob /\ KeysComeUp
  BY DEF Base
<1>2. /\ UNCHANGED <<request, at, points, label, own, passes, expired, cancelled, result>>
      /\ UNCHANGED <<screen, last, desk, faults, changes, holder, next, undo, broken>>
      /\ UNCHANGED <<blamed, meant, hits, muddled, disturbed>>
  BY DEF Close, vars, call, world, engine, history
<1>3. open' \in BOOLEAN
  BY <1>1 DEF Close, vars, engine, TypeOK
<1>4. InFlight' = InFlight /\ InScript' /\ \A x : Stage(x)' = Stage(x)
  BY <1>1, <1>2, CallsStay
<1>5. TypeOK'
  BY <1>1, <1>2, <1>3 DEF TypeOK
<1>6. InJob' /\ KeysComeUp'
  BY <1>1, <1>2, <1>4 DEF InJob, KeysComeUp
<1> QED
  BY <1>2, <1>4, <1>5, <1>6 DEF Base

----------------------------------------------------------------------------
(***************************************************************************)
(* Types, scripts and keys, in every state.                                *)
(***************************************************************************)
LEMMA InitBase == Init => Base
<1> SUFFICES ASSUME Init PROVE Base
  OBVIOUS
<1>1. InFlight = {}
  BY DEF Init, InFlight
<1>2. InScript
  BY <1>1 DEF InScript
<1>3. InJob
  BY DEF Init, InJob
<1>4. KeysComeUp
  BY DEF Init, KeysComeUp
<1>5. desk \in Desks
  <2>1. <<Nobody, 0, 1>> \in Tokens
    BY DEF Tokens
  <2> DEFINE w == <<Nobody, 0, 1>>
  <2>2. w \in Tokens
    BY <2>1
  <2> HIDE DEF w
  <2>3. [e \in Elements |-> <<w>>] \in [Elements -> Seq(Tokens)]
    BY <2>2
  <2>4. 1 \in 1..MaxPoint
    BY InteractionAssumption
  <2>5. desk = [cursor |-> 1, focus |-> Nothing, selected |-> Nothing, held |-> {},
                submitted |-> Nothing, text |-> [e \in Elements |-> <<w>>]]
    BY DEF Init, w
  <2> QED
    BY <2>3, <2>4, <2>5 DEF Desks
<1>6. TypeOK
  <2>1. /\ request \in Plans /\ at \in [Callers -> Nat]
        /\ \A c \in Callers : at[c] \in {0, 1} \cup 1..Len(Scripts[request[c]])
    BY DEF Init
  <2>2. /\ points \in [Callers -> Seq(Int)] /\ label \in [Callers -> Int]
        /\ passes \in [Callers -> BOOLEAN] /\ own \in [Callers -> Screens \cup {None}]
        /\ expired \subseteq Callers /\ cancelled \subseteq Callers
        /\ result \in [Callers -> {"none", "ok", "error", "timeout", "cancelled"}]
    BY DEF Init
  <2>3. /\ screen \in Screens /\ last \in Screens \cup {None}
        /\ holder \in Callers \cup {Nobody} /\ next \in Nat \ {0} /\ (holder = Nobody => next = 1)
        /\ undo \subseteq Holdable /\ blamed \subseteq Holdable
        /\ muddled \subseteq Callers /\ disturbed \subseteq Callers
    BY InteractionAssumption DEF Init
  <2>4. broken \in BOOLEAN /\ open \in BOOLEAN
    BY DEF Init
  <2>5. {faults, changes, faults + changes} \subseteq 0..MaxMishaps
    BY InteractionAssumption DEF Init
  <2>6. /\ meant \in [Callers -> Seq(SUBSET (Elements \cup {Nothing}))]
        /\ hits \in [Callers -> SUBSET (Nat \X (Elements \cup {Nothing}))]
    <3>1. <<>> \in Seq(SUBSET (Elements \cup {Nothing}))
      OBVIOUS
    <3> QED
      BY <3>1 DEF Init
  <2> QED
    BY <1>5, <2>1, <2>2, <2>3, <2>4, <2>5, <2>6 DEF TypeOK
<1> QED
  BY <1>2, <1>3, <1>4, <1>6 DEF Base

\* Every step keeps Base.
LEMMA NextBase == Base /\ [Next]_vars => Base'
<1> SUFFICES ASSUME Base, [Next]_vars PROVE Base'
  OBVIOUS
<1>1. ASSUME NEW c \in Callers, StartCall(c) \/ Proceed(c) \/ Expire(c) \/ Cancel(c) PROVE Base'
  <2>1. CASE StartCall(c)
    BY <2>1, StartCallBase
  <2>2. CASE Take(c)
    BY <2>2, TakeBase
  <2>3. CASE ResolveSelector(c)
    BY <2>3, ResolveSelectorBase
  <2>4. CASE Locate(c)
    BY <2>4, LocateBase
  <2>5. CASE Evaluate(c)
    BY <2>5, EvaluateBase
  <2>6. CASE Refuse(c)
    BY <2>6, RefuseBase
  <2>7. CASE Expire(c) \/ Cancel(c) \/ Begin(c)
    BY <2>7, WaitingBase
  <2> QED
    BY <1>1, <2>1, <2>2, <2>3, <2>4, <2>5, <2>6, <2>7 DEF Proceed
<1>2. CASE Operation
  <2>1. CASE AimCursor
    BY <2>1, AimCursorBase
  <2>2. CASE SendBatch
    BY <2>2, SendBatchBase
  <2>3. CASE HoldKey
    BY <2>3, HoldKeyBase
  <2>4. CASE WalkScreen
    BY <2>4, WalkScreenBase
  <2>5. CASE UseElement
    BY <2>5, UseElementBase
  <2>6. CASE CaptureScreen
    BY <2>6, CaptureScreenBase
  <2>7. CASE ActivateWindow \/ ResizeWindow
    BY <2>7, WindowBase
  <2> QED
    BY <1>2, <2>1, <2>2, <2>3, <2>4, <2>5, <2>6, <2>7 DEF Operation
<1>3. CASE EndJob
  BY <1>3, EndJobBase
<1>4. CASE AppChanges
  BY <1>4, AppChangesBase
<1>5. CASE Close \/ UNCHANGED vars
  BY <1>5, StillBase
<1> QED
  BY <1>1, <1>2, <1>3, <1>4, <1>5 DEF Next, Finished

\* Base always holds.
LEMMA AlwaysBase == Spec => []Base
BY InitBase, NextBase, PTL DEF Spec

\* No variable leaves its type, whatever the calls ask for and however they meet.
THEOREM TypeCorrect == Spec => []TypeOK
<1>1. Base => TypeOK
  BY DEF Base
<1> QED
  BY <1>1, AlwaysBase, PTL

\* No key stays down after a job: short injections, failing jobs and the jobs of other
\* calls included.
THEOREM KeysReleased == Spec => []KeysComeUp
<1>1. Base => KeysComeUp
  BY DEF Base
<1> QED
  BY <1>1, AlwaysBase, PTL

----------------------------------------------------------------------------
(***************************************************************************)
(* Text, in one piece.                                                     *)
(***************************************************************************)
TextInv == Base /\ Typist /\ TextWhole

\* A character that is where it was needs only be traced as before.
LEMMA TracedOn ==
    ASSUME TextInv, Base',
           \A e \in Elements : desk'.text[e] = desk.text[e] \/ desk'.text[e] = <<>>,
           \A t \in Seq(Tokens) : \A p \in 1..Len(t) : Traced(t, p) => Traced(t, p)'
    PROVE  TextInv'
<1>1. \A e \in Elements : desk.text[e] \in Seq(Tokens)
  BY StateTyped, FieldsOfDesks DEF TextInv
<1>2. Typist'
  <2> SUFFICES ASSUME NEW e \in Elements, NEW p \in 1..Len(desk'.text[e])
               PROVE  Traced(desk.text[e], p)'
    BY DEF Typist, Traced, Unfinished
  <2> DEFINE u == desk'.text[e]
  <2>1. u # <<>>
    <3>1. Len(<<>>) = 0 /\ 1..0 = {}
      OBVIOUS
    <3> QED
      BY <3>1
  <2>2. u = desk.text[e] /\ u \in Seq(Tokens)
    BY <1>1, <2>1
  <2>3. Traced(u, p)
    BY <2>2 DEF TextInv, Typist
  <2> HIDE DEF u
  <2>4. \A t \in Seq(Tokens) : u = t => Traced(t, p)'
    BY <2>2, <2>3 DEF u
  <2> QED
    BY <2>2, <2>4 DEF u, Traced, Unfinished
<1>3. TextWhole'
  <2> SUFFICES ASSUME NEW e \in Elements, NEW i \in DOMAIN desk'.text[e], NEW j \in DOMAIN desk'.text[e],
                      i < j, desk'.text[e][i][1] = desk'.text[e][j][1],
                      desk'.text[e][i][2] = desk'.text[e][j][2]
               PROVE  /\ desk'.text[e][i][3] < desk'.text[e][j][3]
                      /\ \A k \in i..j : /\ desk'.text[e][k][1] = desk'.text[e][i][1]
                                         /\ desk'.text[e][k][2] = desk'.text[e][i][2]
    BY DEF TextWhole
  <2>1. DOMAIN <<>> = {}
    OBVIOUS
  <2>2. desk'.text[e] = desk.text[e]
    BY <2>1
  <2> QED
    BY <2>2 DEF TextInv, TextWhole
<1> QED
  BY <1>2, <1>3 DEF TextInv

\* Who typed a character is a call.
LEMMA WhoTyped ==
    ASSUME NEW t \in Seq(Tokens), NEW p \in 1..Len(t)
    PROVE  /\ t[p][1] \in Callers \cup {Nobody} /\ t[p][2] \in Nat /\ t[p][3] \in Nat
           /\ Len(t) \in Nat /\ p \in p..Len(t)
<1>1. t[p] \in Tokens /\ Len(t) \in Nat
  OBVIOUS
<1> QED
  BY <1>1 DEF Tokens

\* Operations of a job, and what happens outside of calls.
LEMMA StageStays ==
    ASSUME Base, UNCHANGED <<request, at, result, holder>>, next' >= next,
           next' \in Nat, NEW t \in Seq(Tokens), NEW p \in 1..Len(t), Traced(t, p)
    PROVE  Traced(t, p)'
<1>1. InFlight' = InFlight
  BY CallsStay
<1>2. t[p][3] < next => t[p][3] < next'
  <2>1. t[p][3] \in Nat /\ next \in Nat
    BY WhoTyped DEF Base, TypeOK
  <2> QED
    BY <2>1
<1>3. Unfinished(t, p) => Unfinished(t, p)'
  BY <1>2 DEF Unfinished
<1>4. CASE t[p][1] = Nobody
  BY <1>4 DEF Traced
<1>5. CASE t[p][1] # Nobody
  <2> DEFINE c == t[p][1]
  <2>1. PICK q \in 1..at[c] : /\ q <= Len(Scripts[request[c]]) /\ Types(Scripts[request[c]][q], t[p][2])
                              /\ q = at[c] /\ c \in InFlight => Unfinished(t, p)
    BY <1>5 DEF Traced
  <2>2. /\ q \in 1..at'[c] /\ q <= Len(Scripts[request'[c]]) /\ Types(Scripts[request'[c]][q], t[p][2])
        /\ q = at'[c] /\ c \in InFlight' => Unfinished(t, p)'
    BY <1>1, <1>3, <2>1
  <2> QED
    BY <1>5, <2>2 DEF Traced
<1> QED
  BY <1>4, <1>5

\* Nobody's text is unfinished while no job runs.
LEMMA BeginTraced ==
    ASSUME Base, NEW c \in Callers, Begin(c),
           NEW t \in Seq(Tokens), NEW p \in 1..Len(t), Traced(t, p)
    PROVE  Traced(t, p)'
<1>1. UNCHANGED <<request, at, result>> /\ holder = Nobody
  BY DEF Begin
<1>2. InFlight' = InFlight
  BY <1>1, CallsStay
<1>3. CASE t[p][1] = Nobody
  BY <1>3 DEF Traced
<1>4. CASE t[p][1] # Nobody
  <2>1. ~Unfinished(t, p)
    BY <1>1, <1>4 DEF Unfinished
  <2> DEFINE x == t[p][1]
  <2>2. PICK q \in 1..at[x] : /\ q <= Len(Scripts[request[x]]) /\ Types(Scripts[request[x]][q], t[p][2])
                              /\ q = at[x] /\ x \in InFlight => Unfinished(t, p)
    BY <1>4 DEF Traced
  <2>3. /\ q \in 1..at'[x] /\ q <= Len(Scripts[request'[x]]) /\ Types(Scripts[request'[x]][q], t[p][2])
        /\ q = at'[x] /\ x \in InFlight' => Unfinished(t, p)'
    BY <1>1, <1>2, <2>1, <2>2
  <2> QED
    BY <1>4, <2>3 DEF Traced
<1> QED
  BY <1>3, <1>4

\* Other calls than the one that moves.
LEMMA OthersTraced ==
    ASSUME Base, request' = request, NEW c \in Callers, holder = Nobody \/ holder = c \/ UNCHANGED <<holder, next>>,
           NEW t \in Seq(Tokens), NEW p \in 1..Len(t), Traced(t, p), t[p][1] # c,
           \A x \in Callers \ {c} : at'[x] = at[x] /\ (x \in InFlight' => x \in InFlight)
    PROVE  Traced(t, p)'
<1>1. CASE t[p][1] = Nobody
  BY <1>1 DEF Traced
<1>2. CASE t[p][1] # Nobody
  <2> DEFINE x == t[p][1]
  <2>1. x \in Callers \ {c}
    BY <1>2, WhoTyped
  <2>2. PICK q \in 1..at[x] : /\ q <= Len(Scripts[request[x]]) /\ Types(Scripts[request[x]][q], t[p][2])
                              /\ q = at[x] /\ x \in InFlight => Unfinished(t, p)
    BY <1>2 DEF Traced
  <2>3. Unfinished(t, p) => Unfinished(t, p)'
    BY <1>2, <2>1 DEF Unfinished
  <2>4. /\ q \in 1..at'[x] /\ q <= Len(Scripts[request'[x]]) /\ Types(Scripts[request'[x]][q], t[p][2])
        /\ q = at'[x] /\ x \in InFlight' => Unfinished(t, p)'
    BY <2>1, <2>2, <2>3
  <2> QED
    BY <1>2, <2>4 DEF Traced
<1> QED
  BY <1>1, <1>2

\* A call that starts leaves every character traced to its stage.
LEMMA StartCallTraced ==
    ASSUME Base, NEW c \in Callers, StartCall(c),
           NEW t \in Seq(Tokens), NEW p \in 1..Len(t), Traced(t, p)
    PROVE  Traced(t, p)'
<1>1. /\ \A x \in Callers \ {c} : at'[x] = at[x] /\ result'[x] = result[x]
      /\ \A x \in InFlight' : x # c => x \in InFlight
  BY StartCallBase
<1>2. request' = request /\ at[c] = 0 /\ UNCHANGED <<holder, next>>
  BY DEF StartCall, engine
<1>3. t[p][1] # c
  <2>1. c # Nobody /\ 1..0 = {}
    BY InteractionAssumption
  <2> QED
    BY <1>2, <2>1 DEF Traced
<1> QED
  BY <1>1, <1>2, <1>3, OthersTraced

\* Outside the engine a call goes on, ends, or goes back to poll once more.
LEMMA Onward ==
    ASSUME Base, NEW c \in Callers,
           Take(c) \/ ResolveSelector(c) \/ Locate(c) \/ Evaluate(c) \/ Refuse(c)
    PROVE  /\ c \in InFlight /\ holder # c /\ Moved(c) /\ Base'
           /\ UNCHANGED <<request, desk, holder, next>>
           /\ \/ at'[c] >= at[c]
              \/ Stage(c).do = "judge"
<1>1. TypeOK /\ InScript
  BY DEF Base
<1>2. c \in InFlight /\ holder # c /\ UNCHANGED <<request, desk, holder, next>>
  BY DEF Take, ResolveSelector, Locate, Evaluate, Refuse, AtStage, world, engine
<1>3. Moved(c) /\ Base'
  BY TakeBase, ResolveSelectorBase, LocateBase, EvaluateBase, RefuseBase
<1>4. at \in [Callers -> Nat] /\ at[c] \in 1..Len(Scripts[request[c]]) /\ at[c] \in Nat
      /\ Len(Scripts[request[c]]) \in Nat
  BY <1>1, <1>2, AtWork DEF TypeOK
<1>5. ASSUME Advance(c) \/ End(c, "error") \/ Goto(c, Len(Scripts[request[c]])) PROVE at'[c] >= at[c]
  BY <1>4, <1>5 DEF Advance, End, Goto
<1>6. ASSUME Take(c) \/ ResolveSelector(c) \/ Locate(c) \/ Refuse(c) PROVE at'[c] >= at[c]
  <2>1. Advance(c) \/ End(c, "error") \/ Goto(c, Len(Scripts[request[c]]))
    BY <1>6 DEF Take, ResolveSelector, Locate, Refuse, JobOver
  <2> QED
    BY <1>5, <2>1
<1>7. Evaluate(c) => Stage(c).do = "judge"
  BY DEF Evaluate, AtStage
<1> QED
  BY <1>2, <1>3, <1>6, <1>7

\* So does a stage outside the engine.
LEMMA OutsideTraced ==
    ASSUME Base, NEW c \in Callers,
           Take(c) \/ ResolveSelector(c) \/ Locate(c) \/ Evaluate(c) \/ Refuse(c),
           NEW t \in Seq(Tokens), NEW p \in 1..Len(t), Traced(t, p)
    PROVE  Traced(t, p)'
<1>1. /\ c \in InFlight /\ holder # c /\ Moved(c) /\ Base'
      /\ UNCHANGED <<request, desk, holder, next>>
      /\ at'[c] >= at[c] \/ Stage(c).do = "judge"
  BY Onward
<1>2. /\ \A x \in Callers \ {c} : at'[x] = at[x]
      /\ \A x : x \in InFlight' => x \in InFlight
  BY <1>1, CallMoves DEF Base
<1>3. /\ c # Nobody /\ request[c] \in DOMAIN Requests /\ ~Refused(Requests[request[c]])
      /\ at[c] \in 1..Len(Scripts[request[c]]) /\ at[c] \in Nat /\ at'[c] \in Nat
      /\ Len(Scripts[request[c]]) \in Nat /\ Stage(c) = Scripts[request[c]][at[c]]
  <2>1. at'[c] \in Nat
    BY <1>1 DEF Base, TypeOK
  <2> QED
    BY <1>1, <2>1, AtWork DEF Base
<1>4. CASE t[p][1] = c
  <2>1. ~Unfinished(t, p)
    BY <1>1, <1>4 DEF Unfinished
  <2>2. PICK q \in 1..at[c] : /\ q <= Len(Scripts[request[c]]) /\ Types(Scripts[request[c]][q], t[p][2])
                              /\ q # at[c]
    BY <1>1, <1>3, <1>4, <2>1 DEF Traced
  <2>3. Stage(c).do # "judge"
    <3>1. q \in 1..Len(Scripts[request[c]])
      BY <1>3, <2>2
    <3> DEFINE S == Scripts[request[c]]
    <3>2. \A a, b \in 1..Len(S) : \A i : ~(S[a].do = "judge" /\ Types(S[b], i))
      BY <1>3, Scripted
    <3> HIDE DEF S
    <3> QED
      BY <1>3, <2>2, <3>1, <3>2 DEF S
  <2>4. q \in 1..at'[c] /\ q # at'[c]
    BY <1>1, <1>3, <2>2, <2>3
  <2>5. /\ q \in 1..at'[c] /\ q <= Len(Scripts[request'[c]]) /\ Types(Scripts[request'[c]][q], t[p][2])
        /\ q = at'[c] /\ c \in InFlight' => Unfinished(t, p)'
    BY <1>1, <2>2, <2>4
  <2> QED
    BY <1>3, <1>4, <2>5 DEF Traced
<1>5. CASE t[p][1] # c
  <2>1. request' = request /\ UNCHANGED <<holder, next>>
    BY <1>1
  <2> QED
    BY <1>2, <1>5, <2>1, OthersTraced
<1> QED
  BY <1>4, <1>5

\* So does the end of a job.
LEMMA EndJobTraced ==
    ASSUME Base, EndJob, NEW t \in Seq(Tokens), NEW p \in 1..Len(t), Traced(t, p)
    PROVE  Traced(t, p)'
<1> DEFINE c == holder
<1>1. /\ c \in InFlight /\ c \in Callers /\ c # Nobody
      /\ at[c] \in 1..Len(Scripts[request[c]]) /\ at[c] \in Nat /\ Len(Scripts[request[c]]) \in Nat
      /\ result[c] = "none" /\ at \in [Callers -> Nat] /\ result \in [Callers -> Results]
  <2>1. holder # Nobody /\ TypeOK /\ InScript /\ InJob
    BY DEF EndJob, Base
  <2>2. c \in InFlight
    BY <2>1, JobAtWork
  <2> QED
    BY <2>1, <2>2, AtWork DEF TypeOK, Results
<1>2. request' = request
  BY DEF EndJob
<1>3. Moved(c)
  BY <1>1, AdvanceMoves DEF EndJob, JobOver, Base
<1>4. /\ \A x \in Callers \ {c} : at'[x] = at[x]
      /\ \A x : x \in InFlight' => x \in InFlight
  BY <1>1, <1>2, <1>3, CallMoves DEF Base
<1>5. (at'[c] = at[c] /\ c \notin InFlight') \/ at'[c] = at[c] + 1
  <2>1. CASE \E r \in Results \ {"none"} : End(c, r)
    <3>1. at' = at /\ result'[c] # "none"
      BY <1>1, <2>1 DEF End
    <3> QED
      BY <3>1 DEF InFlight
  <2>2. CASE Goto(c, at[c] + 1)
    BY <1>1, <2>2 DEF Goto
  <2>3. End(c, "error") \/ End(c, "ok") \/ Goto(c, at[c] + 1)
    BY DEF EndJob, JobOver, Advance
  <2> QED
    BY <2>1, <2>2, <2>3 DEF Results
<1>6. CASE t[p][1] = c
  <2>1. PICK q \in 1..at[c] : q <= Len(Scripts[request[c]]) /\ Types(Scripts[request[c]][q], t[p][2])
    BY <1>1, <1>6 DEF Traced
  <2>2. q \in 1..at'[c] /\ (q = at'[c] => c \notin InFlight')
    BY <1>1, <1>5, <2>1
  <2>3. /\ q \in 1..at'[c] /\ q <= Len(Scripts[request'[c]]) /\ Types(Scripts[request'[c]][q], t[p][2])
        /\ q = at'[c] /\ c \in InFlight' => Unfinished(t, p)'
    BY <1>2, <2>1, <2>2
  <2> QED
    BY <1>1, <1>6, <2>3 DEF Traced
<1>7. CASE t[p][1] # c
  <2>1. holder = c
    OBVIOUS
  <2> HIDE DEF c
  <2> QED
    BY <1>1, <1>2, <1>4, <1>7, <2>1, OthersTraced
<1> QED
  BY <1>6, <1>7

\* A stage that types for a target types its text in order.
LEMMA TypingStage ==
    ASSUME Base, Running("send"), NEW i \in Nat, NEW j \in Nat, Ops[next] = TypeOp(i, j)
    PROVE  j = next /\ Stage(holder) \in Typings(i) /\ Types(Stage(holder), i)
<1> DEFINE st == Stage(holder)
           S == Scripts[request[holder]]
           b == <<Char(i, j), Up("char")>>
<1>1. /\ holder \in InFlight /\ next \in 1..Len(Ops) /\ Len(Ops) \in Nat /\ st.do = "job" /\ Ops = st.ops
  BY RunningOp DEF Ops
<1>2. /\ request[holder] \in DOMAIN Requests /\ ~Refused(Requests[request[holder]])
      /\ at[holder] \in 1..Len(S) /\ st = S[at[holder]]
  BY <1>1, AtWork DEF Base
<1>3. /\ Ops[next].op = "send" /\ Ops[next].events = b /\ Len(b) = 2
      /\ b[1] = Char(i, j) /\ b[1].event = "char" /\ b[1].key[1] = i
  BY DEF TypeOp, Send, Char
<1> HIDE DEF b
<1>4. Types(st, i)
  BY <1>1, <1>3 DEF Types, TypesAt
<1>5. st \in Typings(i)
  BY Zenon, <1>2, <1>4, Scripted
<1>6. st.ops[next] \in KeyOps \/ st.ops[next] = TypeOp(i, next)
  BY <1>1, <1>5 DEF Typings
<1>7. TypeOp(i, j) = TypeOp(i, next)
  BY <1>1, <1>6, CharIsNoKey, KeysAct
<1>8. j = next
  <2>1. \A k, m : TypeOp(i, j) = TypeOp(k, m) => i = k /\ j = m
    BY CharIsNoKey
  <2> QED
    BY <1>7, <2>1
<1> QED
  BY <1>4, <1>5, <1>8

\* A text stays in one piece when its last writer goes on.
Whole(t) == \A i, j \in DOMAIN t : i < j /\ t[i][1] = t[j][1] /\ t[i][2] = t[j][2] =>
                /\ t[i][3] < t[j][3]
                /\ \A k \in i..j : t[k][1] = t[i][1] /\ t[k][2] = t[i][2]

\* A text stays in one piece when what is appended goes on where it ends.
LEMMA WholeAppended ==
    ASSUME NEW t \in Seq(Tokens), NEW tok \in Tokens, Whole(t),
           \A p \in 1..Len(t) : t[p][1] = tok[1] /\ t[p][2] = tok[2] =>
               t[p][3] < tok[3] /\ \A k \in p..Len(t) : t[k][1] = tok[1] /\ t[k][2] = tok[2]
    PROVE  Whole(Append(t, tok))
<1> DEFINE u == Append(t, tok)
           n == Len(t)
<1>1. /\ n \in Nat /\ DOMAIN u = 1..(n + 1) /\ u[n + 1] = tok
      /\ \A p \in 1..n : u[p] = t[p] /\ DOMAIN t = 1..n
  OBVIOUS
<1> HIDE DEF u
<1> SUFFICES ASSUME NEW i \in 1..(n + 1), NEW j \in 1..(n + 1), i < j,
                    u[i][1] = u[j][1], u[i][2] = u[j][2]
             PROVE  /\ u[i][3] < u[j][3]
                    /\ \A k \in i..j : u[k][1] = u[i][1] /\ u[k][2] = u[i][2]
  BY <1>1 DEF Whole, u
<1>2. i \in 1..n /\ u[i] = t[i]
  BY <1>1
<1>3. CASE j \in 1..n
  <2>1. u[j] = t[j] /\ \A k \in i..j : k \in 1..n
    BY <1>1, <1>3
  <2>2. \A k \in i..j : u[k] = t[k]
    BY <1>1, <2>1
  <2>3. /\ t[i][3] < t[j][3]
        /\ \A k \in i..j : t[k][1] = t[i][1] /\ t[k][2] = t[i][2]
    BY <1>1, <1>2, <1>3, <2>1 DEF Whole
  <2> QED
    BY <1>2, <2>1, <2>2, <2>3
<1>4. CASE j = n + 1
  <2>1. u[j] = tok
    BY <1>1, <1>4
  <2>2. t[i][3] < tok[3] /\ \A k \in i..n : t[k][1] = tok[1] /\ t[k][2] = tok[2]
    BY <1>2, <2>1
  <2>3. \A k \in i..j : (k \in i..n /\ u[k] = t[k]) \/ u[k] = tok
    BY <1>1, <1>4
  <2> QED
    BY <1>2, <2>1, <2>2, <2>3
<1> QED
  BY <1>1, <1>3, <1>4

\* The text that a SendInput types ends every text it is in, and goes on where it was.
LEMMA SendBatchText ==
    ASSUME TextInv, SendBatch
    PROVE  TextInv'
<1> DEFINE c == holder
           b == Ops[next].events
<1>1. Base /\ Running("send")
  BY DEF TextInv, SendBatch
<1>2. Within /\ Base'
  BY <1>1, SendBatchBase
<1>3. c \in Callers /\ c # Nobody /\ c \in InFlight /\ next \in Nat /\ next' \in Nat /\ next' > next
      /\ UNCHANGED <<request, at, result, holder>>
  <2>1. next \in Nat /\ next' \in Nat /\ next \in 1..Len(Ops) /\ Len(Ops) \in Nat /\ c \in InFlight
    BY <1>1, <1>2, RunningOp DEF Base, TypeOK
  <2>2. next' > next
    BY <1>2, <2>1 DEF Within, Done, Break
  <2> QED
    BY <1>1, <1>2, <2>1, <2>2, RunningOp DEF Within
<1>4. screen \in Screens /\ desk \in Desks /\ \A e \in Elements : desk.text[e] \in Seq(Tokens)
  BY <1>1, StateTyped, FieldsOfDesks
<1>5. ASSUME NEW t \in Seq(Tokens), NEW p \in 1..Len(t), Traced(t, p) PROVE Traced(t, p)'
  <2>1. next' >= next
    BY <1>3
  <2> QED
    BY <1>1, <1>3, <1>5, <2>1, StageStays
<1>6. PICK n \in 0..Len(b) : desk' = Injected(c, desk, SubSeq(b, 1, n))
  BY DEF SendBatch
<1>7. CASE b \in Seq(KeyEvents)
  <2>1. \A e \in Elements : desk'.text[e] = desk.text[e] \/ desk'.text[e] = <<>>
    BY <1>3, <1>4, <1>6, <1>7, TextsKept
  <2> QED
    BY <1>2, <1>5, <2>1, TracedOn
<1>8. CASE \E i, j \in Nat : Ops[next] = TypeOp(i, j) /\ b = <<Char(i, j), Up("char")>>
  <2>1. PICK i \in Nat, j \in Nat : Ops[next] = TypeOp(i, j) /\ b = <<Char(i, j), Up("char")>>
    BY <1>8
  <2>2. j = next /\ Types(Stage(c), i)
    BY <1>1, <2>1, TypingStage
  <2> DEFINE tok == <<c, i, j>>
             S == Scripts[request[c]]
  <2>3. tok \in Tokens /\ tok[1] = c /\ tok[2] = i /\ tok[3] = j
    BY <1>3 DEF Tokens
  <2>4. \A e \in Elements : \/ desk'.text[e] = desk.text[e] \/ desk'.text[e] = <<tok>>
                            \/ desk'.text[e] = Append(desk.text[e], tok)
    <3>1. b \in Seq(Events)
      BY <1>1, SentEvents
    <3>2. Len(b) = 2 /\ b[1].event = "char" /\ b[2] = Up("char") /\ b[1].key = <<i, j>>
      BY <2>1 DEF Char
    <3>3. tok = Token(c, b[1].key[1], b[1].key[2])
      BY <3>2 DEF Token
    <3> HIDE DEF b, tok
    <3>4. \A e \in Elements : desk'.text[e] \in Grown(desk.text[e], tok)
      BY <1>3, <1>4, <1>6, <3>1, <3>2, <3>3, TextGrows
    <3> QED
      BY <3>4 DEF Grown
  <2>5. /\ request[c] \in DOMAIN Requests /\ ~Refused(Requests[request[c]])
        /\ at[c] \in 1..Len(S) /\ Len(S) \in Nat /\ at[c] \in Nat /\ Stage(c) = S[at[c]]
    BY <1>1, <1>3, AtWork DEF Base
  <2>6. \A p, q \in 1..Len(S) : Types(S[p], i) /\ Types(S[q], i) => p = q
    BY Zenon, <2>5, Scripted
  <2>7. \A x : Types(S[at[c]], x) => x = i
    <3>1. ASSUME NEW x, Types(S[at[c]], x) PROVE x \in Nat /\ S[at[c]] \in Typings(x)
      BY Zenon, <2>5, <3>1, Scripted
    <3>2. S[at[c]] \in Typings(i)
      BY <1>1, <2>1, <2>5, TypingStage
    <3> QED
      BY Zenon, <3>1, <3>2, TextIsForOne
  <2>8. InFlight' = InFlight
    BY <1>3, CallsStay
  <2> HIDE DEF tok
  <2>9. ASSUME NEW t \in Seq(Tokens), NEW p \in 1..Len(t), Traced(t, p), t[p][1] = tok[1], t[p][2] = tok[2]
        PROVE  t[p][3] < tok[3] /\ \A k \in p..Len(t) : t[k][1] = tok[1] /\ t[k][2] = tok[2]
    <3>1. PICK q \in 1..at[c] : q <= Len(S) /\ Types(S[q], i) /\ (q = at[c] => Unfinished(t, p))
      BY <1>3, <2>3, <2>9 DEF Traced
    <3>2. q = at[c]
      <4>1. q \in 1..Len(S)
        BY <2>5, <3>1
      <4> QED
        BY <2>2, <2>5, <2>6, <3>1, <4>1
    <3> QED
      BY <2>2, <2>3, <2>9, <3>1, <3>2 DEF Unfinished
  <2>10. ASSUME NEW t \in Seq(Tokens), NEW u, NEW p \in 1..Len(u), u = <<tok>> \/ u = Append(t, tok), p = Len(u)
         PROVE  Traced(u, p)'
    <3>1. u \in Seq(Tokens) /\ u[p] = tok /\ p..Len(u) = {p}
      BY <2>3, <2>10
    <3>2. Unfinished(u, p)'
      <4>1. tok[3] < next'
        BY <1>3, <2>2, <2>3
      <4> QED
        BY <1>3, <2>3, <3>1, <4>1 DEF Unfinished
    <3>3. /\ at[c] \in 1..at'[c] /\ at[c] <= Len(Scripts[request'[c]])
          /\ Types(Scripts[request'[c]][at[c]], u[p][2])
      BY <1>3, <2>2, <2>3, <2>5, <3>1
    <3> QED
      BY <1>3, <2>3, <3>1, <3>2, <3>3 DEF Traced
  <2>11. ASSUME NEW t \in Seq(Tokens), NEW p \in 1..Len(t), Traced(t, p), NEW u, u = Append(t, tok)
         PROVE  Traced(u, p)'
    <3>1. /\ u[p] = t[p] /\ Len(u) = Len(t) + 1 /\ u[Len(t) + 1] = tok /\ Len(t) \in Nat
          /\ \A k \in p..Len(u) : (k \in p..Len(t) /\ u[k] = t[k]) \/ u[k] = tok
      BY <2>3, <2>11
    <3>2. CASE t[p][1] = Nobody
      BY <2>11, <3>1, <3>2 DEF Traced
    <3>3. CASE t[p][1] # Nobody
      <4> DEFINE x == t[p][1]
      <4>1. PICK q \in 1..at[x] : /\ q <= Len(Scripts[request[x]]) /\ Types(Scripts[request[x]][q], t[p][2])
                                  /\ q = at[x] /\ x \in InFlight => Unfinished(t, p)
        BY <2>11, <3>3 DEF Traced
      <4>2. ASSUME q = at[x], x \in InFlight PROVE Unfinished(u, p)'
        <5>1. x = c /\ t[p][3] < next /\ \A k \in p..Len(t) : t[k][1] = x /\ t[k][2] = t[p][2]
          BY <4>1, <4>2 DEF Unfinished
        <5>2. t[p][2] = i
          BY <2>7, <4>1, <4>2, <5>1
        <5>3. t[p][3] < next'
          <6>1. t[p][3] \in Nat
            BY <2>11, WhoTyped
          <6> QED
            BY <1>3, <5>1, <6>1
        <5> QED
          BY <1>3, <2>3, <3>1, <5>1, <5>2, <5>3 DEF Unfinished
      <4>3. /\ q \in 1..at'[x] /\ q <= Len(Scripts[request'[x]]) /\ Types(Scripts[request'[x]][q], u[p][2])
            /\ q = at'[x] /\ x \in InFlight' => Unfinished(u, p)'
        BY <1>3, <2>8, <3>1, <4>1, <4>2
      <4> QED
        BY <3>1, <3>3, <4>3 DEF Traced
    <3> QED
      BY <3>2, <3>3
  <2>12. ASSUME NEW e \in Elements, NEW u, u = desk'.text[e]
         PROVE  Whole(u) /\ \A p \in 1..Len(u) : Traced(u, p)'
    <3> DEFINE t == desk.text[e]
    <3>1. t \in Seq(Tokens) /\ Whole(t) /\ \A p \in 1..Len(t) : Traced(t, p)
      BY <1>4 DEF TextInv, Typist, TextWhole, Whole
    <3> HIDE DEF t
    <3>2. CASE u = t
      BY <1>5, <3>1, <3>2
    <3>3. CASE u = <<tok>>
      <4>1. Len(u) = 1 /\ DOMAIN u = 1..1 /\ \A p \in 1..1 : p = 1
        BY <3>3
      <4>2. Whole(u)
        BY <4>1 DEF Whole
      <4> QED
        BY <2>10, <3>1, <3>3, <4>1, <4>2
    <3>4. CASE u = Append(t, tok)
      <4>1. Whole(u)
        BY <2>3, <2>9, <3>1, <3>4, WholeAppended
      <4>2. \A p \in 1..Len(u) : p = Len(u) \/ p \in 1..Len(t)
        BY <2>3, <3>1, <3>4
      <4> QED
        BY <2>10, <2>11, <3>1, <3>4, <4>1, <4>2
    <3> QED
      BY <2>4, <2>12, <3>2, <3>3, <3>4 DEF t
  <2>13. TextWhole'
    <3>1. \A e \in Elements : Whole(desk'.text[e])
      BY Zenon, <2>12
    <3> QED
      BY Zenon, <3>1 DEF TextWhole, Whole
  <2>14. Typist'
    BY <2>12 DEF Typist, Traced, Unfinished
  <2> QED
    BY <1>2, <2>13, <2>14 DEF TextInv
<1> QED
  BY <1>1, <1>7, <1>8, SentEvents

\* No call has typed anything at the start.
LEMMA InitText == Init => TextInv
<1> SUFFICES ASSUME Init PROVE TextInv
  OBVIOUS
<1>1. Base
  BY InitBase
<1> DEFINE w == <<Nobody, 0, 1>>
<1>2. w[1] = Nobody
  OBVIOUS
<1>3. \A e \in Elements : desk.text[e] = <<w>>
  BY DEF Init
<1> HIDE DEF w
<1>4. Len(<<w>>) = 1 /\ DOMAIN <<w>> = 1..1 /\ <<w>>[1] = w /\ \A p \in 1..1 : p = 1
  OBVIOUS
<1>5. Typist
  <2>1. \A p \in 1..Len(<<w>>) : Traced(<<w>>, p)
    BY <1>2, <1>4 DEF Traced
  <2> QED
    BY <1>3, <2>1 DEF Typist
<1>6. TextWhole
  <2>1. Whole(<<w>>)
    BY <1>4 DEF Whole
  <2> QED
    BY <1>3, <2>1 DEF TextWhole, Whole
<1> QED
  BY <1>1, <1>5, <1>6 DEF TextInv

\* Every step keeps every text in one piece.
LEMMA NextText == TextInv /\ [Next]_vars => TextInv'
<1> SUFFICES ASSUME TextInv, [Next]_vars PROVE TextInv'
  OBVIOUS
<1>1. Base /\ Base'
  BY NextBase DEF TextInv
<1>2. next \in Nat /\ next' \in Nat
  BY <1>1 DEF Base, TypeOK
<1>3. ASSUME NEW c \in Callers, StartCall(c) \/ Proceed(c) \/ Expire(c) \/ Cancel(c) PROVE TextInv'
  <2>1. desk' = desk
    BY <1>3 DEF StartCall, Proceed, Take, ResolveSelector, Locate, Evaluate, Begin, Refuse, Expire, Cancel,
                world
  <2>2. ASSUME NEW t \in Seq(Tokens), NEW p \in 1..Len(t), Traced(t, p) PROVE Traced(t, p)'
    <3>1. CASE StartCall(c)
      BY <1>1, <2>2, <3>1, StartCallTraced
    <3>2. CASE Begin(c)
      BY <1>1, <2>2, <3>2, BeginTraced
    <3>3. CASE Take(c) \/ ResolveSelector(c) \/ Locate(c) \/ Evaluate(c) \/ Refuse(c)
      BY <1>1, <2>2, <3>3, OutsideTraced
    <3>4. CASE Expire(c) \/ Cancel(c)
      <4>1. UNCHANGED <<request, at, result, holder, next>>
        BY <3>4 DEF Expire, Cancel, engine
      <4>2. next' >= next
        BY <1>2, <4>1
      <4> QED
        BY <1>1, <1>2, <2>2, <4>1, <4>2, StageStays
    <3> QED
      BY <1>3, <3>1, <3>2, <3>3, <3>4 DEF Proceed
  <2> QED
    BY <1>1, <2>1, <2>2, TracedOn
<1>4. CASE SendBatch
  BY <1>4, SendBatchText
<1>5. ASSUME Within, \A e \in Elements : desk'.text[e] = desk.text[e] \/ desk'.text[e] = <<>> PROVE TextInv'
  <2>1. UNCHANGED <<request, at, result, holder>>
    BY <1>5 DEF Within
  <2>2. next' >= next
    <3>1. Len(Ops) \in Nat /\ next \in 1..Len(Ops)
      BY <1>1, <1>5, JobAtWork DEF Base, Within
    <3> QED
      BY <1>2, <1>5, <3>1 DEF Within, Done, Break
  <2>3. ASSUME NEW t \in Seq(Tokens), NEW p \in 1..Len(t), Traced(t, p) PROVE Traced(t, p)'
    BY <1>1, <1>2, <2>1, <2>2, <2>3, StageStays
  <2> QED
    BY <1>1, <1>5, <2>3, TracedOn
<1>6. CASE HoldKey
  BY <1>1, <1>5, <1>6, HoldKeyBase
<1>7. CASE AimCursor \/ WalkScreen \/ UseElement \/ CaptureScreen \/ ActivateWindow \/ ResizeWindow
  <2>1. Within
    BY <1>1, <1>7, AimCursorBase, WalkScreenBase, UseElementBase, CaptureScreenBase, WindowBase
  <2>2. desk'.text = desk.text
    <3>1. CASE AimCursor
      <4>1. desk' = desk \/ \E p \in 1..MaxPoint : desk' = [desk EXCEPT !.cursor = p]
        BY <3>1 DEF AimCursor, Fits
      <4>2. desk \in Desks
        BY <1>1, StateTyped
      <4> QED
        BY <4>1, <4>2, OtherCursor
    <3>2. CASE WalkScreen \/ UseElement \/ CaptureScreen
      BY <3>2 DEF WalkScreen, UseElement, CaptureScreen
    <3>3. CASE ActivateWindow \/ ResizeWindow
      BY <1>1, <3>3, WindowStep
    <3> QED
      BY <1>7, <3>1, <3>2, <3>3
  <2> QED
    BY <1>5, <2>1, <2>2
<1>8. CASE EndJob
  <2>1. desk'.text = desk.text
    <3>1. desk' = desk \/ desk' = [desk EXCEPT !.held = @ \ undo]
      BY <1>8 DEF EndJob
    <3>2. desk \in Desks
      BY <1>1, StateTyped
    <3> QED
      BY <3>1, <3>2 DEF Desks
  <2> QED
    BY <1>1, <1>8, <2>1, EndJobTraced, TracedOn
<1>9. CASE AppChanges \/ Close \/ UNCHANGED vars
  <2>1. UNCHANGED <<request, at, result, holder, next>> /\ desk'.text = desk.text
    BY <1>1, <1>9, AppChangesBase, StillBase
  <2>2. next' >= next
    BY <1>2, <2>1
  <2>3. ASSUME NEW t \in Seq(Tokens), NEW p \in 1..Len(t), Traced(t, p) PROVE Traced(t, p)'
    BY <1>1, <1>2, <2>1, <2>2, <2>3, StageStays
  <2> QED
    BY <1>1, <2>1, <2>3, TracedOn
<1> QED
  BY <1>3, <1>4, <1>6, <1>7, <1>8, <1>9 DEF Next, Operation, Finished

\* What a call types stays in one piece, in order, in every field, whatever the calls
\* of other clients do in between.
THEOREM TextInOnePiece == Spec => []TextWhole
<1>1. TextInv => TextWhole
  BY DEF TextInv
<1> QED
  BY <1>1, InitText, NextText, PTL DEF Spec

----------------------------------------------------------------------------
(***************************************************************************)
(* Targets, and what acts on them.                                         *)
(***************************************************************************)
\* The points a script resolves are counted stage by stage.
LEMMA ResolvedSteps ==
    ASSUME NEW S, Len(S) \in Nat, NEW f, NEW m, Counts(S, f, 0, m)
    PROVE  \A p \in 0..Len(S) : Resolved(S)[p] = f[p]
<1> DEFINE n == Len(S)
           More(p) == IF S[p].do \in {"point", "locate"} THEN 1 ELSE 0
           Run(h) == h = [p \in 0..Len(S) |-> IF p = 0 THEN 0 ELSE h[p - 1] + More(p)]
           g == [p \in 0..n |-> f[p]]
           R == Resolved(S)
<1>1. /\ f[0] = 0 /\ \A p \in 0..n : f[p] \in Nat
      /\ \A p \in 1..n : f[p] = f[p - 1] + More(p)
  BY DEF Counts
<1>2. \A p \in 0..n : p = 0 \/ (p \in 1..n /\ p - 1 \in 0..n)
  OBVIOUS
<1>3. Run(g)
  <2> HIDE DEF More
  <2>1. \A p \in 0..n : g[p] = f[p]
    OBVIOUS
  <2>2. g = [p \in 0..n |-> g[p]]
    OBVIOUS
  <2> HIDE DEF g
  <2>3. \A p \in 0..n : g[p] = IF p = 0 THEN 0 ELSE g[p - 1] + More(p)
    BY <1>1, <1>2, <2>1
  <2>4. g = [p \in 0..n |-> IF p = 0 THEN 0 ELSE g[p - 1] + More(p)]
    BY <2>2, <2>3
  <2> QED
    BY <2>4
<1>4. Run(R)
  <2>1. R = CHOOSE h : Run(h)
    BY DEF Resolved
  <2> HIDE DEF Run, R
  <2> QED
    BY <1>3, <2>1
<1> HIDE DEF R, More, g
<1>5. R[0] = 0 /\ \A p \in 1..n : R[p] = R[p - 1] + More(p)
  <2>1. \A p \in 0..n : R[p] = IF p = 0 THEN 0 ELSE R[p - 1] + More(p)
    BY <1>4
  <2>2. 0 \in 0..n /\ \A p \in 1..n : p \in 0..n /\ p # 0
    OBVIOUS
  <2> QED
    BY <2>1, <2>2
<1> DEFINE T == { p \in Nat : p <= n => R[p] = f[p] }
<1>6. 0 \in T
  BY <1>1, <1>5
<1>7. ASSUME NEW p \in Nat, p \in T PROVE p + 1 \in T
  <2>1. p + 1 <= n => p + 1 \in 1..n /\ (p + 1) - 1 = p /\ p <= n
    OBVIOUS
  <2> QED
    BY <1>1, <1>5, <1>7, <2>1
<1> HIDE DEF T
<1>8. \A p \in Nat : p \in T
  BY <1>6, <1>7, Induction
<1> QED
  BY <1>8 DEF T, R

\* The scripts that act on targets, stage by stage.
LEMMA MovingScript ==
    ASSUME NEW n \in DOMAIN Requests, ~Refused(Requests[n]), NEW S, S = Scripts[n], Moving(S),
           NEW R, R = Resolved(S)
    PROVE  /\ Requests[n].tool # "Assert" /\ Len(S) \in Nat
           /\ R[0] = 0 /\ \A p \in 0..Len(S) : R[p] \in Nat
           /\ \A p \in 1..Len(S) :
                  /\ R[p] = R[p - 1] + IF S[p].do \in {"point", "locate"} THEN 1 ELSE 0
                  /\ S[p].do = "job" => WellAimed(S[p].ops, R[p - 1])
                  /\ S[p].do = "locate" => p > 1 /\ S[p - 1].do \in {"take", "resolve"}
                  /\ S[p].do \in {"take", "resolve"} => p < Len(S) /\ S[p + 1].do = "locate"
<1>1. Shaped(S, Requests[n].tool)
  BY ScriptShape DEF Scripts
<1>2. S \notin Look
  <2> DEFINE w == Strict(<<Walk>>)
             x == Lax(<<Walk>>)
  <2>1. S \in Look => Len(S) >= 1 /\ S[1] \in {w, x}
    BY DEF Look
  <2>2. \A st \in {w, x} : st.do = "job" /\ Len(st.ops) = 1 /\ st.ops[1].op = "walk"
    BY DEF Strict, Lax, Walk
  <2> HIDE DEF w, x
  <2>3. S \in Look => 1 \in 1..Len(S)
    <3>1. S \in Look => Len(S) \in Nat
      BY OtherScripts
    <3> QED
      BY <2>1, <3>1
  <2> QED
    BY <2>1, <2>2, <2>3 DEF Moving
<1>3. S \notin Use1 /\ S \notin Use2
  <2> DEFINE u == Strict(<<UseLabel>>)
  <2>1. u.do = "job" /\ Len(u.ops) = 1 /\ u.ops[1].op = "use"
    BY DEF Strict, UseLabel
  <2> HIDE DEF u
  <2>2. S \in Use1 => Len(S) = 2 /\ S[2] = u
    BY DEF Use1, Found1, u
  <2>3. S \in Use2 => Len(S) = 4 /\ S[3] = u
    BY DEF Use2, Found2, u
  <2>4. 1 \in 1..1 /\ 2 \in 1..2 /\ 3 \in 1..4
    OBVIOUS
  <2> QED
    BY <2>1, <2>2, <2>3, <2>4 DEF Moving
<1>4. PICK m \in Nat, y \in Nat : Acts(S, 0, m, 0, y)
  BY <1>1, <1>2, <1>3 DEF Shaped, Acting
<1>5. Requests[n].tool # "Assert" /\ Len(S) \in Nat
  BY <1>1, <1>2, <1>3 DEF Shaped, Acting
<1>6. PICK f : Counts(S, f, 0, m)
  BY <1>4 DEF Acts
<1>7. \A p \in 0..Len(S) : R[p] = f[p]
  BY <1>5, <1>6, ResolvedSteps
<1>8. 0 \in 0..Len(S) /\ \A p \in 1..Len(S) : p \in 0..Len(S) /\ p - 1 \in 0..Len(S)
  BY <1>5
<1>9. R[0] = 0 /\ \A p \in 0..Len(S) : R[p] \in Nat
  BY <1>6, <1>7, <1>8 DEF Counts
<1>10. \A p \in 1..Len(S) :
         /\ R[p] = R[p - 1] + IF S[p].do \in {"point", "locate"} THEN 1 ELSE 0
         /\ S[p].do = "job" => WellAimed(S[p].ops, R[p - 1])
  BY <1>6, <1>7, <1>8 DEF Counts
<1>11. \A p \in 1..Len(S) :
         /\ S[p].do = "locate" => p > 1 /\ S[p - 1].do \in {"take", "resolve"}
         /\ S[p].do \in {"take", "resolve"} => p < Len(S) /\ S[p + 1].do = "locate"
  BY <1>4 DEF Acts
<1> QED
  BY <1>5, <1>9, <1>10, <1>11

\* The others, stage by stage.
LEMMA LookingScript ==
    ASSUME NEW n \in DOMAIN Requests, ~Refused(Requests[n]), NEW S, S = Scripts[n], ~Moving(S)
    PROVE  /\ Len(S) \in Nat
           /\ \A p \in 1..Len(S) :
                  /\ S[p].do \notin {"point", "locate"}
                  /\ S[p].do = "job" => S[p].ops \in {<<Walk>>, <<UseLabel>>, <<Capture>>}
                  /\ S[p].do \in {"take", "resolve"} => p < Len(S) /\ Using(S[p + 1])
                  /\ S[p].do \in {"take", "resolve"} /\ p > 1 => Walking(S[p - 1]) /\ S[p - 1].strict
                  /\ S[p].do = "resolve" /\ Requests[n].tool = "Assert" => S[Len(S)].do = "judge"
                  /\ Using(S[p]) => p > 1 /\ S[p - 1].do \in {"take", "resolve"}
                  /\ S[p].do = "judge" => Walking(S[1])
<1> DEFINE w == Strict(<<Walk>>)
           x == Lax(<<Walk>>)
           u == Strict(<<UseLabel>>)
           v == Strict(<<Capture>>)
<1>1. Shaped(S, Requests[n].tool)
  BY ScriptShape DEF Scripts
<1>2. ~Acting(S, Requests[n].tool)
  <2> SUFFICES ASSUME Acting(S, Requests[n].tool) PROVE Moving(S)
    OBVIOUS
  <2>1. S \in Seq(ActStages)
    BY DEF Acting, Acts
  <2> SUFFICES ASSUME NEW p \in 1..Len(S)
               PROVE  /\ S[p].do # "judge"
                      /\ S[p].do = "job" => \A q \in 1..Len(S[p].ops) : S[p].ops[q].op \notin {"walk", "use", "capture"}
    BY DEF Moving
  <2>2. S[p] \in ActStages
    BY <2>1
  <2>3. S[p].do # "judge"
    BY <2>2, StagesOf
  <2>4. ASSUME S[p].do = "job", NEW q \in 1..Len(S[p].ops) PROVE S[p].ops[q].op \notin {"walk", "use", "capture"}
    <3>1. S[p] \in Job(ActOps) \/ S[p] \in Job(KeyOps \cup TypeOps)
      <4>1. S[p] \notin Lookups
        BY <2>4 DEF Lookups, TooLarge
      <4>2. \A i \in Nat : S[p] \in Typings(i) => S[p] \in Job(KeyOps \cup TypeOps)
        BY DEF Typings
      <4> QED
        BY <2>2, <4>1, <4>2 DEF ActStages
    <3>2. S[p].ops \in Seq(ActOps) \/ S[p].ops \in Seq(KeyOps \cup TypeOps)
      BY <3>1 DEF Job
    <3>3. S[p].ops[q] \in ActOps \cup TypeOps
      BY <2>4, <3>2, KeysAct
    <3>4. \A o \in ActOps : o.op \notin {"walk", "use", "capture"}
      BY DEF ActOps
    <3>5. \A o \in TypeOps : o.op \notin {"walk", "use", "capture"}
      BY DEF TypeOps, TypeOp, Send
    <3> QED
      BY <3>3, <3>4, <3>5
  <2> QED
    BY <2>3, <2>4
<1>3. /\ Walking(w) /\ Walking(x) /\ Using(u) /\ w.strict
      /\ w.ops = <<Walk>> /\ x.ops = <<Walk>> /\ u.ops = <<UseLabel>> /\ v.ops = <<Capture>>
      /\ w.do = "job" /\ x.do = "job" /\ u.do = "job" /\ v.do = "job" /\ Judge.do = "judge"
  BY DEF Strict, Lax, Judge, Walking, Using
<1>4. ~Using(w) /\ ~Using(x) /\ ~Using(v) /\ ~Using(Judge)
  <2>1. <<Walk>>[1] # UseLabel /\ <<Capture>>[1] # UseLabel
    BY DEF Walk, UseLabel, Capture
  <2>2. <<Walk>> # <<UseLabel>> /\ <<Capture>> # <<UseLabel>>
    BY <2>1
  <2> QED
    BY <1>3, <2>2 DEF Using
<1> HIDE DEF w, x, u, v
<1>5. \A l \in [do : {"resolve"}, target : BySelector] \cup [do : {"take"}, label : Int] :
        l.do \in {"take", "resolve"} /\ ~Using(l)
  BY DEF Using
<1>6. \A p : /\ p \in 1..1 => p = 1
             /\ p \in 1..2 => p = 1 \/ p = 2
             /\ p \in 1..4 => p = 1 \/ p = 2 \/ p = 3 \/ p = 4
  OBVIOUS
<1> DEFINE Fits1(p) ==
               /\ S[p].do \notin {"point", "locate"}
               /\ S[p].do = "job" => S[p].ops \in {<<Walk>>, <<UseLabel>>, <<Capture>>}
           Fits2(p) ==
               /\ S[p].do \in {"take", "resolve"} => p < Len(S) /\ Using(S[p + 1])
               /\ S[p].do \in {"take", "resolve"} /\ p > 1 => Walking(S[p - 1]) /\ S[p - 1].strict
               /\ S[p].do = "resolve" /\ Requests[n].tool = "Assert" => S[Len(S)].do = "judge"
           Fits3(p) ==
               /\ Using(S[p]) => p > 1 /\ S[p - 1].do \in {"take", "resolve"}
               /\ S[p].do = "judge" => Walking(S[1])
<1> SUFFICES Len(S) \in Nat /\ \A p \in 1..Len(S) : Fits1(p) /\ Fits2(p) /\ Fits3(p)
  OBVIOUS
<1>7. \A p : S[p] \in {w, x, v, u, Judge} => Fits1(p) /\ S[p].do \notin {"take", "resolve"}
  BY <1>3
<1>8. \A p : S[p].do \in {"take", "resolve"} => Fits1(p) /\ S[p].do # "judge"
  OBVIOUS
<1>9. CASE S \in Look
  <2>1. S = <<w>> \/ S = <<w, v>> \/ S = <<w, Judge>> \/ S = <<x, Judge>>
    BY <1>9 DEF Look, w, x, v
  <2>2. /\ Len(S) \in {1, 2} /\ S[1] \in {w, x} /\ (Len(S) = 2 => S[2] \in {v, Judge})
    BY <2>1
  <2>3. \A p \in 1..Len(S) : S[p] \in {w, x, v, Judge}
    BY <1>6, <2>2
  <2>4. \A p \in 1..Len(S) : Fits1(p) /\ S[p].do \notin {"take", "resolve"} /\ ~Using(S[p])
    BY <1>4, <1>7, <2>3
  <2>5. Walking(S[1])
    BY <1>3, <2>2
  <2>6. Len(S) \in Nat
    BY <2>2
  <2> HIDE DEF Fits1
  <2> QED
    BY <2>4, <2>5, <2>6
<1>10. CASE S \in Use1
  <2>1. PICK l \in [do : {"resolve"}, target : BySelector] \cup [do : {"take"}, label : Int] : S = <<l, u>>
    BY <1>10 DEF Use1, Found1, u
  <2>2. Len(S) = 2 /\ S[1] = l /\ S[2] = u
    BY <2>1
  <2>3. Requests[n].tool # "Assert" \/ S \in Use2 \/ S \in Look
    BY <1>1, <1>2 DEF Shaped
  <2>4. S \notin Use2 /\ S \notin Look
    <3>1. S \in Use2 => Len(S) = 4
      BY DEF Use2, Found2
    <3>2. S \in Look => S[1] \in {w, x}
      BY DEF Look, w, x
    <3>3. l \notin {w, x}
      BY <1>3, <1>5
    <3> QED
      BY <2>2, <3>1, <3>2, <3>3
  <2>5. S[1].do \in {"take", "resolve"} /\ ~Using(S[1]) /\ Using(S[2]) /\ S[2].do = "job"
    BY <1>3, <1>5, <2>2
  <2>6. Fits1(1) /\ Fits1(2) /\ S[1].do # "judge" /\ S[2].do # "judge"
    BY <1>7, <1>8, <2>2, <2>5
  <2> HIDE DEF Fits1
  <2>7. Fits2(1) /\ Fits3(1)
    BY <2>2, <2>3, <2>4, <2>5, <2>6
  <2>8. Fits2(2) /\ Fits3(2)
    BY <2>2, <2>5, <2>6
  <2> HIDE DEF Fits2, Fits3
  <2> QED
    BY <1>6, <2>2, <2>6, <2>7, <2>8
<1>11. CASE S \in Use2
  <2>1. PICK l \in [do : {"resolve"}, target : BySelector] : S = <<w, l, u, Judge>>
    BY <1>11 DEF Use2, Found2, w, u
  <2>2. Len(S) = 4 /\ S[1] = w /\ S[2] = l /\ S[3] = u /\ S[4] = Judge
    BY <2>1
  <2>3. l.do = "resolve" /\ ~Using(l)
    BY <1>5
  <2>4. Fits1(1) /\ Fits1(2) /\ Fits1(3) /\ Fits1(4)
    BY <1>7, <1>8, <2>2, <2>3
  <2> HIDE DEF Fits1
  <2>5. Fits2(1) /\ Fits3(1) /\ Fits2(4) /\ Fits3(4)
    BY <1>3, <1>4, <2>2
  <2>6. Fits2(2) /\ Fits3(2)
    BY <1>3, <2>2, <2>3
  <2>7. Fits2(3) /\ Fits3(3)
    BY <1>3, <2>2, <2>3
  <2> HIDE DEF Fits2, Fits3
  <2> QED
    BY <1>6, <2>2, <2>4, <2>5, <2>6, <2>7
<1> QED
  BY <1>1, <1>2, <1>9, <1>10, <1>11 DEF Shaped

\* The inductive invariant of what acts on targets.
MeantInv == Base /\ AtHand /\ \A c \in Callers : Meant(c)

\* What others do leaves a call with what it means, or muddles it.
LEMMA OthersMeant ==
    ASSUME NEW x \in Callers, Meant(x), request' = request, at'[x] = at[x],
           points'[x] = points[x], label'[x] = label[x], meant'[x] = meant[x], hits'[x] = hits[x],
           x \in InFlight' => x \in InFlight,
           x \notin muddled' => x \notin muddled,
           x \notin muddled' /\ x \in InFlight' => screen' = screen /\ last' = last
    PROVE  Meant(x)'
<1>1. Stage(x)' = Stage(x)
  BY DEF Stage
<1>2. Reckoned(x) => Reckoned(x)'
  BY <1>1 DEF Reckoned
<1>3. screen' = screen /\ last' = last /\ Current(x) => Current(x)'
  <2>1. last' = last => snapshot' = snapshot
    BY DEF snapshot
  <2> HIDE DEF snapshot
  <2> QED
    BY <1>1, <2>1 DEF Current
<1> QED
  BY <1>2, <1>3 DEF Meant

\* A call under way at a stage of its script has what that stage needs.
LEMMA MeantAtWork ==
    ASSUME MeantInv, NEW c \in InFlight, NEW S, S = Scripts[request[c]], NEW p, p = at[c],
           NEW R, R = Resolved(S)
    PROVE  /\ c \in Callers /\ request[c] \in DOMAIN Requests /\ ~Refused(Requests[request[c]])
           /\ Len(S) \in Nat /\ p \in 1..Len(S) /\ Stage(c) = S[p]
           /\ points[c] \in Seq(Int) /\ Len(points[c]) \in Nat
           /\ meant[c] \in Seq(SUBSET (Elements \cup {Nothing})) /\ Len(meant[c]) \in Nat
           /\ Moving(S) => /\ Len(points[c]) = R[p - 1]
                           /\ Len(meant[c]) = R[p - 1] + IF S[p].do = "locate" THEN 1 ELSE 0
           /\ ~Moving(S) => /\ S[p].do \in {"take", "resolve"} => meant[c] = <<>> /\ hits[c] = {}
                            /\ Using(S[p]) => Len(meant[c]) = 1
           /\ c \notin muddled => Current(c)
           /\ c \notin muddled => \A h \in hits[c] : h[1] \in DOMAIN meant[c] /\ h[2] \in meant[c][h[1]]
<1>1. TypeOK /\ InScript /\ Meant(c)
  BY DEF MeantInv, Base, InFlight
<1>2. /\ c \in Callers /\ request[c] \in DOMAIN Requests /\ ~Refused(Requests[request[c]])
      /\ Len(S) \in Nat /\ p \in 1..Len(S) /\ Stage(c) = S[p]
  BY <1>1, AtWork
<1>3. /\ points[c] \in Seq(Int) /\ Len(points[c]) \in Nat
      /\ meant[c] \in Seq(SUBSET (Elements \cup {Nothing})) /\ Len(meant[c]) \in Nat
  BY <1>1, <1>2 DEF TypeOK
<1>4. Reckoned(c) /\ (c \notin muddled => Current(c))
  BY <1>1 DEF Meant
<1>5. c \notin muddled => \A h \in hits[c] : h[1] \in DOMAIN meant[c] /\ h[2] \in meant[c][h[1]]
  BY <1>1 DEF Meant
<1>6. /\ Moving(S) => /\ Len(points[c]) = R[p - 1]
                      /\ Len(meant[c]) = R[p - 1] + IF S[p].do = "locate" THEN 1 ELSE 0
      /\ ~Moving(S) => /\ S[p].do \in {"take", "resolve"} => meant[c] = <<>> /\ hits[c] = {}
                       /\ Using(S[p]) => Len(meant[c]) = 1
  BY <1>2, <1>4 DEF Reckoned
<1> QED
  BY <1>2, <1>3, <1>4, <1>5, <1>6

\* A stage of a script that moves does not use a label in the engine.
LEMMA MovingUsesNone ==
    ASSUME NEW S, Moving(S), NEW p \in 1..Len(S)
    PROVE  ~Using(S[p])
<1>1. UseLabel.op = "use" /\ Len(<<UseLabel>>) = 1 /\ <<UseLabel>>[1] = UseLabel /\ 1 \in 1..1
  BY DEF UseLabel
<1> QED
  BY <1>1 DEF Moving, Using

\* The stage a call comes to, without a point or a label more.
LEMMA JobDone ==
    ASSUME MeantInv, NEW c \in InFlight, Stage(c).do = "job",
           Advance(c) \/ End(c, "error"),
           Walking(Stage(c)) /\ Stage(c).strict /\ Advance(c) => meant[c] = <<>> /\ hits[c] = {},
           request' = request, points'[c] = points[c], label'[c] = label[c], meant'[c] = meant[c],
           hits'[c] = hits[c], muddled' = muddled, screen' = screen, last' = last
    PROVE  Meant(c)'
<1> DEFINE S == Scripts[request[c]]
           p == at[c]
           R == Resolved(S)
<1>1. /\ c \in Callers /\ request[c] \in DOMAIN Requests /\ ~Refused(Requests[request[c]])
      /\ Len(S) \in Nat /\ p \in 1..Len(S) /\ Stage(c) = S[p]
      /\ c \notin muddled => Current(c)
      /\ c \notin muddled => \A h \in hits[c] : h[1] \in DOMAIN meant[c] /\ h[2] \in meant[c][h[1]]
  BY MeantAtWork
<1>2. Moving(S) => /\ Len(points[c]) = R[p - 1]
                   /\ Len(meant[c]) = R[p - 1] + IF S[p].do = "locate" THEN 1 ELSE 0
  BY MeantAtWork
<1>3. S[p].do = "job"
  BY <1>1
<1>4. at \in [Callers -> Nat] /\ result \in [Callers -> Results]
  BY DEF MeantInv, Base, TypeOK, Results
<1>5. CASE \E r \in {"ok", "error"} : End(c, r)
  <2>1. at' = at /\ result'[c] # "none"
    BY <1>1, <1>4, <1>5 DEF End
  <2>2. c \notin InFlight' /\ at[c] # 0
    BY <1>1, <2>1 DEF InFlight
  <2> QED
    BY <1>1, <2>1, <2>2 DEF Meant
<1>6. CASE p # Len(S) /\ Goto(c, p + 1) /\ Advance(c)
  <2>1. at'[c] = p + 1 /\ p + 1 \in 1..Len(S) /\ (p + 1) - 1 = p /\ at'[c] # 0
    BY <1>1, <1>4, <1>6 DEF Goto
  <2>2. Stage(c)' = S[p + 1]
    BY <2>1 DEF Stage
  <2>3. CASE Moving(S)
    <3>1. R[p] = R[p - 1] /\ R[p - 1] \in Nat /\ S[p + 1].do # "locate"
      <4>1. p - 1 \in 0..Len(S)
        BY <1>1
      <4>2. R[p] = R[p - 1] + 0 /\ R[p - 1] \in Nat
        BY SMTT(30), <1>1, <1>3, <2>3, <4>1, MovingScript
      <4>3. S[p + 1].do # "locate"
        <5>1. S[p + 1].do = "locate" => S[(p + 1) - 1].do \in {"take", "resolve"}
          BY <1>1, <2>1, <2>3, MovingScript
        <5> QED
          BY <1>3, <2>1, <5>1
      <4> QED
        BY <4>2, <4>3
    <3>2. ~Using(S[p + 1])
      BY <2>1, <2>3, MovingUsesNone
    <3>3. Len(points[c]) = R[p] /\ Len(meant[c]) = R[p]
      BY <1>2, <1>3, <2>3, <3>1
    <3>4. Reckoned(c)'
      BY <2>1, <2>2, <2>3, <3>1, <3>3 DEF Reckoned
    <3>5. c \notin muddled' => Current(c)'
      BY <1>1, <2>2, <3>1, <3>2 DEF Current
    <3> QED
      BY <1>1, <2>1, <3>4, <3>5 DEF Meant
  <2>4. CASE ~Moving(S)
    <3>1. /\ S[p + 1].do # "locate" /\ ~Using(S[p + 1])
          /\ S[p + 1].do \in {"take", "resolve"} => Walking(S[p]) /\ S[p].strict
      <4> p + 1 > 1
        BY <1>1
      <4> QED
        BY SMTT(30), <1>1, <1>3, <2>1, <2>4, LookingScript
    <3>2. Reckoned(c)'
      BY <1>1, <1>6, <2>1, <2>2, <2>4, <3>1 DEF Reckoned
    <3>3. c \notin muddled' => Current(c)'
      BY <1>1, <2>2, <2>4, <3>1 DEF Current
    <3> QED
      BY <1>1, <2>1, <3>2, <3>3 DEF Meant
  <2> QED
    BY <2>3, <2>4
<1> QED
  BY <1>5, <1>6 DEF Advance

\* What one more meaning leaves of a call.
LEMMA OneMore ==
    ASSUME NEW T, NEW q \in Seq(T), NEW e \in T, NEW r, r = Append(q, e)
    PROVE  /\ r \in Seq(T) /\ Len(q) \in Nat /\ Len(r) = Len(q) + 1 /\ r[Len(q) + 1] = e
           /\ \A k \in 1..Len(q) : r[k] = q[k]
           /\ \A k \in DOMAIN q : k \in DOMAIN r /\ r[k] = q[k]
           /\ \A k \in 1..Len(r) : k \in 1..Len(q) \/ k = Len(r)
OBVIOUS

\* A call that ends keeps what it has meant.
LEMMA EndMeant ==
    ASSUME MeantInv, NEW c \in InFlight, NEW r, r # "none", End(c, r),
           request' = request, meant'[c] = meant[c], hits'[c] = hits[c], muddled' = muddled
    PROVE  Meant(c)'
<1>1. /\ c \in Callers /\ at[c] # 0
      /\ c \notin muddled => \A h \in hits[c] : h[1] \in DOMAIN meant[c] /\ h[2] \in meant[c][h[1]]
  <2>1. at[c] \in 1..Len(Scripts[request[c]])
    BY MeantAtWork
  <2> QED
    BY <2>1, MeantAtWork
<1>2. at' = at /\ result'[c] # "none"
  BY <1>1 DEF End, MeantInv, Base, TypeOK
<1>3. c \notin InFlight'
  BY <1>2 DEF InFlight
<1> QED
  BY <1>1, <1>2, <1>3 DEF Meant

\* The stage after a label is given uses it.
LEMMA LabelGiven ==
    ASSUME MeantInv, NEW c \in InFlight, Stage(c).do \in {"take", "resolve"}, Advance(c),
           NEW l, NEW els \in SUBSET (Elements \cup {Nothing}), l \in DOMAIN snapshot => snapshot[l].el \in els,
           label'[c] = l, meant'[c] = Append(meant[c], els), points'[c] = points[c], hits'[c] = hits[c],
           request' = request, muddled' = muddled, screen' = screen, last' = last
    PROVE  Meant(c)'
<1> DEFINE S == Scripts[request[c]]
           p == at[c]
           R == Resolved(S)
           m == Len(meant[c])
<1>1. /\ c \in Callers /\ request[c] \in DOMAIN Requests /\ ~Refused(Requests[request[c]])
      /\ Len(S) \in Nat /\ p \in 1..Len(S) /\ Stage(c) = S[p]
      /\ meant[c] \in Seq(SUBSET (Elements \cup {Nothing})) /\ m \in Nat
      /\ c \notin muddled => Current(c)
      /\ c \notin muddled => \A h \in hits[c] : h[1] \in DOMAIN meant[c] /\ h[2] \in meant[c][h[1]]
  BY MeantAtWork
<1>2. Moving(S) => /\ Len(points[c]) = R[p - 1]
                   /\ Len(meant[c]) = R[p - 1] + IF S[p].do = "locate" THEN 1 ELSE 0
  BY MeantAtWork
<1>3. S[p].do \in {"take", "resolve"}
  BY <1>1
<1>4. at \in [Callers -> Nat] /\ result \in [Callers -> Results]
  BY DEF MeantInv, Base, TypeOK, Results
<1>5. /\ Len(meant'[c]) = m + 1 /\ meant'[c][m + 1] = els
      /\ \A k \in 1..m : meant'[c][k] = meant[c][k]
      /\ \A k \in DOMAIN meant[c] : k \in DOMAIN meant'[c] /\ meant'[c][k] = meant[c][k]
  BY <1>1, OneMore
<1>6. snapshot' = snapshot
  BY DEF snapshot
<1> HIDE DEF snapshot
<1>7. p < Len(S) /\ (Moving(S) => S[p + 1].do = "locate") /\ (~Moving(S) => Using(S[p + 1]))
  BY <1>1, <1>3, MovingScript, LookingScript
<1>8. at'[c] = p + 1 /\ (p + 1) - 1 = p /\ at'[c] # 0 /\ p + 1 \in 1..Len(S)
  BY <1>1, <1>4, <1>7 DEF Advance, Goto
<1>9. Stage(c)' = S[p + 1]
  BY <1>8 DEF Stage
<1>10. \A h \in hits'[c] : c \notin muddled' => h[1] \in DOMAIN meant'[c] /\ h[2] \in meant'[c][h[1]]
  BY <1>1, <1>5
<1>11. Reckoned(c)'
  <2>1. CASE Moving(S)
    <3>1. p - 1 \in 0..Len(S)
      BY <1>1
    <3>2. R[p] = R[p - 1] + 0 /\ R[p - 1] \in Nat
      <4>1. /\ R[p] = R[p - 1] + IF S[p].do \in {"point", "locate"} THEN 1 ELSE 0
            /\ R[p - 1] \in Nat
        BY SMTT(30), <1>1, <2>1, <3>1, MovingScript
      <4> QED
        BY <1>3, <4>1
    <3>3. Len(points[c]) = R[p] /\ Len(meant'[c]) = R[p] + 1
      <4>1. m = R[p - 1] + 0
        BY <1>2, <1>3, <2>1
      <4> QED
        BY <1>2, <1>5, <2>1, <3>2, <4>1
    <3> QED
      BY <1>7, <1>8, <1>9, <2>1, <3>3 DEF Reckoned
  <2>2. CASE ~Moving(S)
    <3>1. S[p + 1].do = "job" /\ m = 0
      <4>1. meant[c] = <<>>
        BY <1>3, <2>2, MeantAtWork
      <4> QED
        BY <1>7, <2>2, <4>1 DEF Using
    <3> QED
      BY <1>5, <1>8, <1>9, <2>2, <3>1 DEF Reckoned
  <2> QED
    BY <2>1, <2>2
<1>12. ASSUME c \notin muddled PROVE Current(c)'
  <2>1. last = screen
    BY <1>1, <1>12 DEF Current
  <2>2. Moving(S) => \A k \in 1..Len(points[c]) : Fits(points[c][k]) => Shows[screen][points[c][k]] \in meant'[c][k]
    <3> SUFFICES ASSUME Moving(S) PROVE \A k \in 1..Len(points[c]) : Fits(points[c][k]) => Shows[screen][points[c][k]] \in meant'[c][k]
      OBVIOUS
    <3>1. Len(points[c]) = m
      <4>1. p - 1 \in 0..Len(S)
        BY <1>1
      <4>2. R[p - 1] \in Nat
        BY <1>1, <4>1, MovingScript
      <4> QED
        BY <1>2, <1>3, <4>2
    <3> QED
      BY <1>1, <1>5, <1>12, <3>1 DEF Current
  <2>3. label'[c] \in DOMAIN snapshot => snapshot[label'[c]].el \in meant'[c][Len(meant'[c])]
    BY <1>5
  <2> QED
    BY <1>6, <2>1, <2>2, <2>3 DEF Current
<1> QED
  BY <1>8, <1>10, <1>11, <1>12 DEF Meant

\* A call that has resolved a point.
LEMMA PointGiven ==
    ASSUME MeantInv, NEW c \in InFlight, Stage(c).do \in {"point", "locate"}, Advance(c),
           NEW x \in Int, points'[c] = Append(points[c], x),
           meant'[c] \in Seq(SUBSET (Elements \cup {Nothing})),
           IF Stage(c).do = "locate" THEN meant'[c] = meant[c]
           ELSE \E els \in SUBSET (Elements \cup {Nothing}) : meant'[c] = Append(meant[c], els),
           c \notin muddled /\ Fits(x) => Shows[screen][x] \in meant'[c][Len(meant'[c])],
           label'[c] = label[c], hits'[c] = hits[c],
           request' = request, muddled' = muddled, screen' = screen, last' = last
    PROVE  Meant(c)'
<1> DEFINE S == Scripts[request[c]]
           p == at[c]
           R == Resolved(S)
           m == Len(meant[c])
           n == Len(points[c])
<1>1. /\ c \in Callers /\ request[c] \in DOMAIN Requests /\ ~Refused(Requests[request[c]])
      /\ Len(S) \in Nat /\ p \in 1..Len(S) /\ Stage(c) = S[p]
      /\ points[c] \in Seq(Int) /\ n \in Nat
      /\ meant[c] \in Seq(SUBSET (Elements \cup {Nothing})) /\ m \in Nat
      /\ c \notin muddled => Current(c)
      /\ c \notin muddled => \A h \in hits[c] : h[1] \in DOMAIN meant[c] /\ h[2] \in meant[c][h[1]]
  BY MeantAtWork
<1>2. Moving(S)
  BY SMTT(30), <1>1, LookingScript
<1>3. n = R[p - 1] /\ m = R[p - 1] + IF S[p].do = "locate" THEN 1 ELSE 0
  BY <1>2, MeantAtWork
<1>4. R[p] = R[p - 1] + 1 /\ R[p - 1] \in Nat
  <2>1. p - 1 \in 0..Len(S)
    BY <1>1
  <2>2. request[c] \in DOMAIN Requests /\ ~Refused(Requests[request[c]]) /\ p \in 1..Len(S)
        /\ S[p].do \in {"point", "locate"}
    BY <1>1
  <2>3. R[p] = R[p - 1] + IF S[p].do \in {"point", "locate"} THEN 1 ELSE 0
    BY SMTT(30), <1>2, <2>2, MovingScript
  <2>4. R[p - 1] \in Nat
    BY <1>2, <2>1, <2>2, MovingScript
  <2> QED
    BY <2>2, <2>3, <2>4
<1>5. at \in [Callers -> Nat] /\ result \in [Callers -> Results]
  BY DEF MeantInv, Base, TypeOK, Results
<1>6. /\ Len(points'[c]) = n + 1 /\ points'[c][n + 1] = x
      /\ \A k \in 1..n : points'[c][k] = points[c][k]
      /\ \A k \in 1..Len(points'[c]) : k \in 1..n \/ k = n + 1
  BY <1>1, OneMore
<1>7. /\ Len(meant'[c]) = n + 1
      /\ \A k \in DOMAIN meant[c] : k \in DOMAIN meant'[c] /\ meant'[c][k] = meant[c][k]
  <2>1. CASE S[p].do = "locate"
    BY <1>1, <1>3, <1>4, <2>1
  <2>2. CASE S[p].do = "point"
    <3>1. PICK els \in SUBSET (Elements \cup {Nothing}) : meant'[c] = Append(meant[c], els)
      BY <1>1, <2>2
    <3>2. /\ Len(meant'[c]) = m + 1
          /\ \A k \in DOMAIN meant[c] : k \in DOMAIN meant'[c] /\ meant'[c][k] = meant[c][k]
      BY <1>1, <3>1, OneMore
    <3>3. m = n
      BY <1>3, <1>4, <2>2
    <3> QED
      BY <3>2, <3>3
  <2> QED
    BY <1>1, <2>1, <2>2
<1>8. \A h \in hits'[c] : c \notin muddled' => h[1] \in DOMAIN meant'[c] /\ h[2] \in meant'[c][h[1]]
  BY <1>1, <1>7
<1>9. CASE p = Len(S)
  <2>1. at' = at /\ result'[c] # "none" /\ at[c] # 0
    BY <1>1, <1>5, <1>9 DEF Advance, End
  <2>2. c \notin InFlight'
    BY <2>1 DEF InFlight
  <2> QED
    BY <1>8, <2>1, <2>2 DEF Meant
<1>10. CASE p # Len(S)
  <2>1. at'[c] = p + 1 /\ p + 1 \in 1..Len(S) /\ (p + 1) - 1 = p /\ at'[c] # 0
    BY <1>1, <1>5, <1>10 DEF Advance, Goto
  <2>2. Stage(c)' = S[p + 1]
    BY <2>1 DEF Stage
  <2>3. S[p + 1].do # "locate" /\ ~Using(S[p + 1])
    <3>1. S[p + 1].do = "locate" => S[(p + 1) - 1].do \in {"take", "resolve"}
      BY <1>1, <1>2, <2>1, MovingScript
    <3>2. S[p].do \in {"point", "locate"}
      BY <1>1
    <3>3. S[p + 1].do # "locate"
      BY <2>1, <3>1, <3>2
    <3> QED
      BY <1>2, <2>1, <3>3, MovingUsesNone
  <2>4. Reckoned(c)'
    <3>1. Len(points'[c]) = R[p] /\ Len(meant'[c]) = R[p]
      BY <1>3, <1>4, <1>6, <1>7
    <3> QED
      BY <1>2, <1>4, <2>1, <2>2, <2>3, <3>1 DEF Reckoned
  <2>5. ASSUME c \notin muddled PROVE Current(c)'
    <3>1. last = screen /\ \A k \in 1..n : Fits(points[c][k]) => Shows[screen][points[c][k]] \in meant[c][k]
      BY <1>1, <1>2, <2>5 DEF Current
    <3>2. DOMAIN meant[c] = 1..m /\ \A k \in 1..n : k \in 1..m
      BY <1>1, <1>3, <1>4
    <3>3. ASSUME NEW k \in 1..Len(points'[c]), Fits(points'[c][k])
          PROVE  Shows[screen][points'[c][k]] \in meant'[c][k]
      <4>1. CASE k \in 1..n
        BY <1>6, <1>7, <3>1, <3>2, <3>3, <4>1
      <4>2. CASE k = n + 1
        BY <1>6, <1>7, <2>5, <3>3, <4>2
      <4> QED
        BY <1>6, <4>1, <4>2
    <3> QED
      BY <1>2, <2>2, <2>3, <3>1, <3>3 DEF Current, Fits
  <2> QED
    BY <1>8, <2>1, <2>4, <2>5 DEF Meant
<1> QED
  BY <1>9, <1>10

----------------------------------------------------------------------------
(***************************************************************************)
(* What each step does to what a call means: the stages outside the engine. *)
(***************************************************************************)
LEMMA TakeMeant ==
    ASSUME MeantInv, NEW c \in Callers, Take(c)
    PROVE  Meant(c)'
<1>1. TypeOK /\ InScript /\ Base'
  BY TakeBase DEF MeantInv, Base
<1>2. c \in InFlight /\ Stage(c) \in Stages
  BY <1>1, AtWork DEF Take, AtStage
<1>3. /\ Advance(c) /\ request' = request /\ hits' = hits /\ muddled' = muddled /\ screen' = screen /\ last' = last
  BY DEF Take, world
<1>4. /\ points \in [Callers -> Seq(Int)] /\ label \in [Callers -> Int]
      /\ meant \in [Callers -> Seq(SUBSET (Elements \cup {Nothing}))]
      /\ meant' \in [Callers -> Seq(SUBSET (Elements \cup {Nothing}))]
      /\ screen \in Screens
  BY <1>1 DEF TypeOK, Base
<1>5. CASE /\ AtStage(c, "point") /\ points' = [points EXCEPT ![c] = Append(@, Stage(c).at)]
           /\ Means(c, Elements \cup {Nothing}) /\ label' = label
  <2> DEFINE x == Stage(c).at
             els == Elements \cup {Nothing}
  <2>1. Stage(c).do = "point" /\ x \in Int
    BY <1>2, <1>5 DEF AtStage, Stages, Lookups, Job, Judge, TooLarge
  <2>2. points'[c] = Append(points[c], x) /\ meant'[c] = Append(meant[c], els) /\ label'[c] = label[c]
    BY <1>4, <1>5 DEF Means
  <2>3. els \in SUBSET (Elements \cup {Nothing})
    OBVIOUS
  <2>4. meant'[c][Len(meant'[c])] = els
    <3>1. meant[c] \in Seq(SUBSET (Elements \cup {Nothing}))
      BY <1>4
    <3> HIDE DEF els
    <3> QED
      BY <2>2, <2>3, <3>1, OneMore
  <2>5. Fits(x) => Shows[screen][x] \in els
    BY <1>4, InteractionAssumption DEF Fits
  <2>6. meant'[c] \in Seq(SUBSET (Elements \cup {Nothing}))
    BY <1>4
  <2> HIDE DEF x, els
  <2> QED
    BY <1>2, <1>3, <2>1, <2>2, <2>3, <2>4, <2>5, <2>6, PointGiven
<1>6. CASE /\ AtStage(c, "take") /\ label' = [label EXCEPT ![c] = Stage(c).label]
           /\ Means(c, { snapshot[l].el : l \in {Stage(c).label} \cap DOMAIN snapshot })
           /\ points' = points
  <2> DEFINE x == Stage(c).label
             els == { snapshot[l].el : l \in {x} \cap DOMAIN snapshot }
  <2>1. Stage(c).do \in {"take", "resolve"}
    BY <1>6 DEF AtStage
  <2>2. points'[c] = points[c] /\ meant'[c] = Append(meant[c], els) /\ label'[c] = x
    BY <1>4, <1>6 DEF Means
  <2>3. els \in SUBSET (Elements \cup {Nothing})
    BY <1>1, SnapshotTyped
  <2>4. x \in DOMAIN snapshot => snapshot[x].el \in els
    OBVIOUS
  <2>5. hits'[c] = hits[c]
    BY <1>3
  <2> HIDE DEF x, els
  <2> QED
    BY <1>2, <1>3, <2>1, <2>2, <2>3, <2>4, <2>5, LabelGiven
<1> QED
  BY <1>5, <1>6 DEF Take

\* A label that a selector resolves to stands for what the selector designates.
LEMMA DesignatedByLabel ==
    ASSUME TypeOK, NEW spec, spec.occurrence.index \in Int,
           NEW r, r = Resolve(spec, snapshot), r.error = "none"
    PROVE  /\ Designated(spec) \in SUBSET (Elements \cup {Nothing})
           /\ snapshot[r.label].el \in Designated(spec)
<1> DEFINE C == Chosen(spec.occurrence, Matches(spec, snapshot))
<1>1. r.label \in C
  BY SnapshotTyped, ResolvedLabel
<1>2. \A l \in C : snapshot[l].el \in Elements \cup {Nothing}
  BY SnapshotTyped DEF Matches, Chosen
<1>3. Designated(spec) = { snapshot[l].el : l \in C }
  BY DEF Designated
<1> HIDE DEF C, snapshot
<1> QED
  BY <1>1, <1>2, <1>3

\* Resolving a selector: what it designates is what the label stands for.
LEMMA ResolveSelectorMeant ==
    ASSUME MeantInv, NEW c \in Callers, ResolveSelector(c)
    PROVE  Meant(c)'
<1>1. TypeOK /\ InScript
  BY DEF MeantInv, Base
<1>2. c \in InFlight /\ Stage(c).do = "resolve" /\ Stage(c) \in Stages
  BY <1>1, AtWork DEF ResolveSelector, AtStage
<1> DEFINE spec == SelectorFromArgs(Stage(c).target.args)
           r == Resolve(spec, snapshot)
           S == Scripts[request[c]]
<1>3. spec.occurrence.index \in Int
  <2>1. Stage(c).target \in BySelector
    BY <1>2 DEF Stages, Lookups, Job, Judge, TooLarge
  <2>2. Stage(c).target.args \in Arguments
    BY <2>1 DEF BySelector
  <2> QED
    BY <2>2, IndexTyped
<1>4. /\ label \in [Callers -> Int] /\ meant \in [Callers -> Seq(SUBSET (Elements \cup {Nothing}))]
      /\ at \in [Callers -> Nat]
  BY <1>1 DEF TypeOK
<1>5. UNCHANGED <<request, points, hits, muddled, screen, last>>
  BY DEF ResolveSelector, world
<1> HIDE DEF spec, r
<1>6. CASE r.error = "none"
  <2>1. label' = [label EXCEPT ![c] = r.label] /\ Means(c, Designated(spec)) /\ Advance(c)
    BY <1>6 DEF ResolveSelector, spec, r
  <2>2. label'[c] = r.label /\ meant'[c] = Append(meant[c], Designated(spec))
    BY <1>4, <2>1 DEF Means
  <2>3. Designated(spec) \in SUBSET (Elements \cup {Nothing}) /\ snapshot[r.label].el \in Designated(spec)
    BY <1>1, <1>3, <1>6, DesignatedByLabel DEF r
  <2>4. points'[c] = points[c] /\ hits'[c] = hits[c]
    BY <1>5
  <2>5. Stage(c).do \in {"take", "resolve"}
    BY <1>2
  <2> QED
    BY <1>2, <1>5, <2>1, <2>2, <2>3, <2>4, <2>5, LabelGiven
<1>7. CASE r.error # "none"
  <2>1. /\ \/ Asked(c).tool = "Assert" /\ Goto(c, Len(S))
           \/ End(c, "error")
        /\ label' = label /\ meant' = meant
    BY <1>7 DEF ResolveSelector, spec, r
  <2>2. CASE End(c, "error")
    BY <1>2, <1>5, <2>1, <2>2, EndMeant
  <2>3. CASE Asked(c).tool = "Assert" /\ Goto(c, Len(S))
    <3>1. /\ request[c] \in DOMAIN Requests /\ ~Refused(Requests[request[c]])
          /\ Len(S) \in Nat /\ at[c] \in 1..Len(S) /\ S[at[c]].do = "resolve"
          /\ c \notin muddled => Current(c)
          /\ c \notin muddled => \A h \in hits[c] : h[1] \in DOMAIN meant[c] /\ h[2] \in meant[c][h[1]]
      BY <1>2, MeantAtWork
    <3>2. Requests[request[c]].tool = "Assert"
      BY <2>3 DEF Asked
    <3>3. ~Moving(S)
      BY <3>1, <3>2, MovingScript
    <3>4. S[Len(S)].do = "judge"
      BY <3>1, <3>2, <3>3, LookingScript
    <3>5. at'[c] = Len(S) /\ at'[c] # 0
      BY <1>4, <2>3, <3>1 DEF Goto
    <3>6. Stage(c)' = S[Len(S)]
      BY <1>5, <3>5 DEF Stage
    <3>7. Reckoned(c)'
      BY <1>5, <3>3, <3>4, <3>6 DEF Reckoned, Using
    <3>8. c \notin muddled' => Current(c)'
      BY <1>5, <3>1, <3>3, <3>4, <3>6 DEF Current, Using
    <3> QED
      BY <1>5, <2>1, <3>1, <3>5, <3>7, <3>8 DEF Meant
  <2> QED
    BY <2>1, <2>2, <2>3
<1> QED
  BY <1>6, <1>7

\* Looking up a label gives a point that shows what the label stands for.
LEMMA LocateMeant ==
    ASSUME MeantInv, NEW c \in Callers, Locate(c)
    PROVE  Meant(c)'
<1>1. TypeOK /\ InScript
  BY DEF MeantInv, Base
<1>2. c \in InFlight /\ Stage(c).do = "locate"
  BY DEF Locate, AtStage
<1>3. UNCHANGED <<request, label, meant, hits, muddled, screen, last>>
  BY DEF Locate, world, history
<1>4. points \in [Callers -> Seq(Int)] /\ meant[c] \in Seq(SUBSET (Elements \cup {Nothing}))
  BY <1>1 DEF TypeOK
<1>5. CASE label[c] \in DOMAIN snapshot
  <2> DEFINE x == snapshot[label[c]].at
  <2>1. points' = [points EXCEPT ![c] = Append(@, x)] /\ Advance(c)
    BY <1>5 DEF Locate
  <2>2. x \in Int
    BY <1>1, <1>5, SnapshotTyped
  <2>3. c \notin muddled => Shows[screen][x] \in meant[c][Len(meant[c])]
    <3> SUFFICES ASSUME c \notin muddled PROVE Shows[screen][x] \in meant[c][Len(meant[c])]
      OBVIOUS
    <3>1. Current(c)
      BY <1>2, MeantAtWork
    <3>2. last = screen /\ snapshot[label[c]].el \in meant[c][Len(meant[c])]
      BY <1>2, <1>5, <3>1 DEF Current
    <3>3. snapshot[label[c]].el = Shows[screen][x]
      BY <1>1, <1>5, <3>2, SnapshotTyped
    <3> QED
      BY <3>2, <3>3
  <2> HIDE DEF x
  <2>4. points'[c] = Append(points[c], x)
    BY <1>4, <2>1
  <2>5. Stage(c).do \in {"point", "locate"}
    BY <1>2
  <2> QED
    BY <1>2, <1>3, <1>4, <2>1, <2>2, <2>3, <2>4, <2>5, PointGiven
<1>6. CASE label[c] \notin DOMAIN snapshot
  <2>1. End(c, "error")
    BY <1>6 DEF Locate
  <2> QED
    BY <1>2, <1>3, <2>1, EndMeant
<1> QED
  BY <1>5, <1>6

\* A round of polling ends the call, or starts it over.
LEMMA EvaluateMeant ==
    ASSUME MeantInv, NEW c \in Callers, Evaluate(c)
    PROVE  Meant(c)'
<1> DEFINE S == Scripts[request[c]]
<1>1. TypeOK /\ InScript
  BY DEF MeantInv, Base
<1>2. c \in InFlight /\ Stage(c).do = "judge"
  BY DEF Evaluate, AtStage
<1>3. UNCHANGED <<request, points, label, meant, hits, muddled, screen, last>>
  BY DEF Evaluate, call, world, history
<1>4. CASE \E r \in {"ok", "error", "timeout", "cancelled"} : End(c, r)
  <2>1. PICK r \in {"ok", "error", "timeout", "cancelled"} : End(c, r)
    BY <1>4
  <2> QED
    BY <1>2, <1>3, <2>1, EndMeant
<1>5. CASE Goto(c, 1)
  <2>1. /\ request[c] \in DOMAIN Requests /\ ~Refused(Requests[request[c]])
        /\ Len(S) \in Nat /\ at[c] \in 1..Len(S) /\ S[at[c]].do = "judge"
        /\ c \notin muddled => Current(c)
        /\ c \notin muddled => \A h \in hits[c] : h[1] \in DOMAIN meant[c] /\ h[2] \in meant[c][h[1]]
    BY <1>2, MeantAtWork
  <2>2. ~Moving(S)
    BY <2>1 DEF Moving
  <2>3. Walking(S[1])
    BY <2>1, <2>2, LookingScript
  <2>4. S[1].do = "job" /\ ~Using(S[1])
    <3>1. <<Walk>>[1] # UseLabel /\ <<UseLabel>>[1] = UseLabel
      BY DEF Walk, UseLabel
    <3> QED
      BY <2>3, <3>1 DEF Walking, Using
  <2>5. at'[c] = 1
    BY <1>1, <1>5 DEF Goto, TypeOK
  <2>6. Stage(c)' = S[1]
    BY <1>3, <2>5 DEF Stage
  <2>7. Reckoned(c)'
    BY <1>3, <2>2, <2>4, <2>6 DEF Reckoned
  <2>8. c \notin muddled' => Current(c)'
    BY <1>3, <2>1, <2>2, <2>4, <2>6 DEF Current
  <2> QED
    BY <1>3, <2>1, <2>5, <2>7, <2>8 DEF Meant
<1> QED
  BY <1>4, <1>5 DEF Evaluate

\* A refused call keeps what it has meant.
LEMMA RefuseMeant ==
    ASSUME MeantInv, NEW c \in Callers, Refuse(c)
    PROVE  Meant(c)'
<1>1. c \in InFlight /\ (Stage(c).do = "job" \/ Stage(c).strict)
  <2>1. c \in InFlight /\ Stage(c).do \in {"job", "refuse"}
    BY DEF Refuse, AtStage
  <2>2. Stage(c) \in Stages
    BY <2>1, AtWork DEF MeantInv, Base
  <2>3. Stage(c).do = "refuse" => Stage(c) = TooLarge
    BY <2>2 DEF Stages, Lookups, Job, Judge
  <2> QED
    BY <2>1, <2>3 DEF TooLarge
<1>2. UNCHANGED <<request, points, label, meant, hits, muddled, screen, last>>
  BY DEF Refuse, world, history
<1>3. (Stage(c).strict /\ End(c, "error")) \/ (~Stage(c).strict /\ Advance(c))
  BY DEF Refuse, JobOver
<1>4. CASE Stage(c).strict /\ End(c, "error")
  BY <1>1, <1>2, <1>4, EndMeant
<1>5. CASE ~Stage(c).strict /\ Advance(c)
  BY <1>1, <1>2, <1>5, JobDone
<1> QED
  BY <1>3, <1>4, <1>5

\* A job that ends leaves its call at a stage that its points are enough for.
LEMMA EndJobMeant ==
    ASSUME MeantInv, EndJob, NEW c, c = holder
    PROVE  Meant(c)'
<1>1. c \in InFlight /\ Stage(c).do = "job" /\ holder # Nobody /\ next > Len(Ops)
      /\ Len(Ops) \in Nat /\ next \in Nat /\ broken \in BOOLEAN
  BY JobAtWork DEF MeantInv, Base, EndJob, TypeOK
<1>2. UNCHANGED <<request, points, label, meant, hits, muddled, screen, last>>
  BY DEF EndJob, call
<1>3. CASE End(c, "error")
  BY <1>1, <1>2, <1>3, EndMeant
<1>4. CASE ~(broken /\ Stage(c).strict) /\ Advance(c)
  <2>1. Walking(Stage(c)) /\ Stage(c).strict => meant[c] = <<>> /\ hits[c] = {}
    <3> SUFFICES ASSUME Walking(Stage(c)), Stage(c).strict
                 PROVE  meant[c] = <<>> /\ hits[c] = {}
      OBVIOUS
    <3>1. Len(Ops) = 1
      BY DEF Walking, Ops
    <3>2. next # 1
      BY <1>1, <3>1
    <3>3. ~broken
      BY <1>4
    <3> QED
      BY <1>1, <3>2, <3>3 DEF MeantInv, AtHand
  <2> QED
    BY <1>1, <1>2, <1>4, <2>1, JobDone
<1> QED
  BY <1>3, <1>4 DEF EndJob, JobOver

\* A call that starts means nothing yet.
LEMMA StartCallMeant ==
    ASSUME MeantInv, NEW c \in Callers, StartCall(c)
    PROVE  Meant(c)'
<1> DEFINE S == Scripts[request[c]]
<1>1. Base' /\ at'[c] = 1 /\ at[c] = 0 /\ Meant(c)
  BY StartCallBase DEF StartCall, MeantInv
<1>2. UNCHANGED <<request, points, label, meant, hits, screen, last>>
  BY DEF StartCall, call, world
<1>3. c \notin muddled' => last = screen
  BY DEF StartCall
<1>4. points'[c] = <<>> /\ meant'[c] = <<>> /\ hits'[c] = {}
  BY <1>1, <1>2 DEF Meant
<1>5. ASSUME c \in InFlight' PROVE Reckoned(c)' /\ (c \notin muddled' => Current(c)')
  <2>1. /\ request[c] \in DOMAIN Requests /\ ~Refused(Requests[request[c]])
        /\ 1 \in 1..Len(S) /\ Stage(c)' = S[1]
    <3>1. /\ request'[c] \in DOMAIN Requests /\ ~Refused(Requests[request'[c]])
          /\ at'[c] \in 1..Len(Scripts[request'[c]])
      <4>1. request \in Plans
        BY DEF MeantInv, Base, TypeOK
      <4>2. request[c] \in DOMAIN Requests
        BY <4>1, InteractionAssumption
      <4>3. ~Refused(Asked(c)') /\ at'[c] \in 1..Len(Scripts[request'[c]])
        BY <1>1, <1>5 DEF Base, InScript
      <4> QED
        BY <1>2, <4>2, <4>3 DEF Asked
    <3> QED
      BY <1>1, <1>2, <3>1 DEF Stage
  <2>2. ~(1 > 1) /\ 1 - 1 = 0
    OBVIOUS
  <2>3. CASE Moving(S)
    <3>1. S[1].do # "locate" /\ Resolved(S)[0] = 0
      BY <2>1, <2>2, <2>3, MovingScript
    <3>2. ~Using(S[1])
      BY <2>1, <2>3, MovingUsesNone
    <3>3. Len(points'[c]) = 0 /\ Len(meant'[c]) = 0
      BY <1>4
    <3>4. Reckoned(c)'
      BY <1>1, <1>2, <2>1, <2>2, <2>3, <3>1, <3>3 DEF Reckoned
    <3>5. c \notin muddled' => Current(c)'
      <4>1. \A k \in 1..0 : FALSE
        OBVIOUS
      <4> QED
        BY <1>2, <1>3, <2>1, <3>1, <3>2, <3>3, <4>1 DEF Current
    <3> QED
      BY <3>4, <3>5
  <2>4. CASE ~Moving(S)
    <3>1. S[1].do # "locate" /\ ~Using(S[1])
      BY <2>1, <2>2, <2>4, LookingScript
    <3>2. Reckoned(c)'
      BY <1>2, <1>4, <2>1, <2>4, <3>1 DEF Reckoned
    <3>3. c \notin muddled' => Current(c)'
      BY <1>2, <1>3, <2>1, <2>4, <3>1 DEF Current
    <3> QED
      BY <3>2, <3>3
  <2> QED
    BY <2>3, <2>4
<1> QED
  BY <1>1, <1>4, <1>5 DEF Meant

\* Outside the engine a call leaves the job of another one as it is.
LEMMA OutsideAtHand ==
    ASSUME AtHand, NEW c, holder # c,
           UNCHANGED <<request, holder, next, broken, desk, hits>>,
           \A x \in {holder} \ {Nobody} : /\ at'[x] = at[x] /\ points'[x] = points[x]
                                          /\ meant'[x] = meant[x]
    PROVE  AtHand'
<1>1. holder # Nobody => /\ Stage(holder)' = Stage(holder)
                         /\ points'[holder] = points[holder] /\ meant'[holder] = meant[holder]
  BY DEF Stage
<1>2. holder # Nobody => Ops' = Ops
  BY <1>1 DEF Ops
<1> QED
  BY <1>1, <1>2 DEF AtHand

\* The stages outside the engine keep the invariant of all calls.
LEMMA OutsideMeant ==
    ASSUME MeantInv, NEW c \in Callers,
           Take(c) \/ ResolveSelector(c) \/ Locate(c) \/ Evaluate(c) \/ Refuse(c)
    PROVE  MeantInv'
<1>1. /\ c \in InFlight /\ holder # c /\ Moved(c) /\ Base' /\ Base
      /\ UNCHANGED <<request, desk, holder, next>>
  BY Onward DEF MeantInv
<1>2. /\ \A x \in Callers \ {c} : at'[x] = at[x] /\ result'[x] = result[x]
      /\ \A x : x \in InFlight' => x \in InFlight
  BY <1>1, CallMoves DEF Base
<1>3. UNCHANGED <<hits, muddled, screen, last, broken>>
  BY DEF Take, ResolveSelector, Locate, Evaluate, Refuse, world, engine, history
<1>4. \A x \in Callers \ {c} : points'[x] = points[x] /\ label'[x] = label[x] /\ meant'[x] = meant[x]
  <2>1. /\ points \in [Callers -> Seq(Int)] /\ label \in [Callers -> Int]
        /\ meant \in [Callers -> Seq(SUBSET (Elements \cup {Nothing}))]
    BY <1>1 DEF Base, TypeOK
  <2>2. points' = points \/ \E q : points' = [points EXCEPT ![c] = q]
    BY DEF Take, ResolveSelector, Locate, Evaluate, Refuse, call
  <2>3. label' = label \/ \E q : label' = [label EXCEPT ![c] = q]
    BY DEF Take, ResolveSelector, Locate, Evaluate, Refuse, call
  <2>4. meant' = meant \/ \E q : meant' = [meant EXCEPT ![c] = q]
    BY DEF Take, ResolveSelector, Locate, Evaluate, Refuse, Means, history
  <2> QED
    BY <2>1, <2>2, <2>3, <2>4
<1>5. Meant(c)'
  BY TakeMeant, ResolveSelectorMeant, LocateMeant, EvaluateMeant, RefuseMeant
<1>6. ASSUME NEW x \in Callers, x # c PROVE Meant(x)'
  BY <1>1, <1>2, <1>3, <1>4, <1>6, OthersMeant DEF MeantInv
<1>7. AtHand'
  <2>1. holder # Nobody => holder \in Callers \ {c}
    BY <1>1, JobAtWork DEF Base
  <2> QED
    BY <1>1, <1>2, <1>3, <1>4, <2>1, OutsideAtHand DEF MeantInv
<1> QED
  BY <1>1, <1>5, <1>6, <1>7 DEF MeantInv

----------------------------------------------------------------------------
(***************************************************************************)
(* What each step does to what a call means: the operations of a job.      *)
(***************************************************************************)
LEMMA LookOp ==
    /\ Walk.op = "walk" /\ UseLabel.op = "use" /\ Capture.op = "capture"
    /\ \A o \in LookOps : Len(<<o>>) = 1 /\ <<o>>[1] = o
    /\ <<Walk>> # <<UseLabel>> /\ <<Capture>> # <<UseLabel>> /\ <<Walk>> # <<Capture>>
<1>1. Walk.op = "walk" /\ UseLabel.op = "use" /\ Capture.op = "capture"
  BY DEF Walk, UseLabel, Capture
<1>2. \A o : Len(<<o>>) = 1 /\ <<o>>[1] = o
  OBVIOUS
<1>3. Walk # UseLabel /\ Capture # UseLabel /\ Walk # Capture
  BY <1>1
<1> QED
  BY <1>1, <1>2, <1>3

\* A job that acts is of a script that moves, and is well aimed.
LEMMA MovingJob ==
    ASSUME MeantInv, NEW op \in {"aim", "send", "hold", "activate", "resize"}, Running(op)
    PROVE  /\ Moving(Scripts[request[holder]]) /\ WellAimed(Ops, Len(points[holder]))
           /\ Len(meant[holder]) = Len(points[holder])
           /\ ~Walking(Stage(holder)) /\ ~Using(Stage(holder))
<1> DEFINE S == Scripts[request[holder]]
           p == at[holder]
           R == Resolved(S)
<1>1. /\ holder \in InFlight /\ next \in 1..Len(Ops) /\ Ops[next].op = op /\ Stage(holder).do = "job"
  BY RunningOp DEF MeantInv
<1>2. /\ request[holder] \in DOMAIN Requests /\ ~Refused(Requests[request[holder]])
      /\ Len(S) \in Nat /\ p \in 1..Len(S) /\ Stage(holder) = S[p]
  BY <1>1, MeantAtWork
<1>3. Ops = S[p].ops /\ S[p].do = "job"
  BY <1>1, <1>2 DEF Ops
<1>4. Ops \notin {<<Walk>>, <<UseLabel>>, <<Capture>>}
  <2>1. \A o \in LookOps : Ops = <<o>> => Ops[next] = o
    <3>1. \A k \in 1..1 : k = 1
      OBVIOUS
    <3> QED
      BY <1>1, <3>1, LookOp
  <2>2. Walk \in LookOps /\ UseLabel \in LookOps /\ Capture \in LookOps
    BY DEF LookOps
  <2> QED
    BY <1>1, <2>1, <2>2, LookOp
<1>5. Moving(S)
  BY <1>2, <1>3, <1>4, LookingScript
<1>6. WellAimed(Ops, R[p - 1])
  BY <1>2, <1>3, <1>5, MovingScript
<1>7. Len(points[holder]) = R[p - 1] /\ Len(meant[holder]) = R[p - 1]
  <2>1. /\ Len(points[holder]) = R[p - 1]
        /\ Len(meant[holder]) = R[p - 1] + IF S[p].do = "locate" THEN 1 ELSE 0
    BY <1>1, <1>5, MeantAtWork
  <2>2. Len(points[holder]) \in Nat
    BY <1>1, MeantAtWork
  <2> QED
    BY <1>3, <2>1, <2>2
<1>8. ~Walking(Stage(holder)) /\ ~Using(Stage(holder))
  BY <1>2, <1>3, <1>4 DEF Walking, Using
<1> QED
  BY <1>5, <1>6, <1>7, <1>8

\* A job that looks, or uses a label, does nothing else.
LEMMA LookingJob ==
    ASSUME MeantInv, NEW op \in {"walk", "use", "capture"}, Running(op)
    PROVE  /\ ~Moving(Scripts[request[holder]]) /\ Len(Ops) = 1 /\ next = 1
           /\ op = "walk" <=> Walking(Stage(holder))
           /\ op = "use" <=> Using(Stage(holder))
<1> DEFINE S == Scripts[request[holder]]
           p == at[holder]
<1>1. /\ holder \in InFlight /\ next \in 1..Len(Ops) /\ Ops[next].op = op /\ Stage(holder).do = "job"
  BY RunningOp DEF MeantInv
<1>2. /\ request[holder] \in DOMAIN Requests /\ ~Refused(Requests[request[holder]])
      /\ Len(S) \in Nat /\ p \in 1..Len(S) /\ Stage(holder) = S[p]
  BY <1>1, MeantAtWork
<1>3. Ops = S[p].ops /\ S[p].do = "job"
  BY <1>1, <1>2 DEF Ops
<1>4. ~Moving(S)
  BY <1>1, <1>2, <1>3 DEF Moving
<1>5. Ops \in {<<Walk>>, <<UseLabel>>, <<Capture>>}
  BY <1>2, <1>3, <1>4, LookingScript
<1>6. Len(Ops) = 1 /\ next = 1
  <2>1. \A o \in LookOps : Len(<<o>>) = 1
    BY LookOp
  <2>2. Walk \in LookOps /\ UseLabel \in LookOps /\ Capture \in LookOps
    BY DEF LookOps
  <2>3. Len(Ops) = 1
    BY <1>5, <2>1, <2>2
  <2>4. \A k \in 1..1 : k = 1
    OBVIOUS
  <2> QED
    BY <1>1, <2>3, <2>4
<1>7. Ops[1].op = op
  BY <1>1, <1>6
<1>8. /\ Ops = <<Walk>> <=> op = "walk"
      /\ Ops = <<UseLabel>> <=> op = "use"
  <2>1. \A o \in LookOps : Ops = <<o>> => Ops[1] = o
    BY LookOp
  <2>2. Walk \in LookOps /\ UseLabel \in LookOps /\ Capture \in LookOps
    BY DEF LookOps
  <2> QED
    BY <1>5, <1>7, <2>1, <2>2, LookOp
<1> QED
  BY <1>2, <1>3, <1>4, <1>6, <1>8 DEF Walking, Using

\* An operation keeps the cursor where it is needed if the next one is aimed.
LEMMA OperationAtHand ==
    ASSUME Base, Within,
           /\ next' <= Len(Ops) /\ Ops[next].op \in {"aim", "send"} /\ Ops[next].target # 0
           => /\ Ops[next].target \in 1..Len(points[holder])
              /\ points[holder][Ops[next].target] = desk'.cursor,
           Walking(Stage(holder)) => broken' \/ (meant'[holder] = <<>> /\ hits'[holder] = {})
    PROVE  AtHand'
<1>1. UNCHANGED <<request, at, points, holder>> /\ holder # Nobody /\ next \in 1..Len(Ops)
  BY SMTT(30) DEF Within
<1>2. Stage(holder)' = Stage(holder) /\ Ops' = Ops
  BY <1>1 DEF Stage, Ops
<1>3. next \in Nat /\ Len(Ops) \in Nat /\ broken' \in BOOLEAN
  BY <1>1, JobAtWork DEF Base, TypeOK, Within, Done, Break
<1>4. next' <= Len(Ops) => next' - 1 = next
  BY <1>3 DEF Within, Done, Break
<1>5. /\ next' <= Len(Ops) /\ Ops[next' - 1].op \in {"aim", "send"} /\ Ops[next' - 1].target # 0
      => /\ Ops[next' - 1].target \in 1..Len(points[holder])
         /\ points[holder][Ops[next' - 1].target] = desk'.cursor
  BY <1>4
<1>6. Walking(Stage(holder)) /\ ~broken' => meant'[holder] = <<>> /\ hits'[holder] = {}
  OBVIOUS
<1> QED
  BY <1>1, <1>2, <1>5, <1>6 DEF AtHand

\* An operation that changes no target, and no screen without saying so.
LEMMA OperationMeant ==
    ASSUME MeantInv, Within, Base',
           UNCHANGED <<meant, hits>>,
           \/ UNCHANGED <<screen, last, muddled>>
           \/ last' = last /\ muddled' = muddled \cup InFlight
    PROVE  \A x \in Callers : Meant(x)'
<1>1. UNCHANGED <<request, at, points, label, result>>
  BY DEF Within
<1>2. InFlight' = InFlight
  BY <1>1 DEF InFlight
<1> SUFFICES ASSUME NEW x \in Callers PROVE Meant(x)'
  OBVIOUS
<1>3. x \notin muddled' => x \notin muddled
  OBVIOUS
<1>4. x \notin muddled' /\ x \in InFlight' => screen' = screen /\ last' = last
  BY <1>2
<1> QED
  BY <1>1, <1>2, <1>3, <1>4, OthersMeant DEF MeantInv

\* Aiming puts the cursor on the point of the target.
LEMMA AimCursorMeant ==
    ASSUME MeantInv, AimCursor
    PROVE  MeantInv'
<1>1. Within /\ Base' /\ Base /\ Running("aim")
  BY AimCursorBase DEF MeantInv, AimCursor
<1>2. /\ WellAimed(Ops, Len(points[holder])) /\ ~Walking(Stage(holder))
  BY <1>1, MovingJob
<1> DEFINE k == Ops[next].target
           p == points[holder][k]
<1>3. next \in 1..Len(Ops) /\ Len(Ops) \in Nat /\ Ops[next].op = "aim" /\ k \in 1..Len(points[holder])
  BY <1>1, <1>2, RunningOp DEF WellAimed
<1>4. next' <= Len(Ops) => p = desk'.cursor
  <2>1. Break => ~(next' <= Len(Ops))
    BY <1>3 DEF Break
  <2>2. Break \/ desk' = [desk EXCEPT !.cursor = p]
    BY DEF AimCursor
  <2>3. desk \in Desks
    BY <1>1, StateTyped
  <2>4. desk' = [desk EXCEPT !.cursor = p] => desk'.cursor = p
    BY <2>3 DEF Desks
  <2> QED
    BY <2>1, <2>2, <2>4
<1>5. AtHand'
  BY <1>1, <1>2, <1>3, <1>4, OperationAtHand
<1>6. \A x \in Callers : Meant(x)'
  <2>1. UNCHANGED <<meant, hits, screen, last, muddled>>
    BY DEF AimCursor
  <2> QED
    BY <1>1, <2>1, OperationMeant
<1> QED
  BY <1>1, <1>5, <1>6 DEF MeantInv

\* A click hits what its point shows, so what the call meant unless it was overtaken.
LEMMA SendBatchMeant ==
    ASSUME MeantInv, SendBatch
    PROVE  MeantInv'
<1>1. Within /\ Base' /\ Base /\ Running("send") /\ desk'.cursor = desk.cursor
  BY SendBatchBase DEF MeantInv, SendBatch
<1>2. /\ Moving(Scripts[request[holder]]) /\ WellAimed(Ops, Len(points[holder]))
      /\ Len(meant[holder]) = Len(points[holder]) /\ ~Walking(Stage(holder)) /\ ~Using(Stage(holder))
  BY <1>1, MovingJob
<1> DEFINE k == Ops[next].target
           e == Shows[screen][desk.cursor]
<1>3. /\ next \in 1..Len(Ops) /\ Len(Ops) \in Nat /\ Ops[next].op = "send"
      /\ holder \in Callers /\ holder \in InFlight /\ holder # Nobody
  BY <1>1, RunningOp
<1>4. k \in Nat
  BY <1>1, SentEvents
<1>5. k # 0 => k \in 1..Len(points[holder]) /\ points[holder][k] = desk.cursor
  <2> SUFFICES ASSUME k # 0 PROVE k \in 1..Len(points[holder]) /\ points[holder][k] = desk.cursor
    OBVIOUS
  <2>1. next > 1 /\ Ops[next - 1].op \in {"aim", "send"} /\ Ops[next - 1].target = k
    BY <1>2, <1>3 DEF WellAimed
  <2>2. next # 1 /\ next <= Len(Ops)
    BY <1>3, <2>1
  <2> QED
    BY <1>3, <2>1, <2>2 DEF MeantInv, AtHand
<1>6. AtHand'
  BY <1>1, <1>2, <1>5, OperationAtHand
<1>7. UNCHANGED <<request, at, points, label, result, meant, muddled, screen, last>>
  BY <1>1 DEF SendBatch, Within
<1>8. InFlight' = InFlight
  BY <1>7 DEF InFlight
<1>9. hits \in [Callers -> SUBSET (Nat \X (Elements \cup {Nothing}))]
  BY <1>1, StateTyped
<1>10. hits' = hits \/ (k # 0 /\ hits' = [hits EXCEPT ![holder] = @ \cup {<<k, e>>}])
  <2>1. k > 0 => k # 0
    BY <1>4
  <2> HIDE DEF k
  <2> QED
    BY <2>1 DEF SendBatch, k
<1>11. ASSUME NEW x \in Callers, hits'[x] = hits[x] PROVE Meant(x)'
  BY <1>7, <1>8, <1>11, OthersMeant DEF MeantInv
<1>12. ASSUME NEW x, x = holder, k # 0, hits'[x] = hits[x] \cup {<<k, e>>} PROVE Meant(x)'
  <2>1. Stage(x)' = Stage(x) /\ at[x] # 0
    <3>1. at[x] \in 1..Len(Scripts[request[x]])
      BY <1>3, <1>12, MeantAtWork
    <3> QED
      BY <1>7, <3>1 DEF Stage
  <2>2. Meant(x) /\ Reckoned(x) /\ (x \notin muddled => Current(x))
    BY <1>3, <1>12 DEF MeantInv, Meant
  <2>3. Reckoned(x)'
    BY <1>2, <1>7, <1>12, <2>1, <2>2 DEF Reckoned
  <2>4. x \notin muddled => Current(x)'
    <3>1. snapshot' = snapshot
      BY <1>7 DEF snapshot
    <3> HIDE DEF snapshot
    <3> QED
      BY <1>7, <2>1, <2>2, <3>1 DEF Current
  <2>5. x \notin muddled => k \in DOMAIN meant[x] /\ e \in meant[x][k]
    <3> SUFFICES ASSUME x \notin muddled PROVE k \in DOMAIN meant[x] /\ e \in meant[x][k]
      OBVIOUS
    <3>1. desk.cursor \in 1..MaxPoint
      BY <1>1, StateTyped DEF Desks
    <3>2. Fits(points[x][k]) /\ Shows[screen][points[x][k]] = e
      BY <1>5, <1>12, <3>1 DEF Fits
    <3>3. e \in meant[x][k]
      BY <1>2, <1>5, <1>12, <2>2, <3>2 DEF Current
    <3>4. DOMAIN meant[x] = 1..Len(meant[x])
      BY <1>3, <1>12, MeantAtWork
    <3> QED
      BY <1>2, <1>5, <1>12, <3>3, <3>4
  <2>6. ASSUME x \notin muddled, NEW h \in hits'[x] PROVE h[1] \in DOMAIN meant[x] /\ h[2] \in meant[x][h[1]]
    <3>1. CASE h \in hits[x]
      BY <2>2, <2>6, <3>1 DEF Meant
    <3>2. CASE h = <<k, e>>
      BY <2>5, <2>6, <3>2
    <3> QED
      BY <1>12, <2>6, <3>1, <3>2
  <2> QED
    BY <1>7, <2>1, <2>3, <2>4, <2>6 DEF Meant
<1>13. \A x \in Callers : Meant(x)'
  <2> SUFFICES ASSUME NEW x \in Callers PROVE Meant(x)'
    OBVIOUS
  <2>1. hits'[x] = hits[x] \/ (x = holder /\ k # 0 /\ hits'[x] = hits[x] \cup {<<k, e>>})
    BY <1>9, <1>10
  <2> QED
    BY <1>11, <1>12, <2>1
<1> QED
  BY <1>1, <1>6, <1>13 DEF MeantInv

\* Holding a key hits nothing.
LEMMA HoldKeyMeant ==
    ASSUME MeantInv, HoldKey
    PROVE  MeantInv'
<1>1. Within /\ Base' /\ Base /\ Running("hold")
  BY HoldKeyBase DEF MeantInv, HoldKey
<1>2. ~Walking(Stage(holder)) /\ Ops[next].op = "hold"
  BY <1>1, MovingJob, RunningOp
<1>3. AtHand'
  BY <1>1, <1>2, OperationAtHand
<1>4. UNCHANGED <<meant, hits, screen, last, muddled>>
  BY DEF HoldKey
<1> QED
  BY <1>1, <1>3, <1>4, OperationMeant DEF MeantInv

\* Nor does a capture.
LEMMA CaptureScreenMeant ==
    ASSUME MeantInv, CaptureScreen
    PROVE  MeantInv'
<1>1. Within /\ Base' /\ Base /\ Running("capture")
  BY CaptureScreenBase DEF MeantInv, CaptureScreen
<1>2. ~Walking(Stage(holder)) /\ Ops[next].op = "capture"
  BY <1>1, LookingJob, RunningOp
<1>3. AtHand'
  BY <1>1, <1>2, OperationAtHand
<1>4. UNCHANGED <<meant, hits, screen, last, muddled>>
  BY DEF CaptureScreen, history
<1> QED
  BY <1>1, <1>3, <1>4, OperationMeant DEF MeantInv

\* A window that comes to the front overtakes every call under way.
LEMMA WindowMeant ==
    ASSUME MeantInv, ActivateWindow \/ ResizeWindow
    PROVE  MeantInv'
<1>1. Within /\ Base' /\ Base
  BY WindowBase DEF MeantInv
<1>2. PICK op \in {"activate", "resize"} : Running(op)
  BY DEF ActivateWindow, ResizeWindow
<1>3. ~Walking(Stage(holder)) /\ Ops[next].op = op
  BY <1>1, <1>2, MovingJob, RunningOp
<1>4. AtHand'
  BY <1>1, <1>3, OperationAtHand
<1>5. UNCHANGED <<meant, hits, last>>
  BY DEF ActivateWindow, ResizeWindow
<1>6. UNCHANGED <<screen, muddled>> \/ muddled' = muddled \cup InFlight
  BY <1>1, WindowStep DEF InFront
<1>7. \A x \in Callers : Meant(x)'
  BY <1>1, <1>5, <1>6, OperationMeant
<1> QED
  BY <1>1, <1>4, <1>7 DEF MeantInv

\* A snapshot of its own is what a call's next target refers to.
LEMMA WalkScreenMeant ==
    ASSUME MeantInv, WalkScreen
    PROVE  MeantInv'
<1>1. Within /\ Base' /\ Base /\ Running("walk")
  BY WalkScreenBase DEF MeantInv, WalkScreen
<1>2. /\ ~Moving(Scripts[request[holder]]) /\ Len(Ops) = 1 /\ next = 1
      /\ Walking(Stage(holder)) /\ ~Using(Stage(holder))
  BY <1>1, LookingJob
<1>3. /\ Ops[next].op = "walk" /\ holder \in Callers /\ holder \in InFlight /\ holder # Nobody
  BY <1>1, RunningOp
<1>4. UNCHANGED <<request, at, points, label, result, screen, holder>>
  BY <1>1 DEF WalkScreen, Within
<1>5. InFlight' = InFlight /\ \A x : Stage(x)' = Stage(x)
  BY <1>4 DEF InFlight, Stage
<1>6. /\ hits \in [Callers -> SUBSET (Nat \X (Elements \cup {Nothing}))]
      /\ meant \in [Callers -> Seq(SUBSET (Elements \cup {Nothing}))]
  BY <1>1, StateTyped
<1>7. CASE /\ last' = screen
           /\ muddled' = (IF last' = last THEN muddled ELSE muddled \cup InFlight) \ {holder}
           /\ hits' = [hits EXCEPT ![holder] = {}] /\ meant' = [meant EXCEPT ![holder] = <<>>]
  <2>1. meant'[holder] = <<>> /\ hits'[holder] = {}
    BY <1>3, <1>6, <1>7
  <2>2. AtHand'
    BY <1>1, <1>3, <2>1, OperationAtHand
  <2>3. ASSUME NEW x \in Callers, x # holder PROVE Meant(x)'
    <3>1. hits'[x] = hits[x] /\ meant'[x] = meant[x]
      BY <1>6, <1>7, <2>3
    <3>2. x \notin muddled' => x \notin muddled
      BY <1>7, <2>3
    <3>3. x \notin muddled' /\ x \in InFlight' => screen' = screen /\ last' = last
      BY <1>4, <1>5, <1>7, <2>3
    <3> QED
      BY <1>4, <1>5, <3>1, <3>2, <3>3, OthersMeant DEF MeantInv
  <2>4. ASSUME NEW x, x = holder PROVE Meant(x)'
    <3>1. at'[x] # 0 /\ Stage(x).do = "job"
      <4>1. at[x] \in 1..Len(Scripts[request[x]])
        BY <1>3, <2>4, MeantAtWork
      <4> QED
        BY <1>2, <1>4, <2>4, <4>1 DEF Walking
    <3>2. Reckoned(x)'
      BY <1>2, <1>4, <1>5, <2>4, <3>1 DEF Reckoned
    <3>3. Current(x)'
      BY <1>2, <1>4, <1>5, <1>7, <2>4, <3>1 DEF Current
    <3> QED
      BY <2>1, <2>4, <3>1, <3>2, <3>3 DEF Meant
  <2> QED
    BY <1>1, <2>2, <2>3, <2>4 DEF MeantInv
<1>8. CASE Break /\ UNCHANGED <<last, muddled, hits, meant>>
  <2>1. broken'
    BY <1>8 DEF Break
  <2>2. AtHand'
    BY <1>1, <1>3, <2>1, OperationAtHand
  <2> QED
    BY <1>1, <1>4, <1>8, <2>2, OperationMeant DEF MeantInv
<1> QED
  BY <1>7, <1>8 DEF WalkScreen

\* Using an element hits what its label stands for in the last snapshot.
LEMMA UseElementMeant ==
    ASSUME MeantInv, UseElement
    PROVE  MeantInv'
<1>1. Within /\ Base' /\ Base /\ Running("use")
  BY UseElementBase DEF MeantInv, UseElement
<1>2. /\ ~Moving(Scripts[request[holder]]) /\ Len(Ops) = 1 /\ next = 1
      /\ ~Walking(Stage(holder)) /\ Using(Stage(holder))
  BY <1>1, LookingJob
<1>3. /\ Ops[next].op = "use" /\ holder \in Callers /\ holder \in InFlight /\ holder # Nobody
  BY <1>1, RunningOp
<1>4. UNCHANGED <<request, at, points, label, result, screen, last, holder, meant, muddled>>
  BY <1>1 DEF UseElement, Within
<1>5. InFlight' = InFlight /\ \A x : Stage(x)' = Stage(x)
  BY <1>4 DEF InFlight, Stage
<1>6. hits \in [Callers -> SUBSET (Nat \X (Elements \cup {Nothing}))]
  BY <1>1, StateTyped
<1> DEFINE e == snapshot[label[holder]].el
<1>7. \/ hits' = hits
      \/ /\ label[holder] \in DOMAIN snapshot
         /\ hits' = [hits EXCEPT ![holder] = @ \cup {<<1, e>>}]
  BY DEF UseElement
<1>8. AtHand'
  BY <1>1, <1>2, <1>3, OperationAtHand
<1>9. ASSUME NEW x \in Callers, hits'[x] = hits[x] PROVE Meant(x)'
  BY <1>4, <1>5, <1>9, OthersMeant DEF MeantInv
<1>10. ASSUME NEW x, x = holder, label[x] \in DOMAIN snapshot, hits'[x] = hits[x] \cup {<<1, e>>} PROVE Meant(x)'
  <2>1. Len(meant[x]) = 1 /\ meant[x] \in Seq(SUBSET (Elements \cup {Nothing})) /\ at[x] # 0
    <3>1. /\ Scripts[request[x]][at[x]] = Stage(x) /\ at[x] \in 1..Len(Scripts[request[x]])
          /\ meant[x] \in Seq(SUBSET (Elements \cup {Nothing}))
      BY <1>3, <1>10, MeantAtWork
    <3>2. Len(meant[x]) = 1
      BY <1>2, <1>3, <1>10, <3>1, MeantAtWork
    <3> QED
      BY <3>1, <3>2
  <2>2. Meant(x) /\ Reckoned(x) /\ (x \notin muddled => Current(x))
    BY <1>3, <1>10 DEF MeantInv, Meant
  <2>3. Stage(x).do = "job"
    BY <1>2, <1>10 DEF Using
  <2>4. Reckoned(x)'
    BY <1>2, <1>4, <1>5, <1>10, <2>2, <2>3 DEF Reckoned
  <2>5. snapshot' = snapshot
    BY <1>4 DEF snapshot
  <2>6. x \notin muddled => Current(x)'
    <3> HIDE DEF snapshot
    <3> QED
      BY <1>4, <1>5, <2>2, <2>5 DEF Current
  <2>7. x \notin muddled => 1 \in DOMAIN meant[x] /\ e \in meant[x][1]
    <3>1. DOMAIN meant[x] = 1..1
      BY <2>1
    <3> QED
      BY <1>2, <1>10, <2>1, <2>2, <3>1 DEF Current
  <2> HIDE DEF e
  <2>8. ASSUME x \notin muddled, NEW h \in hits'[x] PROVE h[1] \in DOMAIN meant[x] /\ h[2] \in meant[x][h[1]]
    <3>1. CASE h \in hits[x]
      BY <2>2, <2>8, <3>1 DEF Meant
    <3>2. CASE h = <<1, e>>
      BY <2>7, <2>8, <3>2
    <3> QED
      BY <1>10, <2>8, <3>1, <3>2
  <2> QED
    BY <1>4, <2>1, <2>4, <2>6, <2>8 DEF Meant
<1>11. \A x \in Callers : Meant(x)'
  <2> SUFFICES ASSUME NEW x \in Callers PROVE Meant(x)'
    OBVIOUS
  <2>1. \/ hits'[x] = hits[x]
        \/ x = holder /\ label[x] \in DOMAIN snapshot /\ hits'[x] = hits[x] \cup {<<1, e>>}
    <3> HIDE DEF snapshot, e
    <3> QED
      BY <1>6, <1>7
  <2> QED
    BY <1>9, <1>10, <2>1
<1> QED
  BY <1>1, <1>8, <1>11 DEF MeantInv

----------------------------------------------------------------------------
(***************************************************************************)
(* Calls act on what they mean.                                            *)
(***************************************************************************)
LEMMA StartsMeant ==
    ASSUME MeantInv, NEW c \in Callers, StartCall(c)
    PROVE  MeantInv'
<1>1. /\ Base' /\ c \notin InFlight /\ \A x \in Callers \ {c} : at'[x] = at[x] /\ result'[x] = result[x]
      /\ \A x \in InFlight' : x # c => x \in InFlight
  BY StartCallBase DEF MeantInv
<1>2. UNCHANGED <<request, points, label, meant, hits, screen, last, holder, next, broken, desk>>
      /\ (muddled' = muddled \/ muddled' = muddled \cup {c})
  BY DEF StartCall, call, world, engine
<1>3. Meant(c)'
  BY StartCallMeant
<1>4. ASSUME NEW x \in Callers, x # c PROVE Meant(x)'
  <2>1. x \in InFlight' => x \in InFlight
    BY <1>1, <1>4
  <2> QED
    BY <1>1, <1>2, <1>4, <2>1, OthersMeant DEF MeantInv
<1>5. AtHand'
  <2>1. holder # c /\ (holder # Nobody => holder \in Callers \ {c})
    BY <1>1, JobAtWork, InteractionAssumption DEF MeantInv, Base
  <2> QED
    BY <1>1, <1>2, <2>1, OutsideAtHand DEF MeantInv
<1> QED
  BY <1>1, <1>3, <1>4, <1>5 DEF MeantInv

\* The end of a job keeps the invariant of all calls.
LEMMA EndsMeant ==
    ASSUME MeantInv, EndJob
    PROVE  MeantInv'
<1>1. Base /\ Base' /\ holder \in InFlight /\ Moved(holder) /\ holder' = Nobody
  BY EndJobBase DEF MeantInv, EndJob
<1>2. UNCHANGED <<request, points, label, meant, hits, muddled, screen, last>>
  BY DEF EndJob, call
<1>3. /\ \A x \in Callers \ {holder} : at'[x] = at[x] /\ result'[x] = result[x]
      /\ \A x : x \in InFlight' => x \in InFlight
  BY <1>1, <1>2, CallMoves DEF Base
<1>4. ASSUME NEW x \in Callers, x # holder PROVE Meant(x)'
  BY <1>2, <1>3, <1>4, OthersMeant DEF MeantInv
<1>5. ASSUME NEW x, x = holder PROVE Meant(x)'
  BY <1>5, EndJobMeant
<1>6. AtHand'
  BY <1>1 DEF AtHand
<1> QED
  BY <1>1, <1>4, <1>5, <1>6 DEF MeantInv

\* Steps that no call moves in and no job.
LEMMA StillMeant ==
    ASSUME MeantInv, Base', UNCHANGED <<request, at, result, points, label, meant, hits, last>>,
           UNCHANGED <<screen, muddled>> \/ muddled' = muddled \cup InFlight,
           \/ holder' # Nobody /\ next' = 1
           \/ UNCHANGED <<holder, next, broken>> /\ desk'.cursor = desk.cursor
    PROVE  MeantInv'
<1>1. InFlight' = InFlight /\ \A x : Stage(x)' = Stage(x)
  BY DEF InFlight, Stage
<1>2. ASSUME NEW x \in Callers PROVE Meant(x)'
  <2>1. x \notin muddled' => x \notin muddled
    OBVIOUS
  <2>2. x \notin muddled' /\ x \in InFlight' => screen' = screen /\ last' = last
    BY <1>1
  <2> QED
    BY <1>1, <2>1, <2>2, OthersMeant DEF MeantInv
<1>3. AtHand'
  <2>1. CASE next' = 1
    BY <2>1 DEF AtHand
  <2>2. CASE UNCHANGED <<holder, next, broken>> /\ desk'.cursor = desk.cursor
    <3>1. Ops' = Ops /\ Stage(holder)' = Stage(holder)
      BY <1>1, <2>2 DEF Ops, Stage
    <3> QED
      BY <2>2, <3>1 DEF MeantInv, AtHand
  <2> QED
    BY <2>1, <2>2
<1> QED
  BY <1>2, <1>3 DEF MeantInv

\* No call has resolved anything at the start.
LEMMA InitMeant == Init => MeantInv
<1> SUFFICES ASSUME Init PROVE MeantInv
  OBVIOUS
<1>1. Base
  BY InitBase
<1>2. AtHand
  BY DEF Init, AtHand
<1>3. ASSUME NEW c \in Callers PROVE Meant(c)
  <2>1. at[c] = 0 /\ points[c] = <<>> /\ meant[c] = <<>> /\ hits[c] = {}
    BY DEF Init
  <2>2. c \notin InFlight
    BY <2>1 DEF InFlight
  <2> QED
    BY <2>1, <2>2 DEF Meant
<1> QED
  BY <1>1, <1>2, <1>3 DEF MeantInv

\* Every step keeps what calls mean and what they hit together.
LEMMA NextMeant == MeantInv /\ [Next]_vars => MeantInv'
<1> SUFFICES ASSUME MeantInv, [Next]_vars PROVE MeantInv'
  OBVIOUS
<1>1. Base /\ Base'
  BY NextBase DEF MeantInv
<1>2. ASSUME NEW c \in Callers, StartCall(c) \/ Proceed(c) \/ Expire(c) \/ Cancel(c) PROVE MeantInv'
  <2>1. CASE StartCall(c)
    BY <2>1, StartsMeant
  <2>2. CASE Take(c) \/ ResolveSelector(c) \/ Locate(c) \/ Evaluate(c) \/ Refuse(c)
    BY <2>2, OutsideMeant
  <2>3. CASE Begin(c)
    <3>1. /\ UNCHANGED <<request, at, result, points, label, meant, hits, last, screen, muddled>>
          /\ holder' = c /\ next' = 1
      BY <2>3 DEF Begin, call, world, history
    <3>2. c # Nobody
      BY InteractionAssumption
    <3> QED
      BY <1>1, <3>1, <3>2, StillMeant
  <2>4. CASE Expire(c) \/ Cancel(c)
    <3>1. UNCHANGED <<request, at, result, points, label, meant, hits, last, screen, muddled,
                      holder, next, broken, desk>>
      BY <2>4 DEF Expire, Cancel, call, world, engine, history
    <3> QED
      BY <1>1, <3>1, StillMeant
  <2> QED
    BY <1>2, <2>1, <2>2, <2>3, <2>4 DEF Proceed
<1>3. CASE Operation
  BY <1>3, AimCursorMeant, SendBatchMeant, HoldKeyMeant, WalkScreenMeant, UseElementMeant,
     CaptureScreenMeant, WindowMeant DEF Operation
<1>4. CASE EndJob
  BY <1>4, EndsMeant
<1>5. CASE AppChanges
  <2>1. UNCHANGED <<request, at, result, points, label, meant, hits, last, holder, next, broken>>
    BY <1>5 DEF AppChanges, call, engine
  <2>2. UNCHANGED <<screen, muddled>> \/ muddled' = muddled \cup InFlight
    BY <1>5 DEF AppChanges
  <2>3. desk'.cursor = desk.cursor
    BY <1>1, <1>5, AppChangesBase
  <2> QED
    BY <1>1, <2>1, <2>2, <2>3, StillMeant
<1>6. CASE Close \/ UNCHANGED vars
  <2>1. UNCHANGED <<request, at, result, points, label, meant, hits, last, screen, muddled,
                    holder, next, broken, desk>>
    BY <1>6 DEF Close, vars, call, world, engine, history
  <2> QED
    BY <1>1, <2>1, StillMeant
<1> QED
  BY <1>2, <1>3, <1>4, <1>5, <1>6 DEF Next, Finished

\* A call acts only on what its target stands for, whatever it asks for and whatever
\* other calls do, unless the screen or another snapshot overtakes it.
THEOREM ActsAsMeant == Spec => []ActsOnMeant
<1>1. MeantInv => ActsOnMeant
  BY DEF MeantInv, Meant, ActsOnMeant
<1> QED
  BY <1>1, InitMeant, NextMeant, PTL DEF Spec

----------------------------------------------------------------------------
(***************************************************************************)
(* What a fill leaves in the fields it clicked.                            *)
(***************************************************************************)
\* A fill: a text of characters that replaces what is in a field, or in several.
Fill(r) == Plain(r.text) /\ ((r.tool = "Type" /\ r.clear) \/ r.tool = "MultiEdit")

\* How far a fill has come with the k-th of its targets.
Moments == {"filled", "clicked", "selected", "cleared", "typed", "entered"} \X Nat

Clicking(k)   == Strict(<<Aim(k), Press(k)>>)
Entering      == Strict(<<Shortcut(<<"enter">>)>>)
Clears(st, i) == st.do = "job" /\ st.ops = ClearField[i]

\* What each stage of a fill leads from and to.
Leads(r, st, x, y) ==
    \/ /\ st.do \in {"point", "take", "resolve", "locate"}
       /\ x[1] \in {"filled", "typed"} /\ y = <<"filled", x[2]>>
    \/ st = Clicking(y[2]) /\ x = <<"filled", y[2] - 1>> /\ y[1] = "clicked"
    \/ /\ Clears(st, 1) /\ (r.tool = "Type" => st.strict)
       /\ x = <<"clicked", y[2]>> /\ y[1] = "selected"
    \/ /\ Clears(st, 2) /\ (r.tool = "Type" => st.strict)
       /\ x = <<"selected", y[2]>> /\ y[1] = "cleared"
    \/ st \in {Typing(y[2], Len(r.text)), TooLarge} /\ x = <<"cleared", y[2]>> /\ y[1] = "typed"
    \/ st = Entering /\ x = <<"typed", 1>> /\ y = <<"entered", 1>>

\* The moments between the stages of a fill.  What has no target has clicked nothing.
Ways(r, S, w) ==
    /\ \A p \in 0..Len(S) : w[p] \in Moments
    /\ \A p \in 1..Len(S) : Leads(r, S[p], w[p - 1], w[p])
    /\ w[0] \in {<<"filled", 0>>, <<"clicked", 1>>}
    /\ w[Len(S)][1] = IF r.tool = "Type" /\ r.enter THEN "entered" ELSE "typed"
Way(n) == CHOOSE w : Ways(Requests[n], Scripts[n], w)

\* What is on the desktop at each moment of a fill that nothing gets in the way of: the
\* fields that were clicked last, other than the one at hand, have their texts.
Written(c, k, n) == [j \in 1..n |-> Token(c, k, j)]
LastHits(c) ==
    { x \in hits[c] : x[2] # Nothing /\ \A y \in hits[c] : y[2] = x[2] => y[1] <= x[1] }
Texted(c, h) == desk.text[h[2]] = Written(c, h[1], Len(Asked(c).text))
Aside(c, k) ==
    \A h \in LastHits(c) : IF h[1] = k THEN h[2] = desk.focus ELSE h[2] # desk.focus /\ Texted(c, h)
Writing(c, k, n) ==
    /\ Aside(c, k) /\ desk.selected = Nothing /\ "ctrl" \notin desk.held
    /\ desk.focus # Nothing => desk.text[desk.focus] = Written(c, k, n)
Achieved(c, m) ==
    CASE m[1] = "filled"   -> \A h \in LastHits(c) : Texted(c, h)
      [] m[1] = "clicked"  -> Aside(c, m[2])
      [] m[1] = "selected" -> Aside(c, m[2]) /\ desk.selected = desk.focus /\ "ctrl" \notin desk.held
      [] m[1] = "cleared"  -> Writing(c, m[2], 0)
      [] m[1] = "typed"    -> Writing(c, m[2], Len(Asked(c).text))
      [] m[1] = "entered"  -> \A h \in LastHits(c) : Texted(c, h) /\ desk.submitted = h[2]

\* Nothing gets in the way of a fill: no other actor, and for a batch of edits, which
\* looks at no error of its clearing, no failure.
Alone(c) == c \notin disturbed /\ (Asked(c).tool = "MultiEdit" => faults = 0)

\* A fill has clicked no further than it has come.  As long as it is alone it has
\* achieved what its stages say, unless the engine is closed, when it cannot succeed.
Over(c) == holder = c /\ next > Len(Ops)
Before(c) == Way(request[c])[at[c] - 1]
After(c) == Way(request[c])[at[c]]
Filled(c, x, y) ==
    /\ \A h \in hits[c] : h[1] \in 1..(IF Over(c) THEN y[2] ELSE x[2])
    /\ holder = c /\ broken => Over(c) /\ (Stage(c).strict \/ faults > 0)
    /\ Alone(c) =>
           IF holder # c THEN open => Achieved(c, x)
           ELSE broken \/ IF Over(c) THEN Achieved(c, y)
                          ELSE IF x[1] = "cleared" THEN Writing(c, x[2], next - 1)
                          ELSE Achieved(c, x)
FillInv ==
    \A c \in Callers : /\ at[c] = 0 => hits[c] = {}
                       /\ c \in InFlight /\ Fill(Asked(c)) => Filled(c, Before(c), After(c))

----------------------------------------------------------------------------
(***************************************************************************)
(* The scripts of fills.                                                   *)
(***************************************************************************)
\* The stages S of a fill lead from x to y.
Goes(r, S, x, y) ==
    /\ S \in Seq(ActStages)
    /\ \E w : /\ w[0] = x /\ w[Len(S)] = y /\ \A p \in 0..Len(S) : w[p] \in Moments
              /\ \A p \in 1..Len(S) : Leads(r, S[p], w[p - 1], w[p])

\* No stages lead nowhere.
LEMMA GoesNowhere == ASSUME NEW r, NEW x \in Moments PROVE Goes(r, <<>>, x, x)
<1> DEFINE w == [p \in 0..0 |-> x]
<1>1. <<>> \in Seq(ActStages) /\ Len(<<>>) = 0 /\ 1..0 = {}
  OBVIOUS
<1>2. w[0] = x /\ \A p \in 0..0 : w[p] \in Moments
  OBVIOUS
<1> HIDE DEF w
<1> QED
  BY <1>1, <1>2 DEF Goes

\* One stage leads where it leads.
LEMMA GoesOneStage ==
    ASSUME NEW r, NEW st, <<st>> \in Seq(ActStages), NEW x \in Moments, NEW y \in Moments, Leads(r, st, x, y)
    PROVE  Goes(r, <<st>>, x, y)
<1> DEFINE w == [p \in 0..1 |-> IF p = 0 THEN x ELSE y]
<1>1. Len(<<st>>) = 1 /\ <<st>>[1] = st
  OBVIOUS
<1>2. w[0] = x /\ w[1] = y /\ \A p \in 0..1 : w[p] \in Moments
  OBVIOUS
<1>3. \A p \in 1..1 : p = 1 /\ p - 1 = 0
  OBVIOUS
<1> HIDE DEF w
<1>4. \A p \in 1..1 : Leads(r, <<st>>[p], w[p - 1], w[p])
  BY <1>1, <1>2, <1>3
<1> QED
  BY <1>1, <1>2, <1>4 DEF Goes

\* Stages that lead from x to y and on to z lead from x to z.
LEMMA GoesInTurn ==
    ASSUME NEW r, NEW S, NEW T, NEW x, NEW y, NEW z, Goes(r, S, x, y), Goes(r, T, y, z)
    PROVE  Goes(r, S \o T, x, z)
<1> DEFINE U == S \o T
           s == Len(S)
           t == Len(T)
<1>1. S \in Seq(ActStages) /\ T \in Seq(ActStages)
  BY DEF Goes
<1>2. /\ U \in Seq(ActStages) /\ Len(U) = s + t /\ s \in Nat /\ t \in Nat
      /\ \A p \in 1..Len(U) : \/ p \in 1..s /\ U[p] = S[p]
                              \/ p > s /\ p - s \in 1..t /\ U[p] = T[p - s]
  BY <1>1, Concatenated
<1>3. PICK f : /\ f[0] = x /\ f[s] = y /\ \A p \in 0..s : f[p] \in Moments
               /\ \A p \in 1..s : Leads(r, S[p], f[p - 1], f[p])
  BY DEF Goes
<1>4. PICK g : /\ g[0] = y /\ g[t] = z /\ \A p \in 0..t : g[p] \in Moments
               /\ \A p \in 1..t : Leads(r, T[p], g[p - 1], g[p])
  BY DEF Goes
<1> HIDE DEF U, s, t
<1> DEFINE h == [p \in 0..(s + t) |-> IF p \in 0..s THEN f[p] ELSE g[p - s]]
<1>5. \A p \in 0..s : h[p] = f[p]
  BY <1>2
<1>6. \A p \in 0..t : s + p \in 0..(s + t) /\ h[s + p] = g[p]
  <2>1. \A p \in 0..t : s + p \in 0..(s + t) /\ (s + p) - s = p /\ (s + p \in 0..s => p = 0)
    BY <1>2
  <2>2. \A p \in 0..t : h[s + p] = IF s + p \in 0..s THEN f[s + p] ELSE g[(s + p) - s]
    BY <2>1
  <2>3. f[s] = g[0] /\ s + 0 = s
    BY <1>2, <1>3, <1>4
  <2> HIDE DEF h
  <2> QED
    BY <2>1, <2>2, <2>3
<1> HIDE DEF h
<1>7. h[0] = x /\ h[s + t] = z
  <2>1. 0 \in 0..s /\ t \in 0..t
    BY <1>2
  <2> QED
    BY <1>3, <1>4, <1>5, <1>6, <2>1
<1>8. \A p \in 0..(s + t) : h[p] \in Moments
  <2>1. \A p \in 0..(s + t) : p \in 0..s \/ (p - s \in 0..t /\ s + (p - s) = p)
    BY <1>2
  <2> QED
    BY <1>3, <1>4, <1>5, <1>6, <2>1
<1>9. ASSUME NEW p \in 1..Len(U) PROVE Leads(r, U[p], h[p - 1], h[p])
  <2>1. CASE p \in 1..s /\ U[p] = S[p]
    <3>1. p \in 0..s /\ p - 1 \in 0..s
      BY <1>2, <2>1
    <3>2. h[p] = f[p] /\ h[p - 1] = f[p - 1]
      BY <1>5, <3>1
    <3> QED
      BY <1>3, <2>1, <3>2
  <2>2. CASE p > s /\ p - s \in 1..t /\ U[p] = T[p - s]
    <3>1. PICK q \in 1..t : q = p - s
      BY <2>2
    <3>2. q \in 0..t /\ q - 1 \in 0..t /\ p = s + q /\ p - 1 = s + (q - 1)
      BY <1>2, <3>1
    <3>3. h[p] = g[q] /\ h[p - 1] = g[q - 1]
      BY <1>6, <3>2
    <3> QED
      BY <1>4, <2>2, <3>1, <3>3
  <2> QED
    BY <1>2, <2>1, <2>2
<1>10. Goes(r, U, x, z)
  BY <1>2, <1>7, <1>8, <1>9 DEF Goes
<1> QED
  BY <1>10 DEF U

\* The parts of a fill, one by one.
LEMMA ClickingStage ==
    ASSUME NEW k \in Nat \ {0}
    PROVE  /\ Click(k, 1) = <<Clicking(k)>> /\ <<Clicking(k)>> \in Seq(ActStages)
           /\ Clicking(k).do = "job" /\ Clicking(k).strict /\ Clicking(k).ops = <<Aim(k), Press(k)>>
<1>1. Times(1, Press(k)) = <<Press(k)>>
  BY DEF Times
<1>2. <<Aim(k)>> \o <<Press(k)>> = <<Aim(k), Press(k)>>
  BY TwoStages
<1>3. Click(k, 1) = <<Clicking(k)>>
  BY <1>1, <1>2 DEF Click, Clicking
<1>4. Acts(Click(k, 1), k, k, 0, 0)
  <2>1. k \in Nat /\ 1 \in Int /\ 1 <= k /\ k <= k /\ 0 \in Nat
    OBVIOUS
  <2> QED
    BY <2>1, ActsClick
<1>5. <<Clicking(k)>> \in Seq(ActStages)
  BY <1>3, <1>4 DEF Acts
<1> QED
  BY <1>3, <1>5 DEF Clicking, Strict

\* Resolving a target leads to a fill that is ready to click it.
LEMMA GoesTarget ==
    ASSUME NEW t \in Target, t # NoTarget, NEW r, NEW k \in Nat, NEW x, x \in {<<"filled", k>>, <<"typed", k>>}
    PROVE  Goes(r, ResolveTarget(t), x, <<"filled", k>>)
<1> DEFINE z == <<"filled", k>>
<1>1. x \in Moments /\ z \in Moments /\ x[1] \in {"filled", "typed"} /\ x[2] = k /\ z[1] = "filled" /\ z[2] = k
  BY DEF Moments
<1>2. \A st : st.do \in {"point", "take", "resolve", "locate"} => Leads(r, st, x, z) /\ Leads(r, st, z, z)
  BY <1>1 DEF Leads
<1> HIDE DEF z
<1>3. CASE t.by = "point"
  <2> DEFINE st == [do |-> "point", at |-> t.at]
  <2>1. ResolveTarget(t) = <<st>> /\ st.do = "point"
    BY <1>3 DEF ResolveTarget
  <2>2. <<st>> \in Seq(ActStages)
    <3>1. Acts(ResolveTarget(t), k, k + IF t = NoTarget THEN 0 ELSE 1, 0, 0)
      <4>1. 0 \in Nat
        OBVIOUS
      <4> QED
        BY <4>1, ActsTarget
    <3> QED
      BY <2>1, <3>1 DEF Acts
  <2> HIDE DEF st
  <2> QED
    BY <1>1, <1>2, <2>1, <2>2, GoesOneStage DEF z
<1>4. CASE t.by # "point"
  <2> DEFINE look == IF t.by = "selector" THEN [do |-> "resolve", target |-> t]
                     ELSE [do |-> "take", label |-> t.label]
             loc == [do |-> "locate"]
  <2>1. t \in ByLabel \cup BySelector /\ t.by \in {"label", "selector"}
    BY <1>4 DEF Target, ByPoint, ByLabel, BySelector
  <2>2. ResolveTarget(t) = <<look>> \o <<loc>>
    BY <2>1 DEF ResolveTarget, ResolveLabel
  <2>3. look \in Lookups /\ loc \in Lookups /\ look.do \in {"take", "resolve"} /\ loc.do = "locate"
    BY <2>1 DEF Lookups, ByLabel, BySelector
  <2> HIDE DEF look, loc
  <2>4. <<look>> \in Seq(ActStages) /\ <<loc>> \in Seq(ActStages)
    BY <2>3 DEF ActStages
  <2>5. Goes(r, <<look>>, x, z) /\ Goes(r, <<loc>>, z, z)
    BY <1>1, <1>2, <2>3, <2>4, GoesOneStage
  <2> QED
    BY <2>2, <2>5, GoesInTurn DEF z
<1> QED
  BY <1>3, <1>4

\* What a text of characters is typed by.
LEMMA PlainText ==
    ASSUME NEW text \in Seq(Units), Plain(text), NEW k \in Nat \ {0}
    PROVE  \E st \in {Typing(k, Len(text)), TooLarge} : TypeText(k, text) = <<st>> /\ <<st>> \in Seq(ActStages)
<1>1. TypeText(k, text) \in Seq(ActStages)
  <2>1. Acts(TypeText(k, text), 0, 0, k - 1, k)
    BY ActsTypeText
  <2> QED
    BY <2>1 DEF Acts
<1>2. CASE Len(text) > MaxText
  BY <1>1, <1>2 DEF TypeText
<1>3. CASE ~(Len(text) > MaxText)
  <2>1. DOMAIN text = 1..Len(text)
    OBVIOUS
  <2>2. \A j \in DOMAIN text : Send(Stroke(k, j, text[j])) = TypeOp(k, j)
    BY DEF Plain, Stroke, TypeOp
  <2>3. [j \in DOMAIN text |-> Send(Stroke(k, j, text[j]))] = [j \in 1..Len(text) |-> TypeOp(k, j)]
    BY <2>1, <2>2
  <2>4. TypeText(k, text) = <<Typing(k, Len(text))>>
    BY <1>3, <2>3 DEF TypeText, Typing
  <2> QED
    BY <1>1, <2>4
<1> QED
  BY <1>2, <1>3

\* From a click to the text, with an error that ends the call or one that is dropped.
LEMMA GoesText ==
    ASSUME NEW r \in Asks, Plain(r.text), NEW strict \in BOOLEAN, r.tool = "Type" => strict, NEW k \in Nat \ {0}
    PROVE  Goes(r, [i \in DOMAIN ClearField |-> [do |-> "job", strict |-> strict, ops |-> ClearField[i]]]
                   \o TypeText(k, r.text), <<"clicked", k>>, <<"typed", k>>)
<1> DEFINE J(ops) == [do |-> "job", strict |-> strict, ops |-> ops]
           a == <<Shortcut(<<"ctrl", "a">>)>>
           d == <<Shortcut(<<"delete">>)>>
           C == [i \in DOMAIN ClearField |-> J(ClearField[i])]
           m1 == <<"clicked", k>>
           m2 == <<"selected", k>>
           m3 == <<"cleared", k>>
           m4 == <<"typed", k>>
<1>1. ClearField = <<a, d>> /\ ClearField[1] = a /\ ClearField[2] = d
  BY DEF ClearField
<1>2. /\ m1 \in Moments /\ m2 \in Moments /\ m3 \in Moments /\ m4 \in Moments
      /\ m2[1] = "selected" /\ m3[1] = "cleared" /\ m4[1] = "typed"
      /\ m2[2] = k /\ m3[2] = k /\ m4[2] = k
  BY DEF Moments
<1>3. <<J(a)>> \in Seq(ActStages) /\ <<J(d)>> \in Seq(ActStages)
  <2>1. <<"ctrl", "a">> \in Seq(KnownKeys) /\ <<"delete">> \in Seq(KnownKeys) /\ 0 \in Nat
    BY DEF KnownKeys
  <2>2. Acts(<<J(a)>>, 0, 0, 0, 0) /\ Acts(<<J(d)>>, 0, 0, 0, 0)
    BY <2>1, ActsChord
  <2> QED
    BY <2>2 DEF Acts
<1>4. C = <<J(a)>> \o <<J(d)>>
  <2>1. [i \in DOMAIN <<a, d>> |-> J(<<a, d>>[i])] = <<J(a), J(d)>>
    OBVIOUS
  <2> QED
    BY <1>1, <2>1, TwoStages
<1>5. J(a).do = "job" /\ J(a).ops = a /\ J(d).do = "job" /\ J(d).ops = d /\ J(a).strict = strict /\ J(d).strict = strict
  OBVIOUS
<1>6. PICK st \in {Typing(k, Len(r.text)), TooLarge} :
          TypeText(k, r.text) = <<st>> /\ <<st>> \in Seq(ActStages)
  <2>1. r.text \in Seq(Units)
    BY DEF Asks
  <2> QED
    BY <2>1, PlainText
<1> HIDE DEF C
<1> DEFINE u == J(a)
           v == J(d)
<1>7. Leads(r, u, m1, m2) /\ Leads(r, v, m2, m3)
  <2>1. Clears(u, 1) /\ Clears(v, 2)
    BY <1>1, <1>5 DEF Clears
  <2> HIDE DEF u, v
  <2>2. u.strict = strict /\ v.strict = strict
    BY <1>5 DEF u, v
  <2> QED
    BY <1>2, <2>1, <2>2 DEF Leads
<1>8. Leads(r, st, m3, m4)
  BY <1>2, <1>6 DEF Leads
<1> HIDE DEF u, v, m1, m2, m3, m4
<1>9. Goes(r, <<u>>, m1, m2) /\ Goes(r, <<v>>, m2, m3) /\ Goes(r, <<st>>, m3, m4)
  BY <1>2, <1>3, <1>6, <1>7, <1>8, GoesOneStage DEF u, v
<1>10. Goes(r, C, m1, m3)
  BY <1>4, <1>9, GoesInTurn DEF u, v
<1>11. Goes(r, C \o TypeText(k, r.text), m1, m4)
  BY <1>6, <1>9, <1>10, GoesInTurn
<1> QED
  BY <1>11 DEF C, m1, m4

\* Clicking the k-th target leads from all before it filled to it clicked.
LEMMA GoesClick ==
    ASSUME NEW r, NEW k \in Nat \ {0}
    PROVE  Goes(r, Click(k, 1), <<"filled", k - 1>>, <<"clicked", k>>)
<1> DEFINE x == <<"filled", k - 1>>
           y == <<"clicked", k>>
<1>1. x \in Moments /\ y \in Moments /\ y[1] = "clicked" /\ y[2] = k /\ x = <<"filled", k - 1>>
  BY DEF Moments
<1> HIDE DEF x, y
<1>2. Leads(r, Clicking(k), x, y)
  BY <1>1 DEF Leads
<1>3. Goes(r, <<Clicking(k)>>, x, y)
  BY <1>1, <1>2, ClickingStage, GoesOneStage
<1> QED
  BY <1>3, ClickingStage DEF x, y

\* Concatenation is associative, as the scripts need it.
LEMMA Associated ==
    ASSUME NEW T, NEW u \in Seq(T), NEW v \in Seq(T), NEW x \in Seq(T)
    PROVE  u \o (v \o x) = u \o v \o x
<1>1. u \o v \in Seq(T) /\ v \o x \in Seq(T)
  OBVIOUS
<1> DEFINE a == u \o (v \o x)
           b == (u \o v) \o x
<1>2. a \in Seq(T) /\ b \in Seq(T) /\ Len(a) = Len(b)
  BY <1>1
<1>3. \A p \in 1..Len(a) : a[p] = b[p]
  BY <1>1
<1> HIDE DEF a, b
<1>4. \A f, g \in Seq(T) : Len(f) = Len(g) /\ (\A p \in 1..Len(f) : f[p] = g[p]) => f = g
  BY SMTT(30)
<1>5. a = b
  BY <1>2, <1>3, <1>4
<1> QED
  BY <1>5 DEF a, b

\* There is a way through every script of Type that clears.
LEMMA TypeGoes ==
    ASSUME NEW r \in Asks, Plain(r.text), r.targets # <<>>, r.tool = "Type", r.clear
    PROVE  \E w : Ways(r, Type(r), w)
<1> DEFINE t == r.targets[1]
           x == IF t = NoTarget THEN <<"clicked", 1>> ELSE <<"filled", 0>>
           click == IF t.by = "none" THEN <<>> ELSE Click(1, 1)
           clear == IF r.clear THEN [i \in DOMAIN ClearField |-> Strict(ClearField[i])] ELSE <<>>
           enter == IF r.enter THEN <<Strict(<<Shortcut(<<"enter">>)>>)>> ELSE <<>>
           y == <<"clicked", 1>>
           z == <<"typed", 1>>
           e == IF r.enter THEN <<"entered", 1>> ELSE <<"typed", 1>>
           cleared == [i \in DOMAIN ClearField |-> [do |-> "job", strict |-> TRUE, ops |-> ClearField[i]]]
<1>1. t \in Target /\ (t.by = "none" <=> t = NoTarget)
  BY DEF Asks, Target, ByPoint, ByLabel, BySelector, NoTarget
<1>2. x \in Moments /\ y \in Moments /\ z \in Moments /\ e \in Moments
  BY DEF Moments
<1>3. Goes(r, ResolveTarget(t) \o click, x, y)
  <2>1. CASE t = NoTarget
    <3>1. ResolveTarget(t) = <<>> /\ click = <<>> /\ x = y
      BY <2>1 DEF ResolveTarget, NoTarget
    <3>2. Goes(r, <<>>, y, y)
      BY <1>2, GoesNowhere
    <3> HIDE DEF click, x, y
    <3>3. Goes(r, <<>> \o <<>>, y, y)
      BY <3>2, GoesInTurn
    <3> QED
      BY <3>1, <3>3
  <2>2. CASE t # NoTarget
    <3>1. Goes(r, ResolveTarget(t), <<"filled", 0>>, <<"filled", 0>>)
      BY <1>1, <2>2, GoesTarget
    <3>2. Goes(r, Click(1, 1), <<"filled", 1 - 1>>, <<"clicked", 1>>)
      BY GoesClick
    <3>3. 1 - 1 = 0
      OBVIOUS
    <3>4. Goes(r, ResolveTarget(t) \o Click(1, 1), <<"filled", 0>>, <<"clicked", 1>>)
      BY <3>1, <3>2, <3>3, GoesInTurn
    <3> QED
      BY <1>1, <2>2, <3>4
  <2> QED
    BY <2>1, <2>2
<1>4. Goes(r, clear \o TypeText(1, r.text), y, z)
  <2>1. clear = cleared
    BY DEF Strict
  <2>2. Goes(r, cleared \o TypeText(1, r.text), <<"clicked", 1>>, <<"typed", 1>>)
    <3>1. TRUE \in BOOLEAN /\ 1 \in Nat \ {0}
      OBVIOUS
    <3> QED
      BY <3>1, GoesText
  <2> QED
    BY <2>1, <2>2
<1>5. Goes(r, enter, z, e)
  <2>1. CASE r.enter
    <3>1. enter = <<Entering>> /\ e = <<"entered", 1>>
      BY <2>1 DEF Entering
    <3>2. <<Entering>> \in Seq(ActStages)
      <4>1. <<"enter">> \in Seq(KnownKeys) /\ 0 \in Nat
        BY DEF KnownKeys
      <4>2. Acts(<<[do |-> "job", strict |-> TRUE, ops |-> <<Shortcut(<<"enter">>)>>]>>, 0, 0, 0, 0)
        BY <4>1, ActsChord
      <4> QED
        BY <4>2 DEF Acts, Entering, Strict
    <3>3. z = <<"typed", 1>>
      OBVIOUS
    <3>4. Leads(r, Entering, z, e)
      BY <3>1, <3>3 DEF Leads
    <3> HIDE DEF enter, z, e
    <3> QED
      BY <1>2, <3>1, <3>2, <3>4, GoesOneStage
  <2>2. CASE ~r.enter
    <3>1. enter = <<>> /\ e = z
      BY <2>2
    <3> HIDE DEF enter, z, e
    <3> QED
      BY <1>2, <3>1, GoesNowhere
  <2> QED
    BY <2>1, <2>2
<1>6. Type(r) = ResolveTarget(t) \o click \o clear \o TypeText(1, r.text) \o enter
  BY DEF Type
<1> HIDE DEF click, clear, enter, x, y, z, e
<1>7. Goes(r, (ResolveTarget(t) \o click) \o (clear \o TypeText(1, r.text)), x, z)
  BY <1>3, <1>4, GoesInTurn
<1>8. /\ ResolveTarget(t) \o click \in Seq(ActStages) /\ clear \in Seq(ActStages)
      /\ TypeText(1, r.text) \in Seq(ActStages)
  <2>1. ResolveTarget(t) \o click \in Seq(ActStages)
    BY <1>3 DEF Goes
  <2>2. clear \in Seq(ActStages)
    <3>1. Acts(cleared, 0, 0, 0, 0)
      <4>1. TRUE \in BOOLEAN /\ 0 \in Nat
        OBVIOUS
      <4> QED
        BY <4>1, ActsClear
    <3> QED
      BY <3>1 DEF Acts, clear, Strict
  <2>3. TypeText(1, r.text) \in Seq(ActStages)
    <3>1. Acts(TypeText(1, r.text), 0, 0, 1 - 1, 1)
      <4>1. r.text \in Seq(Units) /\ 0 \in Nat /\ 1 \in Nat \ {0}
        BY DEF Asks
      <4> QED
        BY <4>1, ActsTypeText
    <3> QED
      BY <3>1 DEF Acts
  <2> QED
    BY <2>1, <2>2, <2>3
<1>9. (ResolveTarget(t) \o click) \o (clear \o TypeText(1, r.text))
      = ResolveTarget(t) \o click \o clear \o TypeText(1, r.text)
  <2> DEFINE u == ResolveTarget(t) \o click
             v == TypeText(1, r.text)
  <2> HIDE DEF u, v
  <2>1. u \in Seq(ActStages) /\ v \in Seq(ActStages) /\ clear \in Seq(ActStages)
    BY <1>8 DEF u, v
  <2>2. u \o (clear \o v) = u \o clear \o v
    BY <2>1, Associated
  <2> QED
    BY <2>2 DEF u, v
<1>10. Goes(r, Type(r), x, e)
  BY <1>5, <1>6, <1>7, <1>9, GoesInTurn
<1>11. x \in {<<"filled", 0>>, <<"clicked", 1>>} /\ e[1] = IF r.tool = "Type" /\ r.enter THEN "entered" ELSE "typed"
  BY DEF x, e
<1> QED
  BY <1>10, <1>11 DEF Goes, Ways

\* There is a way through every script of MultiEdit, for any number of edits.
LEMMA MultiEditGoes ==
    ASSUME NEW r \in Asks, Plain(r.text), r.tool = "MultiEdit", r.targets \in Seq(ByPoint \cup ByLabel),
           Len(r.targets) # 0
    PROVE  \E w : Ways(r, MultiEdit(r), w)
<1> DEFINE n == Len(r.targets)
           cleared == [i \in DOMAIN ClearField |-> Lax(ClearField[i])]
           piece(k) == ResolveTarget(r.targets[k]) \o Click(k, 1) \o cleared \o TypeText(k, r.text)
           seqs == [k \in DOMAIN r.targets |-> piece(k)]
           m(k) == IF k = 0 THEN <<"filled", 0>> ELSE <<"typed", k>>
<1>1. n \in Nat \ {0} /\ DOMAIN r.targets = 1..n
  OBVIOUS
<1>2. ASSUME NEW k \in 1..n PROVE Goes(r, piece(k), m(k - 1), m(k))
  <2> DEFINE t == r.targets[k]
             R == ResolveTarget(t)
             W == TypeText(k, r.text)
  <2>1. t \in Target /\ t # NoTarget /\ k - 1 \in Nat /\ k \in Nat \ {0}
    BY <1>1 DEF Target, NoTarget, ByPoint, ByLabel
  <2>2. m(k - 1) \in {<<"filled", k - 1>>, <<"typed", k - 1>>} /\ m(k) = <<"typed", k>>
    BY <2>1
  <2> HIDE DEF m
  <2>3. Goes(r, R, m(k - 1), <<"filled", k - 1>>)
    BY <2>1, <2>2, GoesTarget
  <2>4. Goes(r, R \o Click(k, 1), m(k - 1), <<"clicked", k>>)
    <3>1. Goes(r, Click(k, 1), <<"filled", k - 1>>, <<"clicked", k>>)
      BY <2>1, GoesClick
    <3> QED
      BY <2>3, <3>1, GoesInTurn
  <2>5. Goes(r, cleared \o W, <<"clicked", k>>, <<"typed", k>>) /\ cleared \in Seq(ActStages)
    <3> DEFINE C == [i \in DOMAIN ClearField |-> [do |-> "job", strict |-> FALSE, ops |-> ClearField[i]]]
    <3>1. Goes(r, C \o W, <<"clicked", k>>, <<"typed", k>>)
      <4>1. FALSE \in BOOLEAN /\ r.tool # "Type"
        OBVIOUS
      <4> QED
        BY <2>1, <4>1, GoesText
    <3>2. Acts(C, 0, 0, 0, 0)
      <4>1. FALSE \in BOOLEAN /\ 0 \in Nat
        OBVIOUS
      <4> QED
        BY <4>1, ActsClear
    <3>3. cleared = C
      BY DEF Lax
    <3> QED
      BY <3>1, <3>2, <3>3 DEF Acts
  <2>6. W \in Seq(ActStages)
    <3>1. Acts(W, 0, 0, k - 1, k)
      <4>1. r.text \in Seq(Units) /\ 0 \in Nat
        BY DEF Asks
      <4> QED
        BY <2>1, <4>1, ActsTypeText
    <3> QED
      BY <3>1 DEF Acts
  <2> HIDE DEF W, R, cleared
  <2>7. R \o Click(k, 1) \in Seq(ActStages)
    BY <2>4 DEF Goes
  <2>8. (R \o Click(k, 1)) \o (cleared \o W) = R \o Click(k, 1) \o cleared \o W
    <3> DEFINE u == R \o Click(k, 1)
    <3> HIDE DEF u
    <3>1. u \in Seq(ActStages)
      BY <2>7 DEF u
    <3>2. u \o (cleared \o W) = u \o cleared \o W
      BY <2>5, <2>6, <3>1, Associated, SMTT(30)
    <3> QED
      BY <3>2 DEF u
  <2>9. Goes(r, (R \o Click(k, 1)) \o (cleared \o W), m(k - 1), m(k))
    BY <2>2, <2>4, <2>5, GoesInTurn
  <2> QED
    BY <2>8, <2>9 DEF R, W
<1> HIDE DEF piece
<1>3. seqs \in Seq(Seq(ActStages)) /\ Len(seqs) = n /\ \A k \in 1..n : seqs[k] = piece(k)
  <2>1. \A k \in 1..n : piece(k) \in Seq(ActStages)
    BY <1>2 DEF Goes
  <2> QED
    BY <1>1, <2>1
<1>4. MultiEdit(r) = FlattenSeq(seqs)
  BY DEF MultiEdit, piece
<1> HIDE DEF seqs
<1>5. PICK g : /\ g[0] = <<>> /\ FlattenSeq(seqs) = g[n]
               /\ \A k \in 1..n : g[k] = g[k - 1] \o seqs[k]
  <2> HIDE DEF n
  <2>1. \E g : /\ g[0] = <<>> /\ FlattenSeq(seqs) = g[Len(seqs)]
               /\ \A k \in 1..Len(seqs) : g[k] = g[k - 1] \o seqs[k]
    BY <1>3, Flattening
  <2> QED
    BY <1>3, <2>1
<1> DEFINE D == { k \in Nat : k <= n => Goes(r, g[k], m(0), m(k)) }
<1>6. 0 \in D
  <2>1. m(0) \in Moments
    BY DEF Moments
  <2> HIDE DEF m
  <2> QED
    BY <1>5, <2>1, GoesNowhere
<1> HIDE DEF m
<1>7. ASSUME NEW k \in Nat, k \in D PROVE k + 1 \in D
  <2> SUFFICES ASSUME k + 1 <= n PROVE Goes(r, g[k + 1], m(0), m(k + 1))
    OBVIOUS
  <2>1. k + 1 \in 1..n /\ (k + 1) - 1 = k /\ k <= n
    BY <1>1
  <2>2. Goes(r, g[k], m(0), m(k))
    BY <1>7, <2>1
  <2>3. Goes(r, seqs[k + 1], m(k), m(k + 1)) /\ g[k + 1] = g[k] \o seqs[k + 1]
    BY <1>2, <1>3, <1>5, <2>1
  <2> QED
    BY <2>2, <2>3, GoesInTurn
<1> HIDE DEF D
<1>8. n \in D
  BY <1>1, <1>6, <1>7, Induction
<1>9. Goes(r, MultiEdit(r), m(0), m(n))
  BY <1>1, <1>4, <1>5, <1>8 DEF D
<1>10. m(0) = <<"filled", 0>> /\ m(n)[1] = "typed"
  BY <1>1 DEF m
<1> QED
  BY <1>9, <1>10 DEF Goes, Ways

\* The moments of every fill that is not refused.
LEMMA WayOf ==
    ASSUME NEW n \in DOMAIN Requests, ~Refused(Requests[n]), Fill(Requests[n])
    PROVE  Ways(Requests[n], Scripts[n], Way(n))
<1> DEFINE r == Requests[n]
<1>1. r \in Asks /\ IF r.tool \in Batches THEN r.targets \in Seq(ByPoint \cup ByLabel) ELSE r.targets # <<>>
  BY RequestsAssumption
<1>2. \E w : Ways(r, Scripts[n], w)
  <2>1. CASE r.tool = "Type"
    <3>1. r.targets # <<>> /\ r.clear /\ Plain(r.text)
      BY <1>1, <2>1 DEF Batches, Fill
    <3>2. Scripts[n] = Type(r)
      BY <2>1 DEF Scripts, Script
    <3> QED
      BY <1>1, <2>1, <3>1, <3>2, TypeGoes
  <2>2. CASE r.tool = "MultiEdit"
    <3>1. r.targets \in Seq(ByPoint \cup ByLabel) /\ Len(r.targets) # 0 /\ Plain(r.text)
      BY <1>1, <2>2 DEF Batches, Refused, BadBatch, Fill
    <3>2. Scripts[n] = MultiEdit(r)
      BY <2>2 DEF Scripts, Script
    <3> QED
      BY <1>1, <2>2, <3>1, <3>2, MultiEditGoes
  <2> QED
    BY <2>1, <2>2 DEF Fill
<1> QED
  BY <1>2 DEF Way

----------------------------------------------------------------------------
(***************************************************************************)
(* What the jobs of a fill inject, in full.                                *)
(***************************************************************************)
LEMMA WholeBatch == ASSUME NEW T, NEW b \in Seq(T) PROVE SubSeq(b, 1, Len(b)) = b
<1>1. /\ Len(b) \in Nat /\ SubSeq(b, 1, Len(b)) \in Seq(T) /\ Len(SubSeq(b, 1, Len(b))) = Len(b)
      /\ \A i \in 1..Len(b) : SubSeq(b, 1, Len(b))[i] = b[i]
  OBVIOUS
<1>2. \A f, g \in Seq(T) : Len(f) = Len(g) /\ (\A p \in 1..Len(f) : f[p] = g[p]) => f = g
  OBVIOUS
<1> QED
  BY <1>1, <1>2

\* A batch of two events.
LEMMA TwoEvents ==
    ASSUME NEW c, NEW d, NEW a, NEW b
    PROVE  Injected(c, d, <<a, b>>) = Happened(c, Happened(c, d, a), b)
<1> DEFINE x == Happened(c, d, a)
           y == Happened(c, x, b)
           D == [i \in 0..2 |-> IF i = 0 THEN {d} ELSE IF i = 1 THEN {x} ELSE {y}]
           events == <<a, b>>
<1>1. D[0] = {d} /\ D[1] = {x} /\ D[2] = {y}
  OBVIOUS
<1>2. DOMAIN events = 1..2 /\ events[1] = a /\ events[2] = b
  OBVIOUS
<1>3. \A i \in 1..2 : (i = 1 /\ i - 1 = 0) \/ (i = 2 /\ i - 1 = 1)
  OBVIOUS
<1> HIDE DEF D, events
<1>4. \A i \in 1..2 : \A z \in D[i - 1] : Happened(c, z, events[i]) \in D[i]
  BY <1>1, <1>2, <1>3
<1>5. 2 \in Nat /\ d \in D[0]
  BY <1>1
<1>6. Injected(c, d, events) \in D[2]
  BY <1>2, <1>4, <1>5, InjectedInto
<1> QED
  BY <1>1, <1>6 DEF events

\* A batch of four events.
LEMMA FourEvents ==
    ASSUME NEW c, NEW d, NEW a1, NEW a2, NEW a3, NEW a4
    PROVE  Injected(c, d, <<a1, a2, a3, a4>>)
           = Happened(c, Happened(c, Happened(c, Happened(c, d, a1), a2), a3), a4)
<1> DEFINE x1 == Happened(c, d, a1)
           x2 == Happened(c, x1, a2)
           x3 == Happened(c, x2, a3)
           x4 == Happened(c, x3, a4)
           D == [i \in 0..4 |-> IF i = 0 THEN {d} ELSE IF i = 1 THEN {x1} ELSE IF i = 2 THEN {x2}
                                ELSE IF i = 3 THEN {x3} ELSE {x4}]
           events == <<a1, a2, a3, a4>>
<1>1. D[0] = {d} /\ D[1] = {x1} /\ D[2] = {x2} /\ D[3] = {x3} /\ D[4] = {x4}
  OBVIOUS
<1>2. DOMAIN events = 1..4 /\ events[1] = a1 /\ events[2] = a2 /\ events[3] = a3 /\ events[4] = a4
  OBVIOUS
<1>3. \A i \in 1..4 : (i = 1 /\ i - 1 = 0) \/ (i = 2 /\ i - 1 = 1) \/ (i = 3 /\ i - 1 = 2) \/ (i = 4 /\ i - 1 = 3)
  OBVIOUS
<1> HIDE DEF D, events
<1>4. \A i \in 1..4 : \A z \in D[i - 1] : Happened(c, z, events[i]) \in D[i]
  BY <1>1, <1>2, <1>3
<1>5. 4 \in Nat /\ d \in D[0]
  BY <1>1
<1>6. Injected(c, d, events) \in D[4]
  BY <1>2, <1>4, <1>5, InjectedInto
<1> QED
  BY <1>1, <1>6 DEF events

\* Two desks that differ at most in what is held, and where.
Alike(x, d) ==
    x.focus = d.focus /\ x.selected = d.selected /\ x.text = d.text /\ x.submitted = d.submitted

\* A key that comes up changes only what is held.
LEMMA UpHappens ==
    ASSUME NEW c, NEW d \in Desks, NEW key \in Holdable \cup {"char"}, NEW x, x = Happened(c, d, Up(key))
    PROVE  x \in Desks /\ Alike(x, d) /\ x.held = d.held \ {key}
<1>1. Up(key).event = "up" /\ Up(key).key = key
  BY DEF Up
<1>2. x = [d EXCEPT !.held = d.held \ {key}]
  BY <1>1 DEF Happened
<1> QED
  BY <1>2 DEF Desks, Alike

\* A key that goes down is pressed.
LEMMA DownHappens ==
    ASSUME NEW c, NEW d \in Desks, NEW key \in Holdable, NEW x, x = Happened(c, d, Down(key))
    PROVE  x = Pressed(d, key)
<1>1. Down(key).event = "down" /\ Down(key).key = key
  BY DEF Down
<1> QED
  BY <1>1 DEF Happened

\* A click gives the focus to what is under the cursor, selects nothing and types
\* nothing.
LEMMA Clicked ==
    ASSUME screen \in Screens, NEW c \in Callers, NEW d \in Desks, NEW k, NEW x, x = Injected(c, d, Press(k).events)
    PROVE  /\ Len(Press(k).events) = 2
           /\ x \in Desks /\ x.focus = Shows[screen][d.cursor] /\ x.text = d.text
<1> DEFINE y == Happened(c, d, Down("button"))
<1>1. Press(k).events = <<Down("button"), Up("button")>>
  BY DEF Press
<1>2. x = Happened(c, y, Up("button"))
  BY <1>1, TwoEvents
<1>3. "button" \in Holdable
  BY DEF Holdable
<1>4. y = Pressed(d, "button")
  BY <1>3, DownHappens
<1>5. y \in Desks
  BY <1>3, <1>4, KeyGoesDown
<1>6. y = [d EXCEPT !.held = @ \cup {"button"}, !.focus = Shows[screen][d.cursor], !.selected = Nothing]
  BY <1>4 DEF Pressed
<1>7. y.focus = Shows[screen][d.cursor] /\ y.text = d.text
  BY <1>6 DEF Desks
<1> HIDE DEF y
<1>8. x \in Desks /\ Alike(x, y)
  BY <1>2, <1>3, <1>5, UpHappens
<1>9. Len(<<Down("button"), Up("button")>>) = 2
  OBVIOUS
<1> QED
  BY <1>1, <1>7, <1>8, <1>9 DEF Alike

\* The events of Ctrl+A.
LEMMA CtrlA ==
    /\ Shortcut(<<"ctrl", "a">>).events = <<Down("ctrl"), Down("a"), Up("a"), Up("ctrl")>>
    /\ Len(Shortcut(<<"ctrl", "a">>).events) = 4
<1> DEFINE keys == <<"ctrl", "a">>
           b == Shortcut(keys).events
           w == <<Down("ctrl"), Down("a"), Up("a"), Up("ctrl")>>
           T == {Down("ctrl"), Down("a"), Up("a"), Up("ctrl")}
<1>1. Len(keys) = 2 /\ keys[1] = "ctrl" /\ keys[2] = "a" /\ keys[2 * 2 + 1 - 3] = "a" /\ keys[2 * 2 + 1 - 4] = "ctrl"
  OBVIOUS
<1>2. b = [i \in 1..4 |-> IF i <= 2 THEN Down(keys[i]) ELSE Up(keys[2 * 2 + 1 - i])]
  BY DEF Shortcut, Send
<1>3. w[1] = Down("ctrl") /\ w[2] = Down("a") /\ w[3] = Up("a") /\ w[4] = Up("ctrl") /\ w \in Seq(T) /\ Len(w) = 4
  OBVIOUS
<1> HIDE DEF keys, b
<1>4. b[1] = Down("ctrl") /\ b[2] = Down("a") /\ b[3] = Up("a") /\ b[4] = Up("ctrl")
  BY <1>1, <1>2
<1>5. \A i \in 1..4 : i = 1 \/ i = 2 \/ i = 3 \/ i = 4
  OBVIOUS
<1>6. DOMAIN b = 1..4 /\ b = [i \in 1..4 |-> b[i]]
  BY <1>2
<1> HIDE DEF T
<1>7. b \in Seq(T) /\ Len(b) = 4
  <2>1. \A i \in 1..4 : b[i] \in T
    BY <1>4, <1>5 DEF T
  <2> QED
    BY <1>6, <2>1
<1> HIDE DEF w
<1>8. \A f, g \in Seq(T) : Len(f) = Len(g) /\ (\A p \in 1..Len(f) : f[p] = g[p]) => f = g
  OBVIOUS
<1>9. b = w
  BY <1>3, <1>4, <1>5, <1>7, <1>8
<1> QED
  BY <1>7, <1>9 DEF b, w, keys

\* Ctrl+A selects the text of the focus, and leaves Ctrl up.
LEMMA SelectedAll ==
    ASSUME screen \in Screens, NEW c \in Callers, NEW d \in Desks, NEW b, b = Shortcut(<<"ctrl", "a">>).events,
           NEW x, x = Injected(c, d, b)
    PROVE  /\ Len(b) = 4
           /\ x \in Desks /\ x.focus = d.focus /\ x.text = d.text
           /\ x.selected = d.focus /\ "ctrl" \notin x.held
<1> DEFINE x1 == Happened(c, d, Down("ctrl"))
           x2 == Happened(c, x1, Down("a"))
           x3 == Happened(c, x2, Up("a"))
<1>1. b = <<Down("ctrl"), Down("a"), Up("a"), Up("ctrl")>> /\ Len(b) = 4
  BY CtrlA
<1>2. x = Happened(c, x3, Up("ctrl"))
  BY <1>1, FourEvents
<1>3. "ctrl" \in Holdable /\ "a" \in Holdable
  BY DEF Holdable, KnownKeys
<1>4. x1 = Pressed(d, "ctrl") /\ x1 \in Desks /\ "ctrl" \in x1.held
  BY <1>3, DownHappens, KeyGoesDown
<1>5. x1.focus = d.focus /\ x1.text = d.text
  <2>1. x1 = [d EXCEPT !.held = @ \cup {"ctrl"}]
    BY <1>4 DEF Pressed
  <2> QED
    BY <2>1 DEF Desks
<1> HIDE DEF x1
<1>6. x2 = Pressed(x1, "a") /\ x2 \in Desks
  BY <1>3, <1>4, DownHappens, KeyGoesDown
<1>7. x2.focus = x1.focus /\ x2.text = x1.text /\ x2.selected = x1.focus
  <2>1. x2 = [x1 EXCEPT !.held = @ \cup {"a"}, !.selected = x1.focus]
    BY <1>4, <1>6 DEF Pressed
  <2> QED
    BY <1>4, <2>1 DEF Desks
<1> HIDE DEF x2
<1>8. x3 \in Desks /\ Alike(x3, x2)
  BY <1>3, <1>6, UpHappens
<1> HIDE DEF x3
<1>9. x \in Desks /\ Alike(x, x3) /\ "ctrl" \notin x.held
  BY <1>2, <1>3, <1>8, UpHappens
<1> QED
  BY <1>1, <1>5, <1>7, <1>8, <1>9 DEF Alike

\* A key that is pressed and released on its own.
LEMMA OneKey ==
    ASSUME NEW key
    PROVE  Shortcut(<<key>>).events = <<Down(key), Up(key)>> /\ Len(Shortcut(<<key>>).events) = 2
<1> DEFINE keys == <<key>>
           b == Shortcut(keys).events
           w == <<Down(key), Up(key)>>
           T == {Down(key), Up(key)}
<1>1. Len(keys) = 1 /\ keys[1] = key /\ keys[2 * 1 + 1 - 2] = key
  OBVIOUS
<1>2. b = [i \in 1..2 |-> IF i <= 1 THEN Down(keys[i]) ELSE Up(keys[2 * 1 + 1 - i])]
  BY DEF Shortcut, Send
<1>3. w[1] = Down(key) /\ w[2] = Up(key) /\ w \in Seq(T) /\ Len(w) = 2
  OBVIOUS
<1> HIDE DEF keys, b
<1>4. b[1] = Down(key) /\ b[2] = Up(key)
  BY <1>1, <1>2
<1>5. \A i \in 1..2 : i = 1 \/ i = 2
  OBVIOUS
<1>6. DOMAIN b = 1..2 /\ b = [i \in 1..2 |-> b[i]]
  BY <1>2
<1> HIDE DEF T
<1>7. b \in Seq(T) /\ Len(b) = 2
  <2>1. \A i \in 1..2 : b[i] \in T
    BY <1>4, <1>5 DEF T
  <2> QED
    BY <1>6, <2>1
<1> HIDE DEF w
<1>8. \A f, g \in Seq(T) : Len(f) = Len(g) /\ (\A p \in 1..Len(f) : f[p] = g[p]) => f = g
  OBVIOUS
<1>9. b = w
  BY <1>3, <1>4, <1>5, <1>7, <1>8
<1> QED
  BY <1>7, <1>9 DEF b, w, keys

\* Delete empties the focus, if its text is selected and Ctrl is up.
LEMMA Deleted ==
    ASSUME screen \in Screens, NEW c \in Callers, NEW d \in Desks, NEW b, b = Shortcut(<<"delete">>).events,
           d.selected = d.focus, "ctrl" \notin d.held, NEW x, x = Injected(c, d, b)
    PROVE  /\ Len(b) = 2
           /\ x \in Desks /\ x.focus = d.focus /\ x.selected = Nothing /\ "ctrl" \notin x.held
           /\ d.focus # Nothing => x.text[d.focus] = <<>>
           /\ \A e \in Elements : e # d.focus => x.text[e] = d.text[e]
<1> DEFINE y == Happened(c, d, Down("delete"))
<1>1. b = <<Down("delete"), Up("delete")>> /\ Len(b) = 2
  BY OneKey
<1>2. x = Happened(c, y, Up("delete"))
  BY <1>1, TwoEvents
<1>3. "delete" \in Holdable
  BY DEF Holdable, KnownKeys
<1>4. y = Pressed(d, "delete") /\ y \in Desks /\ y.held = d.held \cup {"delete"}
  BY <1>3, DownHappens, KeyGoesDown
<1>5. /\ y.focus = d.focus /\ y.selected = Nothing /\ "ctrl" \notin y.held
      /\ d.focus # Nothing => y.text[d.focus] = <<>>
      /\ \A e \in Elements : e # d.focus => y.text[e] = d.text[e]
  <2>1. CASE d.focus = Nothing
    <3>1. y = [d EXCEPT !.held = @ \cup {"delete"}]
      BY <1>4, <2>1 DEF Pressed
    <3> QED
      BY <1>4, <2>1, <3>1 DEF Desks
  <2>2. CASE d.focus # Nothing
    <3>1. y = [d EXCEPT !.held = @ \cup {"delete"}, !.text[d.focus] = <<>>, !.selected = Nothing]
      BY <1>4, <2>2 DEF Pressed
    <3>2. d.text \in [Elements -> Seq(Tokens)] /\ d.focus \in Elements
      BY <2>2, FieldsOfDesks
    <3>3. y.text = [d.text EXCEPT ![d.focus] = <<>>] /\ y.focus = d.focus /\ y.selected = Nothing
      BY <3>1 DEF Desks
    <3> QED
      BY <1>4, <3>2, <3>3
  <2> QED
    BY <2>1, <2>2
<1> HIDE DEF y
<1>6. x \in Desks /\ Alike(x, y) /\ x.held = y.held \ {"delete"}
  BY <1>2, <1>3, <1>4, UpHappens
<1> QED
  BY <1>1, <1>5, <1>6 DEF Alike

\* Enter submits the focus, and changes no text.
LEMMA Entered ==
    ASSUME screen \in Screens, NEW c \in Callers, NEW d \in Desks, NEW b, b = Shortcut(<<"enter">>).events,
           NEW x, x = Injected(c, d, b)
    PROVE  Len(b) = 2 /\ x \in Desks /\ x.focus = d.focus /\ x.submitted = d.focus /\ x.text = d.text
<1> DEFINE y == Happened(c, d, Down("enter"))
<1>1. b = <<Down("enter"), Up("enter")>> /\ Len(b) = 2
  BY OneKey
<1>2. x = Happened(c, y, Up("enter"))
  BY <1>1, TwoEvents
<1>3. "enter" \in Holdable
  BY DEF Holdable, KnownKeys
<1>4. y = Pressed(d, "enter") /\ y \in Desks
  BY <1>3, DownHappens, KeyGoesDown
<1>5. y.focus = d.focus /\ y.submitted = d.focus /\ y.text = d.text
  <2>1. y = [d EXCEPT !.held = @ \cup {"enter"}, !.submitted = d.focus]
    BY <1>4 DEF Pressed
  <2> QED
    BY <2>1 DEF Desks
<1> HIDE DEF y
<1>6. x \in Desks /\ Alike(x, y)
  BY <1>2, <1>3, <1>4, UpHappens
<1> QED
  BY <1>1, <1>5, <1>6 DEF Alike

\* A character is appended to the text of the focus, if nothing is selected and Ctrl is
\* up.
LEMMA CharacterTyped ==
    ASSUME screen \in Screens, NEW c \in Callers, NEW d \in Desks, NEW k \in Nat, NEW j \in Nat,
           NEW b, b = TypeOp(k, j).events,
           d.selected = Nothing, "ctrl" \notin d.held, NEW x, x = Injected(c, d, b)
    PROVE  /\ Len(b) = 2
           /\ x \in Desks /\ x.focus = d.focus /\ x.selected = Nothing /\ "ctrl" \notin x.held
           /\ d.focus # Nothing => x.text[d.focus] = Append(d.text[d.focus], Token(c, k, j))
           /\ \A e \in Elements : e # d.focus => x.text[e] = d.text[e]
<1> DEFINE y == Happened(c, d, Char(k, j))
           tok == Token(c, k, j)
<1>1. b = <<Char(k, j), Up("char")>>
  BY DEF TypeOp, Send
<1>2. x = Happened(c, y, Up("char")) /\ Len(b) = 2
  BY <1>1, TwoEvents
<1>3. y = Typed(d, tok)
  <2>1. Char(k, j).event = "char" /\ Char(k, j).key[1] = k /\ Char(k, j).key[2] = j
    BY DEF Char
  <2> QED
    BY <2>1 DEF Happened, Token
<1>4. tok \in Tokens
  BY DEF Tokens, Token
<1>5. y \in Desks /\ y.held = d.held
  BY <1>3, <1>4, CharIsTyped
<1>6. /\ y.focus = d.focus /\ y.selected = Nothing
      /\ d.focus # Nothing => y.text[d.focus] = Append(d.text[d.focus], tok)
      /\ \A e \in Elements : e # d.focus => y.text[e] = d.text[e]
  <2>1. CASE d.focus = Nothing
    <3>1. y = d
      BY <1>3, <2>1 DEF Typed
    <3> QED
      BY <2>1, <3>1
  <2>2. CASE d.focus # Nothing
    <3>1. y = [d EXCEPT !.text[d.focus] = Append(@, tok), !.selected = Nothing]
      BY <1>3, <2>2 DEF Typed
    <3>2. d.text \in [Elements -> Seq(Tokens)] /\ d.focus \in Elements
      BY <2>2, FieldsOfDesks
    <3>3. y.text = [d.text EXCEPT ![d.focus] = Append(@, tok)] /\ y.focus = d.focus /\ y.selected = Nothing
      BY <3>1 DEF Desks
    <3> QED
      BY <3>2, <3>3
  <2> QED
    BY <2>1, <2>2
<1> HIDE DEF y, tok
<1>7. x \in Desks /\ Alike(x, y) /\ x.held = y.held \ {"char"}
  BY <1>2, <1>5, UpHappens
<1> QED
  BY <1>2, <1>5, <1>6, <1>7 DEF Alike, tok

----------------------------------------------------------------------------
(***************************************************************************)
(* A fill at work.                                                         *)
(***************************************************************************)
LEMMA FillAtWork ==
    ASSUME Base, NEW c \in InFlight, Fill(Asked(c)), NEW r, r = Asked(c)
    PROVE  /\ c \in Callers /\ c # Nobody /\ r \in Asks /\ Len(r.text) \in Int
           /\ r.tool = "Type" \/ r.tool = "MultiEdit"
           /\ at[c] \in Nat \ {0} /\ Len(Scripts[request[c]]) \in Nat
           /\ at[c] <= Len(Scripts[request[c]]) /\ result[c] = "none"
           /\ Before(c) \in Moments /\ After(c) \in Moments
           /\ Leads(r, Stage(c), Before(c), After(c))
           /\ at[c] # Len(Scripts[request[c]]) => Way(request[c])[(at[c] + 1) - 1] = After(c)
           /\ at[c] = Len(Scripts[request[c]]) =>
                  After(c)[1] = IF r.tool = "Type" /\ r.enter THEN "entered" ELSE "typed"
<1> DEFINE n == request[c]
           S == Scripts[n]
           w == Way(n)
           p == at[c]
<1>1. /\ c \in Callers /\ c # Nobody /\ n \in DOMAIN Requests /\ ~Refused(Requests[n])
      /\ p \in 1..Len(S) /\ Len(S) \in Nat /\ Stage(c) = S[p] /\ result[c] = "none"
  BY AtWork DEF Base
<1>2. r = Requests[n] /\ Fill(r)
  BY DEF Asked
<1>3. Ways(r, S, w)
  BY <1>1, <1>2, WayOf
<1> HIDE DEF w, S
<1>4. r \in Asks /\ Len(r.text) \in Int
  <2>1. r \in Asks
    BY <1>1, <1>2, RequestsAssumption
  <2> QED
    BY <2>1 DEF Asks
<1>5. p \in Nat \ {0} /\ p <= Len(S) /\ p - 1 \in 0..Len(S) /\ p \in 0..Len(S) /\ (p + 1) - 1 = p
  BY <1>1
<1>6. w[p - 1] \in Moments /\ w[p] \in Moments /\ Leads(r, S[p], w[p - 1], w[p])
  BY <1>1, <1>3, <1>5 DEF Ways
<1>7. w[Len(S)][1] = IF r.tool = "Type" /\ r.enter THEN "entered" ELSE "typed"
  BY <1>3 DEF Ways
<1>8. Before(c) = w[p - 1] /\ After(c) = w[p]
  BY DEF Before, After, w
<1>9. w[(p + 1) - 1] = w[p]
  BY <1>5
<1>10. r.tool = "Type" \/ r.tool = "MultiEdit"
  BY <1>2 DEF Fill
<1> QED
  BY <1>1, <1>4, <1>5, <1>6, <1>7, <1>8, <1>9, <1>10 DEF w, S

\* A stage of a fill outside the engine.
LEMMA OutsideLeads ==
    ASSUME NEW r, NEW st, NEW x, NEW y, Leads(r, st, x, y), st.do # "job", st # TooLarge
    PROVE  /\ st.do \in {"point", "take", "resolve", "locate"}
           /\ x[1] \in {"filled", "typed"} /\ y = <<"filled", x[2]>> /\ y[1] = "filled" /\ y[2] = x[2]
<1>1. Typing(y[2], Len(r.text)).do = "job" /\ Entering.do = "job" /\ Clicking(y[2]).do = "job"
  BY DEF Typing, Entering, Clicking, Strict
<1>2. st.do \in {"point", "take", "resolve", "locate"} /\ x[1] \in {"filled", "typed"} /\ y = <<"filled", x[2]>>
  BY <1>1 DEF Leads, Clears
<1> QED
  BY <1>2

\* What the job of a fill is, and what it leads from and to.
ClickJob(st, x, y, k) ==
    /\ st.strict /\ Len(st.ops) = 2 /\ st.ops[1] = Aim(k) /\ st.ops[2] = Press(k)
    /\ k # 0 /\ x = <<"filled", k - 1>> /\ y = <<"clicked", k>>
SelectJob(st, x, y, k) ==
    /\ Len(st.ops) = 1 /\ st.ops[1] = Shortcut(<<"ctrl", "a">>)
    /\ x = <<"clicked", k>> /\ y = <<"selected", k>>
DeleteJob(st, x, y, k) ==
    /\ Len(st.ops) = 1 /\ st.ops[1] = Shortcut(<<"delete">>)
    /\ x = <<"selected", k>> /\ y = <<"cleared", k>>
TypeJob(st, x, y, k, size) ==
    /\ st.strict /\ Len(st.ops) = (IF size < 0 THEN 0 ELSE size)
    /\ \A q \in 1..Len(st.ops) : st.ops[q] = TypeOp(k, q)
    /\ x = <<"cleared", k>> /\ y = <<"typed", k>>
EnterJob(st, x, y, k) ==
    /\ st.strict /\ Len(st.ops) = 1 /\ st.ops[1] = Shortcut(<<"enter">>)
    /\ k = 1 /\ x = <<"typed", k>> /\ y = <<"entered", k>>

\* The jobs of a fill are these five, and its text is typed in a strict one.
LEMMA JobOfFill ==
    ASSUME NEW r, Len(r.text) \in Int, NEW st, NEW x \in Moments, NEW y \in Moments,
           Leads(r, st, x, y), st.do = "job", NEW k, k = y[2]
    PROVE  /\ k \in Nat /\ (r.tool = "Type" => st.strict)
           /\ \/ ClickJob(st, x, y, k) \/ SelectJob(st, x, y, k) \/ DeleteJob(st, x, y, k)
              \/ TypeJob(st, x, y, k, Len(r.text)) \/ EnterJob(st, x, y, k)
<1>1. k \in Nat /\ x[2] \in Nat /\ x = <<x[1], x[2]>> /\ y = <<y[1], y[2]>>
  BY DEF Moments
<1>2. CASE st = Clicking(k) /\ x = <<"filled", k - 1>> /\ y[1] = "clicked"
  <2>1. st.strict /\ st.ops = <<Aim(k), Press(k)>>
    BY <1>2 DEF Clicking, Strict
  <2>2. k # 0
    <3>1. x[2] = k - 1
      BY <1>2
    <3> QED
      BY <1>1, <3>1
  <2> QED
    BY <1>1, <1>2, <2>1, <2>2 DEF ClickJob
<1>3. CASE Clears(st, 1) /\ (r.tool = "Type" => st.strict) /\ x = <<"clicked", k>> /\ y[1] = "selected"
  <2>1. st.ops = <<Shortcut(<<"ctrl", "a">>)>>
    BY <1>3 DEF Clears, ClearField
  <2> QED
    BY <1>1, <1>3, <2>1 DEF SelectJob
<1>4. CASE Clears(st, 2) /\ (r.tool = "Type" => st.strict) /\ x = <<"selected", k>> /\ y[1] = "cleared"
  <2>1. st.ops = <<Shortcut(<<"delete">>)>>
    BY <1>4 DEF Clears, ClearField
  <2> QED
    BY <1>1, <1>4, <2>1 DEF DeleteJob
<1>5. CASE st = Typing(k, Len(r.text)) /\ x = <<"cleared", k>> /\ y[1] = "typed"
  <2> DEFINE ops == [j \in 1..Len(r.text) |-> TypeOp(k, j)]
  <2>1. st.strict /\ st.ops = ops
    BY <1>5 DEF Typing, Strict
  <2>2. /\ Len(ops) = (IF Len(r.text) < 0 THEN 0 ELSE Len(r.text))
        /\ \A q \in 1..Len(ops) : ops[q] = TypeOp(k, q)
    <3>1. CASE Len(r.text) < 0
      <4>1. 1..Len(r.text) = {} /\ 1..0 = {}
        BY <3>1
      <4>2. ops = <<>>
        BY <4>1
      <4> HIDE DEF ops
      <4> QED
        BY <3>1, <4>1, <4>2
    <3>2. CASE ~(Len(r.text) < 0)
      BY <3>2
    <3> QED
      BY <3>1, <3>2
  <2> HIDE DEF ops
  <2> QED
    BY <1>1, <1>5, <2>1, <2>2 DEF TypeJob
<1>6. CASE st = Entering /\ x = <<"typed", 1>> /\ y = <<"entered", 1>>
  <2>1. st.strict /\ st.ops = <<Shortcut(<<"enter">>)>>
    BY <1>6 DEF Entering, Strict
  <2>2. k = 1
    BY <1>6
  <2> QED
    BY <1>1, <1>6, <2>1, <2>2 DEF EnterJob
<1>7. TooLarge.do # "job"
  BY DEF TooLarge
<1> QED
  BY <1>2, <1>3, <1>4, <1>5, <1>6, <1>7 DEF Leads

----------------------------------------------------------------------------
(***************************************************************************)
(* What a fill has achieved lasts while nothing gets in its way.           *)
(***************************************************************************)
Calm == Alike(desk', desk) /\ desk'.held \subseteq desk.held

\* The texts of a call last while only keys come up.
LEMMA TextsLast ==
    ASSUME Calm, NEW c, request' = request, hits'[c] = hits[c]
    PROVE  /\ LastHits(c)' = LastHits(c)
           /\ \A h : Texted(c, h)' = Texted(c, h)
           /\ \A k : Aside(c, k)' = Aside(c, k)
<1>1. LastHits(c)' = LastHits(c)
  BY DEF LastHits
<1>2. \A h : Texted(c, h)' = Texted(c, h)
  BY DEF Texted, Asked, Calm, Alike
<1>3. \A k : Aside(c, k)' = Aside(c, k)
  BY <1>1, <1>2 DEF Aside, Calm, Alike
<1> QED
  BY <1>1, <1>2, <1>3

\* So does what it has achieved.
LEMMA AchievedLasts ==
    ASSUME Calm, NEW c, request' = request, hits'[c] = hits[c]
    PROVE  /\ \A m \in Moments : Achieved(c, m) => Achieved(c, m)'
           /\ \A k, n : Writing(c, k, n) => Writing(c, k, n)'
<1>1. /\ LastHits(c)' = LastHits(c)
      /\ \A h : Texted(c, h)' = Texted(c, h)
      /\ \A k : Aside(c, k)' = Aside(c, k)
  BY TextsLast
<1>2. ASSUME NEW k, NEW n, Writing(c, k, n) PROVE Writing(c, k, n)'
  BY <1>1, <1>2 DEF Writing, Calm, Alike
<1>3. Asked(c)' = Asked(c)
  BY DEF Asked
<1>4. ASSUME NEW m \in Moments, Achieved(c, m) PROVE Achieved(c, m)'
  <2>1. CASE m[1] = "filled"
    BY <1>1, <1>4, <2>1 DEF Achieved
  <2>2. CASE m[1] = "clicked"
    BY <1>1, <1>4, <2>2 DEF Achieved
  <2>3. CASE m[1] = "selected"
    BY <1>1, <1>4, <2>3 DEF Achieved, Calm, Alike
  <2>4. CASE m[1] = "cleared"
    BY <1>2, <1>4, <2>4 DEF Achieved
  <2>5. CASE m[1] = "typed"
    BY <1>2, <1>3, <1>4, <2>5 DEF Achieved
  <2>6. CASE m[1] = "entered"
    BY <1>1, <1>4, <2>6 DEF Achieved, Calm, Alike
  <2> QED
    BY <2>1, <2>2, <2>3, <2>4, <2>5, <2>6 DEF Moments
<1> QED
  BY <1>2, <1>4

FillBase == Base /\ FillInv
OneMoreFault == faults' = faults \/ faults' = faults + 1

\* A step that is not of this call, and that disturbs it unless it is calm, keeps its
\* fill.
LEMMA FilledLasts ==
    ASSUME Base, NEW c \in InFlight, NEW x \in Moments, NEW y \in Moments, Filled(c, x, y),
           request' = request, at'[c] = at[c], hits'[c] = hits[c], OneMoreFault, open' => open,
           (holder # c /\ holder' # c) \/ UNCHANGED <<holder, next, broken>>,
           c \notin disturbed' => c \notin disturbed /\ Calm
    PROVE  Filled(c, x, y)'
<1>1. Asked(c)' = Asked(c) /\ Stage(c)' = Stage(c)
  BY DEF Asked, Stage
<1>2. holder = c \/ holder' = c => UNCHANGED <<holder, next, broken>> /\ Ops' = Ops
  BY DEF Ops, Stage
<1>3. Over(c)' <=> Over(c)
  BY <1>2 DEF Over
<1>4. (holder' = c <=> holder = c) /\ (holder = c => broken' = broken /\ next' = next)
  BY <1>2
<1>5. faults \in Nat
  BY InteractionAssumption DEF Base, TypeOK
<1>6. (faults > 0 => faults' > 0) /\ (faults' = 0 => faults = 0)
  BY <1>5 DEF OneMoreFault
<1>7. Alone(c)' => Alone(c) /\ Calm
  BY <1>1, <1>6 DEF Alone
<1>8. Calm => /\ Achieved(c, x) => Achieved(c, x)'
              /\ Achieved(c, y) => Achieved(c, y)'
              /\ \A k, n : Writing(c, k, n) => Writing(c, k, n)'
  BY AchievedLasts
<1>9. \A h \in hits'[c] : h[1] \in 1..(IF Over(c)' THEN y[2] ELSE x[2])
  BY <1>3 DEF Filled
<1>10. holder' = c /\ broken' => Over(c)' /\ (Stage(c)'.strict \/ faults' > 0)
  BY <1>1, <1>3, <1>4, <1>6 DEF Filled
<1>11. Calm /\ holder = c => (Writing(c, x[2], next - 1) => Writing(c, x[2], next - 1)')
  <2>1. PICK n : n = next - 1
    OBVIOUS
  <2>2. holder = c => next' - 1 = n
    BY <1>4, <2>1
  <2>3. Calm => (Writing(c, x[2], n) => Writing(c, x[2], n)')
    BY <1>8
  <2>4. Writing(c, x[2], next - 1) => Writing(c, x[2], n)
    BY <2>1
  <2>5. holder = c => (Writing(c, x[2], n)' => Writing(c, x[2], next - 1)')
    BY <2>1, <2>2
  <2> QED
    BY <2>3, <2>4, <2>5
<1>12. Alone(c)' => IF holder' # c THEN open' => Achieved(c, x)'
                    ELSE broken' \/ IF Over(c)' THEN Achieved(c, y)'
                                    ELSE IF x[1] = "cleared" THEN Writing(c, x[2], next - 1)'
                                    ELSE Achieved(c, x)'
  BY <1>3, <1>4, <1>7, <1>8, <1>11 DEF Filled
<1> QED
  BY <1>9, <1>10, <1>12 DEF Filled

\* The fill of a call that does not move.
LEMMA FillStays ==
    ASSUME Base, FillInv, NEW c \in Callers, c \in InFlight' => c \in InFlight,
           request' = request, at'[c] = at[c], hits'[c] = hits[c], OneMoreFault, open' => open,
           (holder # c /\ holder' # c) \/ UNCHANGED <<holder, next, broken>>,
           c \in InFlight' /\ c \notin disturbed' => c \notin disturbed /\ Calm
    PROVE  /\ at'[c] = 0 => hits'[c] = {}
           /\ c \in InFlight' /\ Fill(Asked(c)') => Filled(c, Before(c), After(c))'
<1>1. /\ at[c] = 0 => hits[c] = {}
      /\ c \in InFlight /\ Fill(Asked(c)) => Filled(c, Before(c), After(c))
  BY DEF FillInv
<1>2. SUFFICES ASSUME c \in InFlight', Fill(Asked(c)')
               PROVE  Filled(c, Before(c), After(c))'
  BY <1>1
<1>3. Asked(c)' = Asked(c) /\ c \in InFlight
  BY <1>2 DEF Asked
<1>4. PICK x \in Moments, y \in Moments : x = Before(c) /\ y = After(c)
  BY <1>2, <1>3, FillAtWork
<1>5. x = Before(c)' /\ y = After(c)'
  BY <1>4 DEF Before, After
<1>6. Filled(c, x, y)
  BY <1>1, <1>2, <1>3, <1>4
<1>7. Filled(c, x, y)'
  BY <1>2, <1>3, <1>6, FilledLasts
<1> QED
  BY <1>5, <1>7

\* One call moves, or none.
LEMMA FillsStay ==
    ASSUME Base, FillInv, request' = request, NEW c, OneMoreFault, open' => open,
           \A x \in Callers \ {c} :
               /\ at'[x] = at[x] /\ hits'[x] = hits[x] /\ (x \in InFlight' => x \in InFlight)
               /\ (holder # x /\ holder' # x) \/ UNCHANGED <<holder, next, broken>>
               /\ x \in InFlight' /\ x \notin disturbed' => x \notin disturbed /\ Calm,
           c \in Callers => /\ at'[c] = 0 => hits'[c] = {}
                            /\ c \in InFlight' /\ Fill(Asked(c)') => Filled(c, Before(c), After(c))'
    PROVE  FillInv'
<1> SUFFICES ASSUME NEW x \in Callers
             PROVE  /\ at'[x] = 0 => hits'[x] = {}
                    /\ x \in InFlight' /\ Fill(Asked(x)') => Filled(x, Before(x), After(x))'
  BY DEF FillInv
<1>1. CASE x = c
  BY <1>1
<1>2. CASE x # c
  BY <1>2, FillStays
<1> QED
  BY <1>1, <1>2

----------------------------------------------------------------------------
(***************************************************************************)
(* The steps of a fill outside the engine.                                 *)
(***************************************************************************)
LEMMA Calmly ==
    /\ desk' = desk => Calm
    /\ desk \in Desks /\ (\E X : desk' = [desk EXCEPT !.held = @ \ X]) => Calm
<1>1. desk' = desk => Calm
  BY DEF Calm, Alike
<1>2. ASSUME desk \in Desks, NEW X, desk' = [desk EXCEPT !.held = @ \ X] PROVE Calm
  BY <1>2 DEF Calm, Alike, Desks
<1> QED
  BY <1>1, <1>2

\* A call that starts has clicked nothing.
LEMMA StartCallFill ==
    ASSUME FillBase, NEW c \in Callers, StartCall(c)
    PROVE  FillInv'
<1>1. Base /\ FillInv /\ Base'
  BY StartCallBase DEF FillBase
<1>2. /\ c \notin InFlight /\ \A x \in Callers \ {c} : at'[x] = at[x] /\ result'[x] = result[x]
      /\ \A x \in InFlight' : x # c => x \in InFlight
  BY <1>1, StartCallBase
<1>3. UNCHANGED <<request, hits, desk, faults, holder, next, broken, open, disturbed>> /\ at[c] = 0
  BY DEF StartCall, world, engine
<1>4. Calm
  BY <1>3, Calmly
<1>5. at'[c] = 1
  BY <1>1, StateTyped DEF StartCall
<1>6. hits'[c] = {}
  BY <1>1, <1>3 DEF FillInv
<1>7. holder' # c
  BY <1>1, <1>2, <1>3, JobAtWork, InteractionAssumption DEF Base
<1>8. ASSUME c \in InFlight', Fill(Asked(c)') PROVE Filled(c, Before(c), After(c))'
  <2>1. Before(c)' \in {<<"filled", 0>>, <<"clicked", 1>>}
    <3>1. request'[c] \in DOMAIN Requests /\ ~Refused(Requests[request'[c]])
      <4>1. TypeOK' /\ InScript'
        BY <1>1 DEF Base
      <4> QED
        BY <1>8, <4>1, InteractionAssumption DEF TypeOK, InScript, Asked
    <3>2. Ways(Requests[request'[c]], Scripts[request'[c]], Way(request'[c]))
      BY <1>8, <3>1, WayOf DEF Asked
    <3>3. Way(request'[c])[0] \in {<<"filled", 0>>, <<"clicked", 1>>}
      BY <3>2 DEF Ways
    <3>4. at'[c] - 1 = 0
      BY <1>5
    <3> QED
      BY <3>3, <3>4 DEF Before
  <2>2. PICK x, y : x = Before(c)' /\ y = After(c)'
    OBVIOUS
  <2>3. Achieved(c, x)'
    <3>1. LastHits(c)' = {}
      BY <1>6 DEF LastHits
    <3>2. CASE x[1] = "filled"
      BY <3>1, <3>2 DEF Achieved
    <3>3. CASE x[1] = "clicked"
      BY <3>1, <3>3 DEF Achieved, Aside
    <3> QED
      BY <2>1, <2>2, <3>2, <3>3
  <2>4. Filled(c, x, y)'
    BY <1>6, <1>7, <2>3 DEF Filled
  <2> QED
    BY <2>2, <2>4
<1> QED
  BY <1>1, <1>2, <1>3, <1>4, <1>6, <1>8, FillsStay DEF OneMoreFault

\* Steps in which no call moves and no job.
LEMMA StillFill ==
    ASSUME FillBase,
           \/ \E c \in Callers : Expire(c) \/ Cancel(c)
           \/ AppChanges \/ Close \/ UNCHANGED vars
    PROVE  FillInv'
<1>1. /\ Base /\ FillInv
      /\ UNCHANGED <<request, at, result, hits, faults, holder, next, broken>> /\ (open' => open)
  BY DEF FillBase, Expire, Cancel, AppChanges, Close, vars, call, world, engine, history
<1>2. InFlight' = InFlight
  BY <1>1, CallsStay
<1>3. (disturbed' = disturbed /\ desk' = desk) \/ disturbed' = disturbed \cup InFlight
  BY DEF Expire, Cancel, AppChanges, Close, vars, call, world, engine, history
<1>4. \A x \in InFlight' : x \notin disturbed' => x \notin disturbed /\ Calm
  BY <1>2, <1>3, Calmly
<1>5. Nobody \notin Callers
  BY InteractionAssumption
<1>6. \A x \in Callers \ {Nobody} :
          /\ at'[x] = at[x] /\ hits'[x] = hits[x] /\ (x \in InFlight' => x \in InFlight)
          /\ (holder # x /\ holder' # x) \/ UNCHANGED <<holder, next, broken>>
          /\ x \in InFlight' /\ x \notin disturbed' => x \notin disturbed /\ Calm
  BY <1>1, <1>2, <1>4
<1> QED
  BY <1>1, <1>5, <1>6, FillsStay DEF OneMoreFault

\* A call that goes on to the next stage of a fill, or ends.
LEMMA FillGoesOn ==
    ASSUME Base, NEW c \in InFlight, Fill(Asked(c)), request' = request, Advance(c), c \in InFlight'
    PROVE  at[c] # Len(Scripts[request[c]]) /\ Before(c)' = After(c) /\ Asked(c)' = Asked(c)
<1>1. at[c] \in Nat \ {0} /\ c \in Callers
      /\ (at[c] # Len(Scripts[request[c]]) => Way(request[c])[(at[c] + 1) - 1] = After(c))
  BY FillAtWork
<1>2. at[c] # Len(Scripts[request[c]])
  <2>1. End(c, "ok") => c \notin InFlight'
    BY <1>1 DEF End, InFlight, Base, TypeOK
  <2> QED
    BY <2>1 DEF Advance
<1>3. at' = [at EXCEPT ![c] = at[c] + 1]
  BY <1>2 DEF Advance, Goto
<1>4. at'[c] = at[c] + 1
  BY <1>1, <1>3 DEF Base, TypeOK
<1> QED
  BY <1>1, <1>2, <1>4 DEF Before, Asked

\* Once a text is typed, each field that was clicked last has its text.
LEMMA TextThere ==
    ASSUME NEW c, NEW k, Writing(c, k, Len(Asked(c).text))
    PROVE  \A h \in LastHits(c) : Texted(c, h)
<1> SUFFICES ASSUME NEW h \in LastHits(c) PROVE Texted(c, h)
  OBVIOUS
<1>1. h[2] # Nothing
  BY DEF LastHits
<1>2. CASE h[1] = k
  BY <1>1, <1>2 DEF Writing, Aside, Texted
<1>3. CASE h[1] # k
  BY <1>3 DEF Writing, Aside
<1> QED
  BY <1>2, <1>3

\* Resolving the targets of a fill clicks nothing and loses nothing.
LEMMA OutsideFill ==
    ASSUME FillBase, NEW c \in Callers,
           Take(c) \/ ResolveSelector(c) \/ Locate(c) \/ Evaluate(c) \/ Refuse(c)
    PROVE  FillInv'
<1>1. /\ Base /\ FillInv /\ Base' /\ c \in InFlight /\ holder # c /\ Moved(c)
      /\ UNCHANGED <<request, hits, desk, faults, holder, next, broken, open, disturbed>>
  <2>1. Base /\ FillInv
    BY DEF FillBase
  <2>2. UNCHANGED <<hits, faults, broken, open, disturbed>>
    BY DEF Take, ResolveSelector, Locate, Evaluate, Refuse, world, engine, history
  <2> QED
    BY <2>1, <2>2, Onward
<1>2. /\ \A x \in Callers \ {c} : at'[x] = at[x] /\ result'[x] = result[x]
      /\ \A x : x \in InFlight' => x \in InFlight
  BY <1>1, CallMoves DEF Base
<1>3. Calm
  BY <1>1, Calmly
<1>4. at'[c] # 0
  <2>1. at[c] \in 1..Len(Scripts[request[c]]) /\ at \in [Callers -> Nat]
    BY <1>1, AtWork DEF Base, TypeOK
  <2> QED
    BY <1>1, <2>1 DEF Moved, Goto, End
<1>5. ASSUME c \in InFlight', Fill(Asked(c)') PROVE Filled(c, Before(c), After(c))'
  <2>1. Asked(c)' = Asked(c)
    BY <1>1 DEF Asked
  <2>2. Fill(Asked(c))
    BY <1>5, <2>1
  <2>3. Filled(c, Before(c), After(c))
    BY <1>1, <2>2 DEF FillInv
  <2>4. PICK x \in Moments, y \in Moments : x = Before(c) /\ y = After(c)
    BY <1>1, <2>2, FillAtWork
  <2>5. /\ Leads(Asked(c), Stage(c), x, y) /\ Len(Asked(c).text) \in Int
        /\ Asked(c).tool = "Type" \/ Asked(c).tool = "MultiEdit"
        /\ at[c] = Len(Scripts[request[c]]) => y[1] \in {"entered", "typed"}
    BY <1>1, <2>2, <2>4, FillAtWork
  <2>6. \A r : ~End(c, r) \/ r = "none"
    <3>1. result \in [Callers -> {"none", "ok", "error", "timeout", "cancelled"}]
      BY <1>1 DEF Base, TypeOK
    <3> QED
      BY <1>5, <3>1 DEF End, InFlight
  <2>7. x[2] \in Nat /\ y[2] \in Nat /\ x = <<x[1], x[2]>> /\ x[1] # "judge"
    BY DEF Moments
  <2>8. Over(c)' = FALSE /\ Over(c) = FALSE
    BY <1>1 DEF Over
  <2>9. \A h \in hits[c] : h[1] \in 1..x[2]
    BY <2>3, <2>4, <2>8 DEF Filled
  <2>10. CASE Stage(c).do # "job"
    <3>1. /\ Stage(c).do \in {"point", "take", "resolve", "locate"}
          /\ x[1] \in {"filled", "typed"} /\ y[1] = "filled" /\ y[2] = x[2]
      <4>1. Stage(c) # TooLarge
        <5> SUFFICES ASSUME Stage(c) = TooLarge PROVE FALSE
          OBVIOUS
        <5>1. Stage(c).do = "refuse" /\ Stage(c).strict
          BY DEF TooLarge
        <5>2. Refuse(c)
          BY <5>1 DEF Take, ResolveSelector, Locate, Evaluate, AtStage
        <5>3. End(c, "error")
          BY <5>1, <5>2 DEF Refuse, JobOver
        <5> QED
          BY <2>6, <5>3
      <4> QED
        BY <2>5, <2>10, <4>1, OutsideLeads
    <3>2. Advance(c)
      <4>1. ~Evaluate(c) /\ ~Refuse(c)
        BY <3>1 DEF Evaluate, Refuse, AtStage
      <4>2. Asked(c).tool # "Assert"
        BY <2>5
      <4>3. Advance(c) \/ End(c, "error")
        BY <4>1, <4>2 DEF Take, ResolveSelector, Locate
      <4> QED
        BY <2>6, <4>3
    <3>3. Before(c)' = y
      BY <1>1, <1>5, <2>2, <2>4, <3>2, FillGoesOn
    <3>4. PICK z : z = After(c)'
      OBVIOUS
    <3>5. Achieved(c, x) => Achieved(c, y)
      <4>1. CASE x[1] = "filled"
        BY <3>1, <4>1 DEF Achieved
      <4>2. CASE x[1] = "typed"
        <5>1. Achieved(c, x) => Writing(c, x[2], Len(Asked(c).text))
          BY <4>2 DEF Achieved
        <5>2. Achieved(c, x) => \A h \in LastHits(c) : Texted(c, h)
          BY <5>1, TextThere
        <5> QED
          BY <3>1, <5>2 DEF Achieved
      <4> QED
        BY <3>1, <4>1, <4>2
    <3>6. Alone(c)' = Alone(c)
      BY <1>1, <2>1 DEF Alone
    <3>7. Achieved(c, y) => Achieved(c, y)'
      BY <1>1, <1>3, AchievedLasts
    <3>8. Alone(c)' => (open' => Achieved(c, y)')
      BY <1>1, <2>3, <2>4, <3>5, <3>6, <3>7 DEF Filled
    <3>9. \A h \in hits'[c] : h[1] \in 1..y[2]
      BY <1>1, <2>9, <3>1
    <3>10. Filled(c, y, z)'
      BY <1>1, <2>8, <3>8, <3>9 DEF Filled
    <3> QED
      BY <3>3, <3>4, <3>10
  <2>11. CASE Stage(c).do = "job"
    <3>1. Refuse(c)
      BY <2>11 DEF Take, ResolveSelector, Locate, Evaluate, AtStage
    <3>2. ~open /\ Advance(c)
      BY <2>6, <2>11, <3>1 DEF Refuse, JobOver, AtStage
    <3>3. Before(c)' = y
      BY <1>1, <1>5, <2>2, <2>4, <3>2, FillGoesOn
    <3>4. PICK z : z = After(c)'
      OBVIOUS
    <3>5. \A h \in hits'[c] : h[1] \in 1..y[2]
      <4>1. x[2] = y[2] \/ x[2] = y[2] - 1
        <5>1. \/ ClickJob(Stage(c), x, y, y[2]) \/ SelectJob(Stage(c), x, y, y[2])
              \/ DeleteJob(Stage(c), x, y, y[2]) \/ TypeJob(Stage(c), x, y, y[2], Len(Asked(c).text))
              \/ EnterJob(Stage(c), x, y, y[2])
          BY <2>5, <2>11, JobOfFill
        <5> QED
          BY <5>1 DEF ClickJob, SelectJob, DeleteJob, TypeJob, EnterJob
      <4>2. \A i \in 1..x[2] : i \in 1..y[2]
        BY <2>7, <4>1
      <4> QED
        BY <1>1, <2>9, <4>2
    <3>6. Filled(c, y, z)'
      BY <1>1, <2>8, <3>2, <3>5 DEF Filled
    <3> QED
      BY <3>3, <3>4, <3>6
  <2> QED
    BY <2>10, <2>11
<1> QED
  BY <1>1, <1>2, <1>3, <1>4, <1>5, FillsStay DEF OneMoreFault

\* A job that has nothing to do has done it.
LEMMA BeginFill ==
    ASSUME FillBase, NEW c \in Callers, Begin(c)
    PROVE  FillInv'
<1>1. /\ Base /\ FillInv /\ c \in InFlight /\ holder = Nobody /\ open /\ Stage(c).do = "job"
      /\ holder' = c /\ next' = 1 /\ broken' = FALSE /\ c # Nobody
      /\ UNCHANGED <<request, at, result, hits, desk, faults, open, disturbed>>
  BY InteractionAssumption DEF FillBase, Begin, AtStage, world, history
<1>2. InFlight' = InFlight
  BY <1>1, CallsStay
<1>3. Calm
  BY <1>1, Calmly
<1>4. at'[c] # 0
  BY <1>1, AtWork DEF Base
<1>5. ASSUME c \in InFlight', Fill(Asked(c)') PROVE Filled(c, Before(c), After(c))'
  <2>1. Asked(c)' = Asked(c) /\ Stage(c)' = Stage(c) /\ Ops' = Stage(c).ops
    BY <1>1 DEF Asked, Stage, Ops
  <2>2. Fill(Asked(c))
    BY <1>5, <2>1
  <2>3. Filled(c, Before(c), After(c))
    BY <1>1, <2>2 DEF FillInv
  <2>4. PICK x \in Moments, y \in Moments : x = Before(c) /\ y = After(c)
    BY <1>1, <2>2, FillAtWork
  <2>5. x = Before(c)' /\ y = After(c)'
    BY <1>1, <2>4 DEF Before, After
  <2>6. Leads(Asked(c), Stage(c), x, y) /\ Len(Asked(c).text) \in Int
    BY <1>1, <2>2, <2>4, FillAtWork
  <2>7. /\ y[2] \in Nat
        /\ \/ ClickJob(Stage(c), x, y, y[2]) \/ SelectJob(Stage(c), x, y, y[2])
           \/ DeleteJob(Stage(c), x, y, y[2]) \/ TypeJob(Stage(c), x, y, y[2], Len(Asked(c).text))
           \/ EnterJob(Stage(c), x, y, y[2])
    BY <1>1, <2>6, JobOfFill
  <2>8. Over(c)' => TypeJob(Stage(c), x, y, y[2], Len(Asked(c).text)) /\ Len(Asked(c).text) <= 0
    <3>1. Over(c)' => 1 > Len(Stage(c).ops)
      BY <1>1, <2>1 DEF Over
    <3> QED
      BY <2>6, <2>7, <3>1 DEF ClickJob, SelectJob, DeleteJob, TypeJob, EnterJob
  <2>9. \A h \in hits[c] : h[1] \in 1..x[2]
    <3>1. ~Over(c)
      BY <1>1 DEF Over
    <3> QED
      BY <2>3, <2>4, <3>1 DEF Filled
  <2>10. \A h \in hits'[c] : h[1] \in 1..(IF Over(c)' THEN y[2] ELSE x[2])
    <3>1. Over(c)' => x[2] = y[2]
      BY <2>8 DEF TypeJob
    <3> QED
      BY <1>1, <2>9, <3>1
  <2>11. Alone(c)' => Achieved(c, x)
    BY <1>1, <2>1, <2>3, <2>4 DEF Filled, Alone
  <2>12. \A m \in Moments : Achieved(c, m) => Achieved(c, m)'
    BY <1>1, <1>3, AchievedLasts
  <2>13. x[1] = "cleared" => (Achieved(c, x) => Writing(c, x[2], 0)')
    <3>1. x[1] = "cleared" => (Achieved(c, x) => Writing(c, x[2], 0))
      BY DEF Achieved
    <3>2. \A k, n : Writing(c, k, n) => Writing(c, k, n)'
      BY <1>1, <1>3, AchievedLasts
    <3> QED
      BY <3>1, <3>2
  <2>14. Writing(c, x[2], next - 1)' <=> Writing(c, x[2], 0)'
    <3>1. next' - 1 = 0
      BY <1>1
    <3> QED
      BY <3>1
  <2>15. Over(c)' /\ Achieved(c, x) => Achieved(c, y)'
    <3> SUFFICES ASSUME Over(c)', Achieved(c, x) PROVE Achieved(c, y)
      BY <2>12
    <3> DEFINE k == y[2]
    <3>1. x = <<"cleared", k>> /\ y = <<"typed", k>> /\ Len(Asked(c).text) <= 0
      BY <2>8 DEF TypeJob
    <3>2. x[1] = "cleared" /\ x[2] = k /\ y[1] = "typed"
      BY <3>1
    <3> HIDE DEF k
    <3>3. Writing(c, k, 0)
      BY <3>2 DEF Achieved
    <3>4. Written(c, k, 0) = Written(c, k, Len(Asked(c).text))
      <4>1. 1..Len(Asked(c).text) = {} /\ 1..0 = {}
        BY <2>6, <3>1
      <4> QED
        BY <4>1 DEF Written
    <3>5. Writing(c, k, Len(Asked(c).text))
      BY <3>3, <3>4 DEF Writing
    <3> QED
      BY <3>2, <3>5 DEF Achieved, k
  <2>16. Filled(c, x, y)'
    BY <1>1, <2>10, <2>11, <2>12, <2>13, <2>14, <2>15 DEF Filled
  <2> QED
    BY <2>5, <2>16
<1>6. \A x \in Callers \ {c} : holder # x /\ holder' # x
  BY <1>1, InteractionAssumption
<1> QED
  BY <1>1, <1>2, <1>3, <1>4, <1>5, <1>6, FillsStay DEF OneMoreFault

----------------------------------------------------------------------------
(***************************************************************************)
(* The jobs of a fill.                                                     *)
(***************************************************************************)
Shape(st, x, y, k, size) ==
    \/ ClickJob(st, x, y, k) \/ SelectJob(st, x, y, k) \/ DeleteJob(st, x, y, k)
    \/ TypeJob(st, x, y, k, size) \/ EnterJob(st, x, y, k)

\* What is known when the engine is at a job of a fill.
LEMMA FillAtJob ==
    ASSUME FillBase, NEW c, c = holder, c # Nobody, Fill(Asked(c))
    PROVE  /\ c \in Callers /\ c \in InFlight /\ next \in Nat \ {0} /\ Len(Ops) \in Nat
           /\ Stage(c).do = "job" /\ Ops = Stage(c).ops /\ broken \in BOOLEAN /\ faults \in Nat
           /\ Len(Asked(c).text) \in Int
           /\ \E x, y \in Moments :
                  /\ x = Before(c) /\ y = After(c) /\ Filled(c, x, y)
                  /\ Shape(Stage(c), x, y, y[2], Len(Asked(c).text))
                  /\ y[2] \in Nat /\ (x[2] = y[2] \/ x[2] = y[2] - 1)
                  /\ Asked(c).tool = "Type" => Stage(c).strict
                  /\ Asked(c).tool \in {"Type", "MultiEdit"}
                  /\ at[c] = Len(Scripts[request[c]]) =>
                         y[1] = IF Asked(c).tool = "Type" /\ Asked(c).enter THEN "entered" ELSE "typed"
<1>1. Base /\ FillInv /\ TypeOK /\ InScript /\ InJob
  BY DEF FillBase, Base
<1>2. /\ c \in Callers /\ c \in InFlight /\ next \in Nat \ {0} /\ Len(Ops) \in Nat
      /\ Stage(c).do = "job" /\ Ops = Stage(c).ops /\ broken \in BOOLEAN /\ faults \in Nat
  <2>1. holder # Nobody
    OBVIOUS
  <2>2. /\ holder \in Callers /\ holder \in InFlight /\ Stage(holder).do = "job"
        /\ next \in Nat \ {0} /\ Len(Ops) \in Nat
    BY <1>1, <2>1, JobAtWork
  <2>3. broken \in BOOLEAN /\ faults \in 0..MaxMishaps
    BY <1>1 DEF TypeOK
  <2>4. faults \in Nat
    BY <2>3
  <2> QED
    BY <2>2, <2>3, <2>4 DEF Ops
<1>3. Filled(c, Before(c), After(c))
  BY <1>1, <1>2 DEF FillInv
<1>4. PICK x \in Moments, y \in Moments : x = Before(c) /\ y = After(c)
  BY <1>1, <1>2, FillAtWork
<1>5. /\ Leads(Asked(c), Stage(c), x, y) /\ Len(Asked(c).text) \in Int
      /\ Asked(c).tool \in {"Type", "MultiEdit"}
      /\ at[c] = Len(Scripts[request[c]]) =>
             y[1] = IF Asked(c).tool = "Type" /\ Asked(c).enter THEN "entered" ELSE "typed"
  BY <1>1, <1>2, <1>4, FillAtWork
<1>6. /\ y[2] \in Nat /\ (Asked(c).tool = "Type" => Stage(c).strict)
      /\ Shape(Stage(c), x, y, y[2], Len(Asked(c).text))
  BY <1>2, <1>5, JobOfFill DEF Shape
<1>7. x[2] = y[2] \/ x[2] = y[2] - 1
  BY <1>6 DEF Shape, ClickJob, SelectJob, DeleteJob, TypeJob, EnterJob
<1> QED
  BY <1>2, <1>3, <1>4, <1>5, <1>6, <1>7

\* A job that ends has done what its stage leads to.
LEMMA EndJobFill ==
    ASSUME FillBase, EndJob
    PROVE  FillInv'
<1>1. PICK c : c = holder
  OBVIOUS
<1>2. /\ Base /\ FillInv /\ Base' /\ c \in InFlight /\ Moved(c) /\ Stage(c).do = "job" /\ c # Nobody
      /\ next > Len(Ops) /\ holder' = Nobody /\ c \in Callers
      /\ UNCHANGED <<request, hits, open, disturbed>>
  BY <1>1, EndJobBase DEF FillBase, EndJob, InFlight
<1>3. /\ \A x \in Callers \ {c} : at'[x] = at[x] /\ result'[x] = result[x]
      /\ \A x : x \in InFlight' => x \in InFlight
  BY <1>2, CallMoves DEF Base
<1>4. Calm /\ OneMoreFault
  <2>1. desk \in Desks
    BY <1>2, StateTyped
  <2> QED
    BY <2>1, Calmly DEF EndJob, Faulty, OneMoreFault
<1>5. at'[c] # 0
  <2>1. at[c] \in 1..Len(Scripts[request[c]]) /\ at \in [Callers -> Nat]
    BY <1>2, AtWork DEF Base, TypeOK
  <2> QED
    BY <1>2, <2>1 DEF Moved, Goto, End
<1>6. ASSUME c \in InFlight', Fill(Asked(c)') PROVE Filled(c, Before(c), After(c))'
  <2>1. Asked(c)' = Asked(c)
    BY <1>2 DEF Asked
  <2>2. Fill(Asked(c))
    BY <1>6, <2>1
  <2>3. PICK x \in Moments, y \in Moments :
          /\ x = Before(c) /\ y = After(c) /\ Filled(c, x, y)
          /\ Asked(c).tool = "Type" => Stage(c).strict
          /\ Asked(c).tool \in {"Type", "MultiEdit"}
    BY <1>1, <1>2, <2>2, FillAtJob
  <2>4. faults \in Nat /\ broken \in BOOLEAN
    BY <1>1, <1>2, <2>2, FillAtJob
  <2>5. ~End(c, "error")
    <3>1. result \in [Callers -> {"none", "ok", "error", "timeout", "cancelled"}]
      BY <1>2 DEF Base, TypeOK
    <3> QED
      BY <1>2, <1>6, <3>1 DEF End, InFlight
  <2>6. Advance(c) /\ ~(broken /\ Stage(c).strict)
    BY <1>1, <2>5 DEF EndJob, JobOver
  <2>7. Before(c)' = y
    BY <1>2, <1>6, <2>2, <2>3, <2>6, FillGoesOn
  <2>8. PICK z : z = After(c)'
    OBVIOUS
  <2>9. Over(c) /\ ~Over(c)' /\ holder' # c
    BY <1>1, <1>2 DEF Over
  <2>10. \A h \in hits'[c] : h[1] \in 1..y[2]
    BY <1>2, <2>3, <2>9 DEF Filled
  <2>11. Alone(c)' => Alone(c)
    BY <1>2, <1>4, <2>1, <2>4 DEF Alone, OneMoreFault
  <2>12. Alone(c) => ~broken
    <3>1. broken => faults > 0 /\ ~Stage(c).strict
      BY <1>1, <2>3, <2>6 DEF Filled
    <3> QED
      BY <2>3, <2>4, <3>1 DEF Alone
  <2>13. Alone(c) => Achieved(c, y)
    BY <1>1, <2>3, <2>9, <2>12 DEF Filled
  <2>14. Achieved(c, y) => Achieved(c, y)'
    BY <1>2, <1>4, AchievedLasts
  <2>15. Filled(c, y, z)'
    BY <2>9, <2>10, <2>11, <2>13, <2>14 DEF Filled
  <2> QED
    BY <2>7, <2>8, <2>15
<1>7. \A x \in Callers \ {c} : holder # x /\ holder' # x
  BY <1>1, <1>2, InteractionAssumption
<1>8. \A x \in Callers \ {c} : x \notin disturbed' => x \notin disturbed /\ Calm
  BY <1>2, <1>4
<1> QED
  BY <1>2, <1>3, <1>4, <1>5, <1>6, <1>7, <1>8, FillsStay

\* An operation gets in the way of every other call, or leaves the desktop alone.
LEMMA OperationFill ==
    ASSUME FillBase, Within,
           \A x \in Callers \ {holder} : hits'[x] = hits[x],
           (desk' = desk /\ disturbed' = disturbed) \/ InFlight \ {holder} \subseteq disturbed',
           Fill(Asked(holder)) => Filled(holder, Before(holder), After(holder))'
    PROVE  FillInv'
<1>1. PICK c : c = holder
  OBVIOUS
<1>2. /\ Base /\ FillInv /\ UNCHANGED <<request, at, result, open>> /\ c # Nobody
      /\ holder' = c /\ OneMoreFault
  BY <1>1 DEF FillBase, Within, Faulty, OneMoreFault
<1>3. c \in InFlight /\ c \in Callers
  BY <1>1, <1>2, JobAtWork DEF Base
<1>4. InFlight' = InFlight /\ Asked(c)' = Asked(c)
  BY <1>2, CallsStay
<1>5. at'[c] # 0
  BY <1>2, <1>3, AtWork DEF Base
<1>6. Fill(Asked(c)') => Filled(c, Before(c), After(c))'
  <2>1. Fill(Asked(c)') => Fill(Asked(holder))
    BY <1>1, <1>4
  <2>2. holder' = c
    BY <1>2
  <2>3. Filled(holder, Before(holder), After(holder))' => Filled(c, Before(c), After(c))'
    BY <1>1, <2>2
  <2> QED
    BY <2>1, <2>3
<1>7. \A x \in Callers \ {c} :
          /\ at'[x] = at[x] /\ hits'[x] = hits[x] /\ (x \in InFlight' => x \in InFlight)
          /\ holder # x /\ holder' # x
          /\ x \in InFlight' /\ x \notin disturbed' => x \notin disturbed /\ Calm
  BY <1>1, <1>2, <1>4, Calmly
<1> QED
  BY <1>2, <1>3, <1>5, <1>6, <1>7, FillsStay

\* A fill only aims and sends.
LEMMA FillActs ==
    ASSUME FillBase, NEW op, Running(op), Fill(Asked(holder))
    PROVE  op \in {"aim", "send"}
<1>1. PICK c : c = holder
  OBVIOUS
<1>2. c # Nobody /\ next <= Len(Ops) /\ Ops[next].op = op
  BY <1>1 DEF Running
<1>3. next \in Nat \ {0} /\ Len(Ops) \in Nat /\ Ops = Stage(c).ops
  BY <1>1, <1>2, FillAtJob
<1>4. PICK x, y \in Moments : Shape(Stage(c), x, y, y[2], Len(Asked(c).text))
  BY <1>1, <1>2, FillAtJob
<1>5. (\A k : Aim(k).op = "aim" /\ Press(k).op = "send") /\ (\A b : Send(b).op = "send")
  BY DEF Aim, Press, Send
<1>6. (\A keys : Shortcut(keys).op = "send") /\ (\A i, j : TypeOp(i, j).op = "send")
  BY <1>5 DEF Shortcut, TypeOp
<1>7. next \in 1..Len(Ops)
  BY <1>2, <1>3
<1> DEFINE st == Stage(c)
           k == y[2]
<1>8. CASE ClickJob(st, x, y, k)
  <2>1. next = 1 \/ next = 2
    BY <1>3, <1>7, <1>8 DEF ClickJob
  <2> QED
    BY <1>2, <1>3, <1>5, <1>8, <2>1 DEF ClickJob
<1>9. CASE SelectJob(st, x, y, k) \/ DeleteJob(st, x, y, k) \/ EnterJob(st, x, y, k)
  <2>1. next = 1
    BY <1>3, <1>7, <1>9 DEF SelectJob, DeleteJob, EnterJob
  <2> QED
    BY <1>2, <1>3, <1>6, <1>9, <2>1 DEF SelectJob, DeleteJob, EnterJob
<1>10. CASE TypeJob(st, x, y, k, Len(Asked(c).text))
  BY <1>2, <1>3, <1>6, <1>7, <1>10 DEF TypeJob
<1> QED
  BY <1>4, <1>8, <1>9, <1>10 DEF Shape

\* An operation of a fill that goes on, or that fails and ends its job.
LEMMA FillJobGoes ==
    ASSUME FillBase, Within, NEW c, c = holder, Fill(Asked(c)),
           NEW x, NEW y, x = Before(c), y = After(c),
           \A h \in hits'[c] : h[1] \in 1..(IF next' > Len(Ops) THEN y[2] ELSE x[2]),
           Done \/ (Break /\ (Stage(c).strict \/ faults' > 0)),
           Done /\ Alone(c)' => IF next' > Len(Ops) THEN Achieved(c, y)'
                                ELSE IF x[1] = "cleared" THEN Writing(c, x[2], next - 1)'
                                ELSE Achieved(c, x)'
    PROVE  Filled(c, Before(c), After(c))'
<1>1. c # Nobody /\ holder' = c /\ UNCHANGED <<request, at, result>> /\ next \in 1..Len(Ops)
  BY DEF Within
<1>2. next \in Nat /\ Len(Ops) \in Nat /\ broken \in BOOLEAN
  BY <1>1, FillAtJob
<1>3. Stage(c)' = Stage(c) /\ Ops' = Ops /\ Before(c)' = x /\ After(c)' = y
  BY <1>1 DEF Stage, Ops, Before, After
<1>4. Over(c)' <=> next' > Len(Ops)
  BY <1>1, <1>3 DEF Over
<1>5. ~broken
  <2>1. \E u, v : Filled(c, u, v)
    BY <1>1, FillAtJob
  <2>2. ~Over(c)
    BY <1>1, <1>2 DEF Over
  <2> QED
    BY <2>1, <2>2 DEF Filled
<1>6. Done => ~broken'
  BY <1>5 DEF Done
<1>7. Break => broken' /\ Over(c)'
  BY <1>2, <1>4 DEF Break
<1>8. Filled(c, x, y)'
  BY <1>1, <1>3, <1>4, <1>6, <1>7 DEF Filled
<1> QED
  BY <1>3, <1>8

\* The events of an operation are all injected, or something of it fails.
LEMMA FillSends ==
    ASSUME FillBase, SendBatch, NEW c, c = holder, Fill(Asked(c)), NEW b, b = Ops[next].events
    PROVE  /\ Running("send") /\ Within /\ Base /\ c \in Callers /\ desk \in Desks /\ screen \in Screens
           /\ hits'[c] = hits[c] \/ (/\ Ops[next].target > 0
                                     /\ hits'[c] = hits[c] \cup {<<Ops[next].target, Shows[screen][desk.cursor]>>})
           /\ \A x \in Callers \ {c} : hits'[x] = hits[x]
           /\ InFlight \ {c} \subseteq disturbed' /\ (c \notin disturbed' => c \notin disturbed)
           /\ \/ /\ Done /\ faults' = faults /\ desk' = Injected(c, desk, b)
                 /\ Ops[next].target > 0 /\ Len(b) > 0 =>
                        hits'[c] = hits[c] \cup {<<Ops[next].target, Shows[screen][desk.cursor]>>}
              \/ Break /\ faults' > 0
<1>1. Base /\ Running("send") /\ c \in Callers /\ desk \in Desks /\ screen \in Screens /\ faults \in Nat /\ c # Nobody
  <2>1. Base /\ Running("send")
    BY DEF FillBase, SendBatch
  <2>2. c \in Callers /\ c # Nobody
    BY <2>1, RunningOp
  <2>3. desk \in Desks /\ screen \in Screens
    BY <2>1, StateTyped
  <2>4. faults \in Nat
    BY <2>1, InteractionAssumption DEF Base, TypeOK
  <2> QED
    BY <2>1, <2>2, <2>3, <2>4
<1>2. Within
  BY <1>1, SendBatchBase
<1>3. b \in Seq(Events)
  BY <1>1, SentEvents
<1>4. hits \in [Callers -> SUBSET (Nat \X (Elements \cup {Nothing}))]
  BY <1>1, StateTyped
<1> DEFINE t == Ops[next].target
           h == <<t, Shows[screen][desk.cursor]>>
<1>5. PICK n \in 0..Len(b) :
        /\ IF n = Len(b) THEN Done /\ UNCHANGED faults ELSE Break /\ Faulty
        /\ desk' = Injected(c, desk, SubSeq(b, 1, n))
        /\ hits' = IF t > 0 /\ n > 0 THEN [hits EXCEPT ![c] = @ \cup {h}] ELSE hits
  BY DEF SendBatch
<1> HIDE DEF t, h
<1>6. /\ hits'[c] = hits[c] \/ (t > 0 /\ hits'[c] = hits[c] \cup {h})
      /\ t > 0 /\ n > 0 => hits'[c] = hits[c] \cup {h}
      /\ \A x \in Callers \ {c} : hits'[x] = hits[x]
  BY <1>1, <1>4, <1>5
<1>7. InFlight \ {c} \subseteq disturbed' /\ (c \notin disturbed' => c \notin disturbed)
  BY DEF SendBatch, Interfere
<1>8. CASE n = Len(b)
  <2>1. SubSeq(b, 1, n) = b
    BY <1>3, <1>8, WholeBatch
  <2> QED
    BY <1>1, <1>2, <1>5, <1>6, <1>7, <1>8, <2>1 DEF t, h
<1>9. CASE n # Len(b)
  <2>1. Break /\ faults' > 0
    BY <1>1, <1>5, <1>9 DEF Faulty
  <2> QED
    BY <1>1, <1>2, <1>6, <1>7, <2>1 DEF t, h
<1> QED
  BY <1>8, <1>9

\* Shortcuts and typing have no target; a click has the one it was aimed at.
LEMMA Untargeted ==
    /\ \A keys : Shortcut(keys).target = 0
    /\ \A i, j : TypeOp(i, j).target = 0
    /\ \A k : Press(k).target = k /\ Aim(k).target = k
BY DEF Shortcut, TypeOp, Press, Aim, Send

\* An operation of a job that may be that of a fill.
LEMMA OwnFill ==
    ASSUME FillBase, Within,
           \A x \in Callers \ {holder} : hits'[x] = hits[x],
           InFlight \ {holder} \subseteq disturbed',
           NEW c, c = holder, Fill(Asked(c)) => Filled(c, Before(c), After(c))'
    PROVE  FillInv'
<1>1. holder' = c
  BY DEF Within
<1>2. Filled(c, Before(c), After(c))' => Filled(holder, Before(holder), After(holder))'
  BY <1>1
<1>3. Fill(Asked(holder)) => Filled(holder, Before(holder), After(holder))'
  BY <1>2
<1> QED
  BY <1>3, OperationFill

\* The first step towards a field gets the fill out of the way of what others did.
LEMMA AimCursorFill ==
    ASSUME FillBase, AimCursor
    PROVE  FillInv'
<1>1. Base /\ Within /\ Running("aim") /\ UNCHANGED hits
  BY AimCursorBase DEF FillBase, AimCursor
<1>2. InFlight \ {holder} \subseteq disturbed'
  BY DEF AimCursor
<1>3. ASSUME NEW c, c = holder, Fill(Asked(c)) PROVE Filled(c, Before(c), After(c))'
  <2>1. c # Nobody /\ next \in 1..Len(Ops) /\ Ops[next].op = "aim" /\ request' = request
    BY <1>1, <1>3, RunningOp DEF Within
  <2>2. PICK x \in Moments, y \in Moments :
          /\ x = Before(c) /\ y = After(c) /\ Filled(c, x, y)
          /\ Shape(Stage(c), x, y, y[2], Len(Asked(c).text)) /\ y[2] \in Nat
    BY <1>3, <2>1, FillAtJob
  <2>3. next \in Nat \ {0} /\ Len(Ops) \in Nat /\ Ops = Stage(c).ops
    BY <1>3, <2>1, FillAtJob
  <2> DEFINE k == y[2]
             st == Stage(c)
  <2>4. ClickJob(st, x, y, k) /\ next = 1
    <3>1. (\A keys : Shortcut(keys).op # "aim") /\ (\A i, j : TypeOp(i, j).op # "aim") /\ (\A i : Press(i).op # "aim")
      BY DEF Shortcut, TypeOp, Send, Press
    <3>2. ~SelectJob(st, x, y, k) /\ ~DeleteJob(st, x, y, k) /\ ~EnterJob(st, x, y, k)
      <4>1. SelectJob(st, x, y, k) \/ DeleteJob(st, x, y, k) \/ EnterJob(st, x, y, k) => next = 1
        BY <2>1, <2>3 DEF SelectJob, DeleteJob, EnterJob
      <4> QED
        BY <2>1, <2>3, <3>1, <4>1 DEF SelectJob, DeleteJob, EnterJob
    <3>3. ~TypeJob(st, x, y, k, Len(Asked(c).text))
      BY <2>1, <2>3, <3>1 DEF TypeJob
    <3>4. ClickJob(st, x, y, k)
      BY <2>2, <3>2, <3>3 DEF Shape
    <3>5. next = 1 \/ next = 2
      BY <2>1, <2>3, <3>4 DEF ClickJob
    <3> QED
      BY <2>1, <2>3, <3>1, <3>4, <3>5 DEF ClickJob
  <2>5. st.strict /\ Len(Ops) = 2 /\ Ops[next].target = k /\ x = <<"filled", k - 1>> /\ x[1] = "filled" /\ x[2] = k - 1
    BY <2>3, <2>4, Untargeted DEF ClickJob
  <2>6. \A h \in hits[c] : h[1] \in 1..(k - 1)
    <3>1. ~Over(c)
      BY <2>3, <2>4, <2>5 DEF Over
    <3> QED
      BY <2>2, <2>5, <3>1 DEF Filled
  <2>7. \A h \in hits'[c] : h[1] \in 1..(IF next' > Len(Ops) THEN y[2] ELSE x[2])
    <3>1. \A i \in 1..(k - 1) : i \in 1..k
      BY <2>2
    <3> QED
      BY <1>1, <2>5, <2>6, <3>1
  <2>8. Done \/ (Break /\ st.strict)
    BY <2>5 DEF AimCursor
  <2>9. Done => next' = 2 /\ ~(next' > Len(Ops))
    BY <2>4, <2>5 DEF Done
  <2>10. Calm
    <3>1. desk \in Desks
      BY <1>1, StateTyped
    <3> QED
      BY <3>1 DEF AimCursor, Calm, Alike, Desks
  <2>11. Alone(c)' => Achieved(c, x)'
    <3>1. CASE k = 1
      <4>1. hits'[c] = {}
        BY <1>1, <2>6, <3>1
      <4>2. LastHits(c)' = {}
        BY <4>1 DEF LastHits
      <4> QED
        BY <2>5, <4>2 DEF Achieved
    <3>2. CASE k # 1
      <4>1. Ops[next].target # 1
        BY <2>5, <3>2
      <4>2. c \notin disturbed' => c \notin disturbed
        BY <1>3, <4>1 DEF AimCursor
      <4>3. faults' = 0 => faults = 0
        <5>1. faults \in Nat
          BY <1>3, <2>1, FillAtJob
        <5> QED
          BY <1>1, <5>1 DEF Within, Faulty
      <4>4. Alone(c)' => Alone(c)
        BY <2>1, <4>2, <4>3 DEF Alone, Asked
      <4>5. Alone(c) => broken \/ Achieved(c, x)
        <5>1. ~Over(c)
          BY <2>3, <2>4, <2>5 DEF Over
        <5> QED
          BY <1>3, <2>2, <2>5, <5>1 DEF Filled
      <4>6. ~broken
        <5>1. ~Over(c)
          BY <2>3, <2>4, <2>5 DEF Over
        <5> QED
          BY <1>3, <2>2, <5>1 DEF Filled
      <4>7. Achieved(c, x) => Achieved(c, x)'
        BY <1>1, <2>1, <2>10, AchievedLasts
      <4> QED
        BY <4>4, <4>5, <4>6, <4>7
    <3> QED
      BY <3>1, <3>2
  <2>12. x[1] # "cleared"
    BY <2>5
  <2> QED
    BY <1>1, <1>3, <2>2, <2>7, <2>8, <2>9, <2>11, <2>12, FillJobGoes
<1>4. PICK c : c = holder
  OBVIOUS
<1>5. Fill(Asked(c)) => Filled(c, Before(c), After(c))'
  BY <1>3, <1>4
<1> QED
  BY <1>1, <1>2, <1>4, <1>5, OwnFill

\* What a fill has when its job sends something.
LEMMA FillHas ==
    ASSUME FillBase, SendBatch, NEW c, c = holder, Fill(Asked(c)), NEW x, NEW y, Filled(c, x, y)
    PROVE  /\ c # Nobody /\ next \in 1..Len(Ops) /\ next \in Nat \ {0} /\ Len(Ops) \in Nat
           /\ Ops = Stage(c).ops /\ Ops[next].op = "send"
           /\ request' = request /\ Asked(c)' = Asked(c)
           /\ \A h \in hits[c] : h[1] \in 1..x[2]
           /\ Alone(c)' /\ faults' = faults =>
                  /\ x[1] = "cleared" => Writing(c, x[2], next - 1)
                  /\ x[1] # "cleared" => Achieved(c, x)
<1>1. Running("send") /\ Within /\ Base /\ (c \notin disturbed' => c \notin disturbed)
  BY FillSends
<1>2. c # Nobody /\ next \in 1..Len(Ops) /\ Ops[next].op = "send" /\ request' = request
  BY <1>1, RunningOp DEF Within
<1>3. next \in Nat \ {0} /\ Len(Ops) \in Nat /\ Ops = Stage(c).ops
  BY <1>2, FillAtJob
<1>4. ~Over(c)
  BY <1>2, <1>3 DEF Over
<1>5. ~broken /\ \A h \in hits[c] : h[1] \in 1..x[2]
  BY <1>4 DEF Filled
<1>6. Asked(c)' = Asked(c)
  BY <1>2 DEF Asked
<1>7. Alone(c)' /\ faults' = faults => Alone(c)
  BY <1>1, <1>6 DEF Alone
<1>8. Alone(c) => /\ x[1] = "cleared" => Writing(c, x[2], next - 1)
                  /\ x[1] # "cleared" => Achieved(c, x)
  BY <1>4, <1>5 DEF Filled
<1> QED
  BY <1>2, <1>3, <1>5, <1>6, <1>7, <1>8

\* The last stage of a job that does one thing.
LEMMA OneThing ==
    ASSUME FillBase, SendBatch, NEW c, c = holder, Fill(Asked(c)),
           NEW x, NEW y, x = Before(c), y = After(c), Filled(c, x, y), x[2] = y[2],
           Asked(c).tool = "Type" => Stage(c).strict, Asked(c).tool \in {"Type", "MultiEdit"},
           Len(Ops) = 1, Ops[1].target = 0,
           desk' = Injected(c, desk, Ops[1].events) /\ faults' = faults /\ Alone(c)' /\ hits'[c] = hits[c]
           => Achieved(c, y)'
    PROVE  Filled(c, Before(c), After(c))'
<1>1. next = 1 /\ \A h \in hits[c] : h[1] \in 1..x[2]
  BY FillHas
<1>2. /\ Within /\ hits'[c] = hits[c]
      /\ (Done /\ faults' = faults /\ desk' = Injected(c, desk, Ops[next].events)) \/ (Break /\ faults' > 0)
  BY <1>1, FillSends
<1>3. next' = 2
  BY <1>1, <1>2 DEF Done, Break
<1>4. \A h \in hits'[c] : h[1] \in 1..(IF next' > Len(Ops) THEN y[2] ELSE x[2])
  BY <1>1, <1>2, <1>3
<1>5. Done => ~Break
  <2>1. ~broken
    <3>1. ~Over(c)
      BY <1>1 DEF Over
    <3> QED
      BY <3>1 DEF Filled
  <2>2. c # Nobody
    BY FillHas
  <2>3. broken \in BOOLEAN
    BY <2>2, FillAtJob
  <2> QED
    BY <2>1, <2>3 DEF Done, Break
<1>6. Done /\ Alone(c)' => Achieved(c, y)'
  BY <1>1, <1>2, <1>5
<1>7. next' > Len(Ops)
  BY <1>3
<1> QED
  BY <1>2, <1>4, <1>6, <1>7, FillJobGoes

\* Texts elsewhere than where the focus is stay as they are.
LEMMA AsideKept ==
    ASSUME Base, NEW c, NEW k, Aside(c, k), request' = request, hits'[c] = hits[c], c \in Callers,
           desk'.focus = desk.focus, \A e \in Elements : e # desk.focus => desk'.text[e] = desk.text[e]
    PROVE  Aside(c, k)'
<1>1. LastHits(c)' = LastHits(c)
  BY DEF LastHits
<1> SUFFICES ASSUME NEW h \in LastHits(c)
             PROVE  IF h[1] = k THEN h[2] = desk.focus ELSE h[2] # desk.focus /\ Texted(c, h)'
  BY <1>1 DEF Aside
<1>2. IF h[1] = k THEN h[2] = desk.focus ELSE h[2] # desk.focus /\ Texted(c, h)
  BY DEF Aside
<1>3. h[2] \in Elements
  <2>1. hits[c] \subseteq Nat \X (Elements \cup {Nothing})
    BY StateTyped
  <2> QED
    BY <2>1 DEF LastHits
<1> QED
  BY <1>2, <1>3 DEF Texted, Asked

\* A text with one more character.
LEMMA WrittenMore ==
    ASSUME NEW c, NEW k, NEW n \in Nat \ {0}
    PROVE  Append(Written(c, k, n - 1), Token(c, k, n)) = Written(c, k, n)
<1> DEFINE T == { Token(c, k, j) : j \in Nat }
           u == Written(c, k, n - 1)
           v == Written(c, k, n)
           w == Append(u, Token(c, k, n))
           t(j) == Token(c, k, j)
<1>1. \A j \in Nat : t(j) \in T
  OBVIOUS
<1>2. u = [j \in 1..(n - 1) |-> t(j)] /\ v = [j \in 1..n |-> t(j)] /\ w = Append(u, t(n))
  BY DEF Written
<1> HIDE DEF T, u, v, w, t
<1>3. u \in Seq(T) /\ Len(u) = n - 1 /\ v \in Seq(T) /\ Len(v) = n /\ t(n) \in T
  BY <1>1, <1>2
<1>4. w \in Seq(T) /\ Len(w) = n /\ \A j \in 1..n : w[j] = v[j]
  <2>1. w \in Seq(T) /\ Len(w) = n
    BY <1>2, <1>3
  <2>2. \A j \in 1..n : w[j] = IF j = n THEN t(n) ELSE u[j]
    BY <1>2, <1>3
  <2> QED
    BY <1>2, <2>1, <2>2
<1>5. \A f, g \in Seq(T) : Len(f) = Len(g) /\ (\A p \in 1..Len(f) : f[p] = g[p]) => f = g
  OBVIOUS
<1> QED
  BY <1>3, <1>4, <1>5 DEF u, v, w, t

\* The click of a fill moves the focus: what is left is written, what is new is
\* clicked.
LEMMA PressFill ==
    ASSUME FillBase, SendBatch, NEW c, c = holder, Fill(Asked(c)), NEW x, NEW y,
           x = Before(c), y = After(c), Filled(c, x, y), NEW k \in Nat, ClickJob(Stage(c), x, y, k)
    PROVE  Filled(c, Before(c), After(c))'
<1>1. /\ next \in 1..Len(Ops) /\ Ops = Stage(c).ops /\ Ops[next].op = "send" /\ request' = request
      /\ Asked(c)' = Asked(c) /\ (\A h \in hits[c] : h[1] \in 1..x[2])
  BY FillHas
<1>2. x = <<"filled", k - 1>> /\ x[1] = "filled" /\ x[2] = k - 1 /\ y = <<"clicked", k>> /\ y[1] = "clicked" /\ y[2] = k
      /\ Stage(c).strict /\ k # 0
  BY DEF ClickJob
<1>3. next = 2 /\ Len(Ops) = 2 /\ Ops[next] = Press(k)
  <2>1. Aim(k).op # "send"
    BY DEF Aim
  <2>2. Len(Ops) = 2 /\ (next = 1 \/ next = 2)
    BY <1>1 DEF ClickJob
  <2> QED
    BY <1>1, <2>1, <2>2 DEF ClickJob
<1>4. Ops[next].target = k /\ Len(Press(k).events) = 2
  <2>1. Len(<<Down("button"), Up("button")>>) = 2
    OBVIOUS
  <2> QED
    BY <1>3, <2>1, Untargeted DEF Press
<1> DEFINE e == Shows[screen][desk.cursor]
<1>5. /\ Within /\ c \in Callers /\ desk \in Desks /\ screen \in Screens
      /\ hits'[c] = hits[c] \/ hits'[c] = hits[c] \cup {<<k, e>>}
      /\ \/ /\ Done /\ faults' = faults /\ desk' = Injected(c, desk, Press(k).events)
            /\ hits'[c] = hits[c] \cup {<<k, e>>}
         \/ Break
  <2>1. k > 0 /\ 2 > 0
    BY <1>2
  <2>2. PICK b : b = Press(k).events /\ b = Ops[next].events /\ Len(b) = 2
    BY <1>3, <1>4
  <2>3. /\ Within /\ c \in Callers /\ desk \in Desks /\ screen \in Screens
        /\ hits'[c] = hits[c] \/ hits'[c] = hits[c] \cup {<<k, e>>}
    BY <1>4, <2>2, FillSends
  <2>4. \/ /\ Done /\ faults' = faults /\ desk' = Injected(c, desk, b)
           /\ k > 0 /\ Len(b) > 0 => hits'[c] = hits[c] \cup {<<k, e>>}
        \/ Break
    BY <1>4, <2>2, FillSends
  <2> HIDE DEF e
  <2> QED
    BY <2>1, <2>2, <2>3, <2>4
<1>6. next' = 3 /\ next' > Len(Ops)
  BY <1>3, <1>5 DEF Done, Break
<1> HIDE DEF e
<1>7. \A h \in hits'[c] : h[1] \in 1..k
  <2>1. \A i \in 1..(k - 1) : i \in 1..k
    OBVIOUS
  <2>2. k \in 1..k /\ <<k, e>>[1] = k
    BY <1>2
  <2> QED
    BY <1>1, <1>2, <1>5, <2>1, <2>2
<1>8. Done => ~Break
  <2>1. ~broken
    <3>1. ~Over(c)
      BY <1>3 DEF Over
    <3> QED
      BY <3>1 DEF Filled
  <2>2. c # Nobody
    BY FillHas
  <2>3. broken \in BOOLEAN
    BY <2>2, FillAtJob
  <2> QED
    BY <2>1, <2>3 DEF Done, Break
<1>9. ASSUME Done, Alone(c)' PROVE Achieved(c, y)'
  <2>1. faults' = faults /\ desk' = Injected(c, desk, Press(k).events) /\ hits'[c] = hits[c] \cup {<<k, e>>}
    BY <1>5, <1>8, <1>9
  <2>2. \A h \in LastHits(c) : Texted(c, h)
    <3>1. Achieved(c, x)
      BY <1>2, <1>9, <2>1, FillHas
    <3> QED
      BY <1>2, <3>1 DEF Achieved
  <2>3. desk'.focus = e /\ desk'.text = desk.text
    BY <1>5, <2>1, Clicked DEF e
  <2>4. ASSUME NEW h \in LastHits(c)'
        PROVE  IF h[1] = k THEN h[2] = desk'.focus ELSE h[2] # desk'.focus /\ Texted(c, h)'
    <3>1. h \in hits'[c] /\ h[2] # Nothing /\ \A z \in hits'[c] : z[2] = h[2] => z[1] <= h[1]
      BY DEF LastHits
    <3>2. CASE h = <<k, e>>
      BY <2>3, <3>2
    <3>3. CASE h \in hits[c]
      <4>1. h[1] \in 1..(k - 1)
        BY <1>1, <1>2, <3>3
      <4>2. h[2] # e
        <5>1. <<k, e>> \in hits'[c] /\ <<k, e>>[1] = k /\ <<k, e>>[2] = e
          BY <2>1
        <5>2. ~(k <= h[1])
          BY <4>1
        <5> QED
          BY <3>1, <5>1, <5>2
      <4>3. h \in LastHits(c)
        BY <2>1, <3>1, <3>3 DEF LastHits
      <4>4. Texted(c, h)'
        BY <1>1, <2>2, <2>3, <4>3 DEF Texted
      <4> QED
        BY <2>3, <4>1, <4>2, <4>4
    <3> QED
      BY <2>1, <3>1, <3>2, <3>3
  <2>5. Aside(c, k)'
    BY <2>4 DEF Aside
  <2> QED
    BY <1>2, <2>5 DEF Achieved
<1>10. \A h \in hits'[c] : h[1] \in 1..(IF next' > Len(Ops) THEN y[2] ELSE x[2])
  BY <1>2, <1>6, <1>7
<1>11. Done \/ (Break /\ (Stage(c).strict \/ faults' > 0))
  BY <1>2, <1>5
<1> QED
  BY <1>5, <1>6, <1>9, <1>10, <1>11, FillJobGoes

\* Ctrl+A of a fill selects the field at hand.
LEMMA SelectFill ==
    ASSUME FillBase, SendBatch, NEW c, c = holder, Fill(Asked(c)), NEW x, NEW y,
           x = Before(c), y = After(c), Filled(c, x, y), NEW k \in Nat, SelectJob(Stage(c), x, y, k),
           Asked(c).tool = "Type" => Stage(c).strict, Asked(c).tool \in {"Type", "MultiEdit"}
    PROVE  Filled(c, Before(c), After(c))'
<1>1. x[1] = "clicked" /\ x[2] = k /\ y[1] = "selected" /\ y[2] = k
  BY DEF SelectJob
<1>2. Len(Ops) = 1 /\ Ops[1] = Shortcut(<<"ctrl", "a">>) /\ Ops[1].target = 0 /\ request' = request
  BY FillHas, Untargeted DEF SelectJob
<1>3. c \in Callers /\ desk \in Desks /\ screen \in Screens
  BY FillSends
<1>4. ASSUME desk' = Injected(c, desk, Ops[1].events), faults' = faults, Alone(c)', hits'[c] = hits[c]
      PROVE  Achieved(c, y)'
  <2>1. Aside(c, k)
    <3>1. Achieved(c, x)
      BY <1>1, <1>4, FillHas
    <3> QED
      BY <1>1, <3>1 DEF Achieved
  <2>2. desk'.focus = desk.focus /\ desk'.text = desk.text /\ desk'.selected = desk.focus /\ "ctrl" \notin desk'.held
    BY <1>2, <1>3, <1>4, SelectedAll
  <2>3. LastHits(c)' = LastHits(c)
    BY <1>4 DEF LastHits
  <2>4. Aside(c, k)'
    BY <1>2, <2>1, <2>2, <2>3 DEF Aside, Texted, Asked
  <2> QED
    BY <1>1, <2>2, <2>4 DEF Achieved
<1> QED
  BY <1>1, <1>2, <1>4, OneThing

\* Delete of a fill empties the field at hand.
LEMMA DeleteFill ==
    ASSUME FillBase, SendBatch, NEW c, c = holder, Fill(Asked(c)), NEW x, NEW y,
           x = Before(c), y = After(c), Filled(c, x, y), NEW k \in Nat, DeleteJob(Stage(c), x, y, k),
           Asked(c).tool = "Type" => Stage(c).strict, Asked(c).tool \in {"Type", "MultiEdit"}
    PROVE  Filled(c, Before(c), After(c))'
<1>1. x[1] = "selected" /\ x[2] = k /\ y[1] = "cleared" /\ y[2] = k
  BY DEF DeleteJob
<1>2. Len(Ops) = 1 /\ Ops[1] = Shortcut(<<"delete">>) /\ Ops[1].target = 0 /\ request' = request
  BY FillHas, Untargeted DEF DeleteJob
<1>3. c \in Callers /\ desk \in Desks /\ screen \in Screens
  BY FillSends
<1>4. ASSUME desk' = Injected(c, desk, Ops[1].events), faults' = faults, Alone(c)', hits'[c] = hits[c]
      PROVE  Achieved(c, y)'
  <2>1. Aside(c, k) /\ desk.selected = desk.focus /\ "ctrl" \notin desk.held
    <3>1. Achieved(c, x)
      BY <1>1, <1>4, FillHas
    <3> QED
      BY <1>1, <3>1 DEF Achieved
  <2>2. /\ desk'.focus = desk.focus /\ desk'.selected = Nothing /\ "ctrl" \notin desk'.held
        /\ desk.focus # Nothing => desk'.text[desk.focus] = <<>>
        /\ \A e \in Elements : e # desk.focus => desk'.text[e] = desk.text[e]
    BY <1>2, <1>3, <1>4, <2>1, Deleted
  <2>3. Aside(c, k)'
    BY <1>2, <1>3, <1>4, <2>1, <2>2, AsideKept DEF FillBase
  <2>4. Written(c, k, 0) = <<>>
    BY DEF Written
  <2>5. Writing(c, k, 0)'
    BY <2>2, <2>3, <2>4 DEF Writing
  <2> QED
    BY <1>1, <2>5 DEF Achieved
<1> QED
  BY <1>1, <1>2, <1>4, OneThing

\* A character of a fill is the next of its text in the field at hand.
LEMMA TypeFill ==
    ASSUME FillBase, SendBatch, NEW c, c = holder, Fill(Asked(c)), NEW x, NEW y,
           x = Before(c), y = After(c), Filled(c, x, y), NEW k \in Nat,
           TypeJob(Stage(c), x, y, k, Len(Asked(c).text)), Len(Asked(c).text) \in Int
    PROVE  Filled(c, Before(c), After(c))'
<1> DEFINE size == Len(Asked(c).text)
<1>1. x[1] = "cleared" /\ x[2] = k /\ y[1] = "typed" /\ y[2] = k /\ Stage(c).strict
  BY DEF TypeJob
<1>2. /\ next \in 1..Len(Ops) /\ Ops[next] = TypeOp(k, next) /\ Len(Ops) = (IF size < 0 THEN 0 ELSE size)
      /\ request' = request /\ Asked(c)' = Asked(c) /\ next \in Nat \ {0} /\ Len(Ops) \in Nat
      /\ \A h \in hits[c] : h[1] \in 1..x[2]
  BY FillHas DEF TypeJob
<1>3. PICK n \in Nat \ {0} : n = next
  BY <1>2
<1>4. Ops[next].target = 0
  BY <1>2, Untargeted
<1>5. /\ Within /\ c \in Callers /\ desk \in Desks /\ screen \in Screens /\ hits'[c] = hits[c]
      /\ (Done /\ faults' = faults /\ desk' = Injected(c, desk, TypeOp(k, n).events)) \/ Break
  BY <1>2, <1>3, <1>4, FillSends
<1>6. \A h \in hits'[c] : h[1] \in 1..(IF next' > Len(Ops) THEN y[2] ELSE x[2])
  BY <1>1, <1>2, <1>5
<1>7. Done => ~Break
  <2>1. ~broken
    <3>1. ~Over(c)
      BY <1>2 DEF Over
    <3> QED
      BY <3>1 DEF Filled
  <2>2. c # Nobody
    BY FillHas
  <2>3. broken \in BOOLEAN
    BY <2>2, FillAtJob
  <2> QED
    BY <2>1, <2>3 DEF Done, Break
<1>8. ASSUME Done, Alone(c)' PROVE Writing(c, k, n)'
  <2>1. faults' = faults /\ desk' = Injected(c, desk, TypeOp(k, n).events)
    BY <1>5, <1>7, <1>8
  <2>2. Writing(c, k, n - 1)
    BY <1>1, <1>3, <1>8, <2>1, FillHas
  <2>3. /\ Aside(c, k) /\ desk.selected = Nothing /\ "ctrl" \notin desk.held
        /\ desk.focus # Nothing => desk.text[desk.focus] = Written(c, k, n - 1)
    BY <2>2 DEF Writing
  <2>4. /\ desk'.focus = desk.focus /\ desk'.selected = Nothing /\ "ctrl" \notin desk'.held
        /\ desk.focus # Nothing => desk'.text[desk.focus] = Append(desk.text[desk.focus], Token(c, k, n))
        /\ \A e \in Elements : e # desk.focus => desk'.text[e] = desk.text[e]
    <3>1. n \in Nat
      OBVIOUS
    <3>2. PICK b, z : b = TypeOp(k, n).events /\ z = Injected(c, desk, b)
      OBVIOUS
    <3>3. /\ z.focus = desk.focus /\ z.selected = Nothing /\ "ctrl" \notin z.held
          /\ desk.focus # Nothing => z.text[desk.focus] = Append(desk.text[desk.focus], Token(c, k, n))
          /\ \A e \in Elements : e # desk.focus => z.text[e] = desk.text[e]
      <4>1. /\ screen \in Screens /\ c \in Callers /\ desk \in Desks /\ k \in Nat
            /\ desk.selected = Nothing /\ "ctrl" \notin desk.held
        BY <1>5, <2>3
      <4> QED
        BY <3>1, <3>2, <4>1, CharacterTyped
    <3> QED
      BY <2>1, <3>2, <3>3
  <2>5. Aside(c, k)'
    BY <1>2, <1>5, <2>3, <2>4, AsideKept DEF FillBase
  <2>6. Append(Written(c, k, n - 1), Token(c, k, n)) = Written(c, k, n)
    BY <1>5, WrittenMore
  <2> QED
    BY <2>3, <2>4, <2>5, <2>6 DEF Writing
<1>9. ASSUME Done, Alone(c)' PROVE IF next' > Len(Ops) THEN Achieved(c, y)' ELSE Writing(c, x[2], next - 1)'
  <2>1. next' = n + 1 /\ next' - 1 = n
    BY <1>3, <1>9 DEF Done
  <2>2. Writing(c, k, n)'
    BY <1>8, <1>9
  <2>3. Writing(c, x[2], next - 1)'
    BY <1>1, <2>1, <2>2
  <2>4. next' > Len(Ops) => Achieved(c, y)'
    <3>1. next' > Len(Ops) => n = Len(Asked(c)'.text)
      BY <1>2, <1>3, <2>1
    <3> QED
      BY <1>1, <2>2, <3>1 DEF Achieved
  <2> QED
    BY <2>3, <2>4
<1>10. Done \/ (Break /\ (Stage(c).strict \/ faults' > 0))
  BY <1>1, <1>5
<1> QED
  BY <1>1, <1>5, <1>6, <1>9, <1>10, FillJobGoes

\* Enter of a fill submits the field at hand, which is the only one it clicked.
LEMMA EnterFill ==
    ASSUME FillBase, SendBatch, NEW c, c = holder, Fill(Asked(c)), NEW x, NEW y,
           x = Before(c), y = After(c), Filled(c, x, y), NEW k \in Nat, EnterJob(Stage(c), x, y, k),
           Asked(c).tool = "Type" => Stage(c).strict, Asked(c).tool \in {"Type", "MultiEdit"}
    PROVE  Filled(c, Before(c), After(c))'
<1>1. x[1] = "typed" /\ x[2] = k /\ y[1] = "entered" /\ y[2] = k /\ k = 1
  BY DEF EnterJob
<1>2. Len(Ops) = 1 /\ Ops[1] = Shortcut(<<"enter">>) /\ Ops[1].target = 0 /\ request' = request
      /\ \A h \in hits[c] : h[1] \in 1..x[2]
  BY FillHas, Untargeted DEF EnterJob
<1>3. c \in Callers /\ desk \in Desks /\ screen \in Screens
  BY FillSends
<1>4. ASSUME desk' = Injected(c, desk, Ops[1].events), faults' = faults, Alone(c)', hits'[c] = hits[c]
      PROVE  Achieved(c, y)'
  <2>1. Writing(c, k, Len(Asked(c).text))
    <3>1. Achieved(c, x)
      BY <1>1, <1>4, FillHas
    <3> QED
      BY <1>1, <3>1 DEF Achieved
  <2>2. \A h \in LastHits(c) : Texted(c, h)
    BY <2>1, TextThere
  <2>3. \A h \in LastHits(c) : h[2] = desk.focus
    <3>1. \A h \in LastHits(c) : h[1] = k
      BY <1>1, <1>2 DEF LastHits
    <3> QED
      BY <2>1, <3>1 DEF Writing, Aside
  <2>4. desk'.submitted = desk.focus /\ desk'.text = desk.text
    BY <1>2, <1>3, <1>4, Entered
  <2>5. LastHits(c)' = LastHits(c)
    BY <1>4 DEF LastHits
  <2>6. \A h \in LastHits(c)' : Texted(c, h)' /\ desk'.submitted = h[2]
    BY <1>2, <2>2, <2>3, <2>4, <2>5 DEF Texted, Asked
  <2> QED
    BY <1>1, <2>6 DEF Achieved
<1> QED
  BY <1>1, <1>2, <1>4, OneThing

\* A SendInput takes its own fill further, and disturbs those of the other calls.
LEMMA SendBatchFill ==
    ASSUME FillBase, SendBatch
    PROVE  FillInv'
<1>1. PICK c, b : c = holder /\ b = Ops[next].events
  OBVIOUS
<1>2. ASSUME Fill(Asked(c)) PROVE Filled(c, Before(c), After(c))'
  <2>1. c # Nobody
    BY <1>1 DEF SendBatch, Running
  <2>2. PICK x \in Moments, y \in Moments :
          /\ x = Before(c) /\ y = After(c) /\ Filled(c, x, y)
          /\ Shape(Stage(c), x, y, y[2], Len(Asked(c).text)) /\ y[2] \in Nat
          /\ Asked(c).tool = "Type" => Stage(c).strict
          /\ Asked(c).tool \in {"Type", "MultiEdit"}
    BY <1>1, <1>2, <2>1, FillAtJob
  <2>3. Len(Asked(c).text) \in Int
    BY <1>1, <1>2, <2>1, FillAtJob
  <2>4. CASE ClickJob(Stage(c), x, y, y[2])
    BY <1>1, <1>2, <2>2, <2>4, PressFill
  <2>5. CASE SelectJob(Stage(c), x, y, y[2])
    BY <1>1, <1>2, <2>2, <2>5, SelectFill
  <2>6. CASE DeleteJob(Stage(c), x, y, y[2])
    BY <1>1, <1>2, <2>2, <2>6, DeleteFill
  <2>7. CASE TypeJob(Stage(c), x, y, y[2], Len(Asked(c).text))
    BY <1>1, <1>2, <2>2, <2>3, <2>7, TypeFill
  <2>8. CASE EnterJob(Stage(c), x, y, y[2])
    BY <1>1, <1>2, <2>2, <2>8, EnterFill
  <2> QED
    BY <2>2, <2>4, <2>5, <2>6, <2>7, <2>8 DEF Shape
<1>3. CASE Fill(Asked(c))
  <2>1. /\ Within /\ \A x \in Callers \ {holder} : hits'[x] = hits[x]
        /\ InFlight \ {holder} \subseteq disturbed'
    BY <1>1, <1>3, FillSends
  <2> QED
    BY <1>1, <1>2, <2>1, OwnFill
<1>4. CASE ~Fill(Asked(c))
  <2>1. Base /\ Within
    BY SendBatchBase DEF FillBase
  <2>2. \A x \in Callers \ {holder} : hits'[x] = hits[x]
    <3>1. hits \in [Callers -> SUBSET (Nat \X (Elements \cup {Nothing}))] /\ holder \in Callers
      BY <2>1, StateTyped, RunningOp DEF SendBatch
    <3>2. hits' = hits \/ \E h : hits' = [hits EXCEPT ![holder] = @ \cup {h}]
      BY DEF SendBatch
    <3> QED
      BY <3>1, <3>2
  <2>3. InFlight \ {holder} \subseteq disturbed'
    BY DEF SendBatch, Interfere
  <2> QED
    BY <1>1, <1>4, <2>1, <2>2, <2>3, OwnFill
<1> QED
  BY <1>3, <1>4

\* The operations that no fill has.
LEMMA OtherOpsFill ==
    ASSUME FillBase,
           HoldKey \/ WalkScreen \/ UseElement \/ CaptureScreen \/ ActivateWindow \/ ResizeWindow
    PROVE  FillInv'
<1>1. Base /\ Within
  BY HoldKeyBase, WalkScreenBase, UseElementBase, CaptureScreenBase, WindowBase DEF FillBase
<1>2. ~Fill(Asked(holder))
  <2>1. \/ Running("hold") \/ Running("walk") \/ Running("use") \/ Running("capture")
        \/ Running("activate") \/ Running("resize")
    <3>1. HoldKey => Running("hold")
      BY DEF HoldKey
    <3>2. WalkScreen => Running("walk")
      BY DEF WalkScreen
    <3>3. UseElement => Running("use")
      BY DEF UseElement
    <3>4. CaptureScreen => Running("capture")
      BY DEF CaptureScreen
    <3>5. ActivateWindow => Running("activate")
      BY DEF ActivateWindow
    <3>6. ResizeWindow => Running("resize")
      BY DEF ResizeWindow
    <3> QED
      BY <3>1, <3>2, <3>3, <3>4, <3>5, <3>6
  <2>2. ASSUME NEW op, Running(op), op \notin {"aim", "send"} PROVE ~Fill(Asked(holder))
    BY <2>2, FillActs
  <2> QED
    BY <2>1, <2>2
<1>3. \A x \in Callers \ {holder} : hits'[x] = hits[x]
  <2>1. hits \in [Callers -> SUBSET (Nat \X (Elements \cup {Nothing}))] /\ holder \in Callers
    <3>1. holder \in Callers
      BY <1>1, JobAtWork DEF Within, Base
    <3> QED
      BY <1>1, <3>1, StateTyped
  <2>2. hits' = hits \/ \E X : hits' = [hits EXCEPT ![holder] = X]
    <3>1. HoldKey \/ CaptureScreen \/ ActivateWindow \/ ResizeWindow => hits' = hits
      BY DEF HoldKey, CaptureScreen, ActivateWindow, ResizeWindow, history
    <3>2. WalkScreen => hits' = hits \/ hits' = [hits EXCEPT ![holder] = {}]
      BY DEF WalkScreen
    <3>3. UseElement => hits' = hits \/ \E h : hits' = [hits EXCEPT ![holder] = @ \cup {h}]
      BY DEF UseElement
    <3> QED
      BY <3>1, <3>2, <3>3
  <2> QED
    BY <2>1, <2>2
<1>4. (desk' = desk /\ disturbed' = disturbed) \/ InFlight \ {holder} \subseteq disturbed'
  BY DEF HoldKey, WalkScreen, UseElement, CaptureScreen, ActivateWindow, ResizeWindow, Interfere, history
<1> QED
  BY <1>1, <1>2, <1>3, <1>4, OperationFill

\* No fill is under way at the start.
LEMMA InitFill == Init => FillBase
<1> SUFFICES ASSUME Init PROVE FillBase
  OBVIOUS
<1>1. ASSUME NEW c \in Callers PROVE at[c] = 0 /\ hits[c] = {}
  BY DEF Init
<1>2. InFlight = {}
  BY <1>1 DEF InFlight
<1> QED
  BY <1>1, <1>2, InitBase DEF FillBase, FillInv

\* Every step keeps what the fills have achieved.
LEMMA NextFill == FillBase /\ [Next]_vars => FillBase'
<1> SUFFICES ASSUME FillBase, [Next]_vars PROVE FillInv'
  BY NextBase DEF FillBase
<1>1. ASSUME NEW c \in Callers, StartCall(c) \/ Proceed(c) PROVE FillInv'
  <2>1. CASE StartCall(c)
    BY <2>1, StartCallFill
  <2>2. CASE Take(c) \/ ResolveSelector(c) \/ Locate(c) \/ Evaluate(c) \/ Refuse(c)
    BY <2>2, OutsideFill
  <2>3. CASE Begin(c)
    BY <2>3, BeginFill
  <2> QED
    BY <1>1, <2>1, <2>2, <2>3 DEF Proceed
<1>2. CASE Operation
  BY <1>2, AimCursorFill, SendBatchFill, OtherOpsFill DEF Operation
<1>3. CASE EndJob
  BY <1>3, EndJobFill
<1>4. CASE (\E c \in Callers : Expire(c) \/ Cancel(c)) \/ AppChanges \/ Close \/ UNCHANGED vars
  BY <1>4, StillFill
<1> QED
  BY <1>1, <1>2, <1>3, <1>4 DEF Next, Finished

\* A call that ends well outside of a wait does so at the end of its script.
LEMMA EndsOk ==
    ASSUME TypeOK, NEW c \in Callers, result[c] = "none", result'[c] = "ok",
           Advance(c) \/ End(c, "error") \/ \E i : Goto(c, i)
    PROVE  Advance(c) /\ ~End(c, "error") /\ at[c] = Len(Scripts[request[c]])
<1>1. ~End(c, "error") /\ \A i : ~Goto(c, i)
  BY DEF TypeOK, End, Goto
<1> QED
  BY <1>1 DEF Advance

\* Who makes a call succeed.
LEMMA WhoEnds ==
    ASSUME Base, [Next]_vars, NEW c \in Callers, result[c] = "none", result'[c] = "ok"
    PROVE  \/ EndJob /\ holder = c
           \/ Take(c) \/ ResolveSelector(c) \/ Locate(c) \/ Evaluate(c) \/ Refuse(c)
<1>1. ASSUME NEW x \in Callers, StartCall(x) PROVE FALSE
  <2>1. result' = [result EXCEPT ![x] = IF Refused(Asked(x)) THEN "error" ELSE "none"]
    BY <1>1 DEF StartCall
  <2> QED
    BY <2>1 DEF Base, TypeOK
<1>2. ASSUME NEW x \in Callers, Expire(x) \/ Cancel(x) \/ Begin(x) PROVE FALSE
  BY <1>2 DEF Expire, Cancel, Begin
<1>3. ASSUME NEW x \in Callers, Take(x) \/ ResolveSelector(x) \/ Locate(x) \/ Evaluate(x) \/ Refuse(x)
      PROVE  x = c
  <2>1. x \in InFlight /\ Moved(x) /\ request' = request
    BY <1>3, Onward
  <2> QED
    BY <2>1, CallMoves DEF Base
<1>4. Operation => FALSE
  BY DEF Operation, AimCursor, SendBatch, HoldKey, WalkScreen, UseElement, CaptureScreen,
         ActivateWindow, ResizeWindow
<1>5. EndJob => holder = c
  <2> SUFFICES ASSUME EndJob PROVE holder = c
    OBVIOUS
  <2>1. holder \in InFlight /\ Moved(holder) /\ request' = request
    BY EndJobBase DEF EndJob
  <2> QED
    BY <2>1, CallMoves DEF Base
<1>6. AppChanges \/ Close \/ UNCHANGED vars => FALSE
  BY DEF AppChanges, Close, vars
<1> QED
  BY <1>1, <1>2, <1>3, <1>4, <1>5, <1>6 DEF Next, Proceed, Finished

\* A fill that ends well has done all it has to.
LEMMA FillEndsWell ==
    ASSUME FillBase, [Next]_vars, NEW c \in Callers, result[c] = "none", result'[c] = "ok",
           Fill(Asked(c)), Alone(c)
    PROVE  \A h \in LastHits(c) : /\ Texted(c, h)
                                  /\ Asked(c).tool = "Type" /\ Asked(c).enter => desk.submitted = h[2]
<1>1. Base /\ TypeOK
  BY DEF FillBase, Base
<1>2. \/ EndJob /\ holder = c
      \/ Take(c) \/ ResolveSelector(c) \/ Locate(c) \/ Evaluate(c) \/ Refuse(c)
  BY <1>1, WhoEnds
<1>3. c \in InFlight /\ c # Nobody
  <2>1. EndJob /\ holder = c => c \in InFlight
    BY <1>1, JobAtWork DEF EndJob, Base
  <2>2. Take(c) \/ ResolveSelector(c) \/ Locate(c) \/ Evaluate(c) \/ Refuse(c) => c \in InFlight
    BY DEF Take, ResolveSelector, Locate, Evaluate, Refuse, AtStage
  <2>3. c # Nobody
    BY InteractionAssumption
  <2> QED
    BY <1>2, <2>1, <2>2, <2>3
<1>4. PICK x \in Moments, y \in Moments : x = Before(c) /\ y = After(c)
  BY <1>1, <1>3, FillAtWork
<1>5. /\ Leads(Asked(c), Stage(c), x, y) /\ Len(Asked(c).text) \in Int
      /\ at[c] = Len(Scripts[request[c]]) =>
             y[1] = IF Asked(c).tool = "Type" /\ Asked(c).enter THEN "entered" ELSE "typed"
  BY <1>1, <1>3, <1>4, FillAtWork
<1>6. ASSUME Stage(c).do = "job", at[c] = Len(Scripts[request[c]]) PROVE Stage(c).strict
  <2>1. \/ ClickJob(Stage(c), x, y, y[2]) \/ SelectJob(Stage(c), x, y, y[2])
        \/ DeleteJob(Stage(c), x, y, y[2]) \/ TypeJob(Stage(c), x, y, y[2], Len(Asked(c).text))
        \/ EnterJob(Stage(c), x, y, y[2])
    BY <1>5, <1>6, JobOfFill
  <2>2. y[1] = "typed" \/ y[1] = "entered"
    BY <1>5, <1>6
  <2> QED
    BY <2>1, <2>2 DEF ClickJob, SelectJob, DeleteJob, TypeJob, EnterJob
<1>7. CASE Take(c) \/ ResolveSelector(c) \/ Locate(c) \/ Evaluate(c)
  <2>1. Stage(c).do # "job"
    BY <1>7 DEF Take, ResolveSelector, Locate, Evaluate, AtStage
  <2>2. Stage(c).do \in {"point", "take", "resolve", "locate"} /\ y[1] = "filled"
    <3>1. Stage(c).do # "refuse"
      BY <1>7 DEF Take, ResolveSelector, Locate, Evaluate, AtStage
    <3>2. TooLarge.do = "refuse"
      BY DEF TooLarge
    <3> QED
      BY <1>5, <2>1, <3>1, <3>2, OutsideLeads
  <2>3. ~Evaluate(c)
    BY <2>2 DEF Evaluate, AtStage
  <2>4. Advance(c) \/ End(c, "error") \/ \E i : Goto(c, i)
    BY <1>7, <2>3 DEF Take, ResolveSelector, Locate
  <2> QED
    BY <1>1, <1>5, <2>2, <2>4, EndsOk
<1>8. CASE Refuse(c)
  <2>1. JobOver(c, TRUE) /\ (Stage(c).do = "job" \/ Stage(c).do = "refuse")
    BY <1>8 DEF Refuse, AtStage
  <2>2. Advance(c) /\ ~End(c, "error") /\ at[c] = Len(Scripts[request[c]])
    BY <1>1, <2>1, EndsOk DEF JobOver
  <2>3. ~Stage(c).strict
    BY <2>1, <2>2 DEF JobOver
  <2>4. Stage(c) # TooLarge
    BY <2>3 DEF TooLarge
  <2>5. Stage(c).do # "job" => Stage(c).do \in {"point", "take", "resolve", "locate"}
    BY <1>5, <2>4, OutsideLeads
  <2> QED
    BY <1>6, <2>1, <2>2, <2>3, <2>5
<1>9. CASE EndJob /\ holder = c
  <2>1. Stage(c).do = "job" /\ next > Len(Ops) /\ JobOver(c, broken)
    BY <1>1, <1>9, JobAtWork DEF EndJob, Base
  <2>2. Advance(c) /\ ~End(c, "error") /\ at[c] = Len(Scripts[request[c]])
    BY <1>1, <2>1, EndsOk DEF JobOver
  <2>3. ~broken /\ Over(c)
    BY <1>6, <1>9, <2>1, <2>2 DEF JobOver, Over
  <2>4. Filled(c, x, y)
    BY <1>3, <1>4 DEF FillBase, FillInv
  <2>5. Achieved(c, y)
    BY <1>9, <2>3, <2>4 DEF Filled
  <2>6. CASE Asked(c).tool = "Type" /\ Asked(c).enter
    BY <1>5, <2>2, <2>5, <2>6 DEF Achieved
  <2>7. CASE ~(Asked(c).tool = "Type" /\ Asked(c).enter)
    <3>1. y[1] = "typed"
      BY <1>5, <2>2, <2>7
    <3>2. Writing(c, y[2], Len(Asked(c).text))
      BY <2>5, <3>1 DEF Achieved
    <3> QED
      BY <2>7, <3>2, TextThere
  <2> QED
    BY <2>6, <2>7
<1> QED
  BY <1>2, <1>7, <1>8, <1>9

\* A fill that nothing gets in the way of and that reports success has left its text in
\* every field it clicked, and pressed Enter there, whatever other calls do and however
\* the operations of all of them meet.
THEOREM FillsAsReported == Spec => FillsItsFields
<1>1. FillBase /\ [Next]_vars =>
          [\A c \in Callers :
             LET r == Asked(c) IN
             /\ result[c] = "none" /\ result'[c] = "ok" /\ c \notin disturbed /\ Plain(r.text)
             /\ (r.tool = "Type" /\ r.clear) \/ (r.tool = "MultiEdit" /\ faults = 0)
             => \A h \in { x \in hits[c] : x[2] # Nothing /\ \A y \in hits[c] : y[2] = x[2] => y[1] <= x[1] } :
                    /\ desk.text[h[2]] = [j \in DOMAIN r.text |-> <<c, h[1], j>>]
                    /\ r.tool = "Type" /\ r.enter => desk.submitted = h[2]]_vars
  <2> SUFFICES ASSUME FillBase, [Next]_vars, NEW c \in Callers, result[c] = "none", result'[c] = "ok",
                      c \notin disturbed, Plain(Asked(c).text),
                      \/ Asked(c).tool = "Type" /\ Asked(c).clear
                      \/ Asked(c).tool = "MultiEdit" /\ faults = 0,
                      NEW h \in LastHits(c)
               PROVE  /\ desk.text[h[2]] = [j \in DOMAIN Asked(c).text |-> <<c, h[1], j>>]
                      /\ Asked(c).tool = "Type" /\ Asked(c).enter => desk.submitted = h[2]
    BY DEF LastHits
  <2>1. Fill(Asked(c)) /\ Alone(c)
    BY DEF Fill, Alone
  <2>2. Texted(c, h) /\ (Asked(c).tool = "Type" /\ Asked(c).enter => desk.submitted = h[2])
    BY <2>1, FillEndsWell
  <2>3. DOMAIN Asked(c).text = 1..Len(Asked(c).text)
    <3>1. request \in Plans
      BY DEF FillBase, Base, TypeOK
    <3>2. Asked(c) \in Asks
      BY <3>1, InteractionAssumption, RequestsAssumption DEF Asked
    <3>3. Asked(c).text \in Seq(Units)
      BY <3>2 DEF Asks
    <3> QED
      BY <3>3
  <2> QED
    BY <2>2, <2>3 DEF Texted, Written, Token
<1> QED
  BY <1>1, InitFill, NextFill, PTL DEF Spec, FillsItsFields
==============================================================================
