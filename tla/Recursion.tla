------------------------------ MODULE Recursion ------------------------------
(***************************************************************************)
(* Induction and recursion over the naturals, stated for sets and          *)
(* functions instead of operators, so that every prover can apply them.    *)
(***************************************************************************)
EXTENDS Integers, Sequences, SequencesExt, SequenceTheorems, WellFoundedInduction, TLAPS

\* A set that has 0, and with a number its successor, has every number.
LEMMA SetInduction ==
  ASSUME NEW S, 0 \in S, \A n \in Nat : n \in S => n + 1 \in S
  PROVE  Nat \subseteq S
<1> DEFINE R == OpToRel(<, Nat)
           T == Nat \ S
<1>1. IsWellFoundedOn(R, Nat)
  BY NatLessThanWellFounded, Zenon
<1>2. SUFFICES ASSUME T # {} PROVE FALSE
  OBVIOUS
<1>3. PICK x \in T : \A y \in T : ~ (<<y, x>> \in R)
  <2>1. T \subseteq Nat
    OBVIOUS
  <2> HIDE DEF R, T
  <2> QED
    BY <1>1, <1>2, <2>1, WFMin
<1>4. x \in Nat /\ x # 0 /\ x \notin S
  OBVIOUS
<1>5. x - 1 \in Nat /\ x - 1 < x /\ (x - 1) + 1 = x
  BY <1>4
<1>6. x - 1 \in T
  BY <1>4, <1>5
<1>7. <<x - 1, x>> \in R
  BY <1>4, <1>5 DEF OpToRel
<1> QED
  BY <1>3, <1>6, <1>7

\* Some numbers have a least one.
LEMMA LeastNumber ==
  ASSUME NEW T, T \subseteq Nat, T # {}
  PROVE  \E x \in T : \A y \in T : x <= y
<1>1. PICK x \in T : \A y \in T : ~(<<y, x>> \in OpToRel(<, Nat))
  BY NatLessThanWellFounded, WFMin
<1>2. ASSUME NEW y \in T
      PROVE  x <= y
  <2>1. <<y, x>> \in Nat \X Nat /\ <<y, x>>[1] = y /\ <<y, x>>[2] = x
    OBVIOUS
  <2>2. ~(y < x)
    BY <1>1, <2>1, Zenon DEF OpToRel
  <2> QED
    BY <2>2
<1> QED
  BY <1>2

\* Functions that take a value of D and a number up to n to the next value.
Steps(D, n) == [D \X (1..n) -> D]

\* The values of g on 0..n begin with c, and each is a step from the one before.
Iterates(g, D, n, c, step) ==
  g \in [0..n -> D] /\ g[0] = c /\ \A k \in 1..n : g[k] = step[<<g[k - 1], k>>]

\* A function on 0..n may be defined by its value at 0 and, at any other
\* number, by its value at the number before.
LEMMA RecursionExists ==
  ASSUME NEW D, NEW n \in Nat, NEW c \in D, NEW step \in Steps(D, n)
  PROVE  \E g : Iterates(g, D, n, c, step)
<1> DEFINE Solves(g, m) == \A k \in 0..m : g[k] = IF k = 0 THEN c ELSE step[<<g[k - 1], k>>]
           S == {m \in Nat : m <= n => \E g \in [0..m -> D] : Solves(g, m)}
<1>1. 0 \in S
  <2> DEFINE g == [k \in 0..0 |-> c]
  <2>1. g \in [0..0 -> D] /\ Solves(g, 0)
    OBVIOUS
  <2> QED
    BY <2>1
<1>2. ASSUME NEW m \in Nat, m \in S PROVE m + 1 \in S
  <2>1. SUFFICES ASSUME m + 1 <= n
                 PROVE  \E g \in [0..(m + 1) -> D] : Solves(g, m + 1)
    OBVIOUS
  <2>2. PICK h \in [0..m -> D] : Solves(h, m)
    BY <1>2, <2>1
  <2> DEFINE g == [k \in 0..(m + 1) |-> IF k = m + 1 THEN step[<<h[m], m + 1>>] ELSE h[k]]
  <2>3. step[<<h[m], m + 1>>] \in D
    <3>1. <<h[m], m + 1>> \in D \X (1..n)
      BY <2>1
    <3> QED
      BY <3>1 DEF Steps
  <2>4. g \in [0..(m + 1) -> D]
    <3> SUFFICES ASSUME NEW k \in 0..(m + 1) PROVE g[k] \in D
      OBVIOUS
    <3> QED
      BY <2>3
  <2>5. ASSUME NEW k \in 0..(m + 1)
        PROVE  g[k] = IF k = 0 THEN c ELSE step[<<g[k - 1], k>>]
    <3>1. CASE k = m + 1
      <4>1. k # 0 /\ k - 1 = m /\ m \in 0..(m + 1) /\ m # m + 1
        BY <3>1
      <4>2. g[k - 1] = h[m]
        BY <4>1
      <4> QED
        BY <3>1, <4>1, <4>2
    <3>2. CASE k # m + 1
      <4>1. k \in 0..m /\ g[k] = h[k]
        BY <3>2
      <4>2. k # 0 => k - 1 \in 0..(m + 1) /\ k - 1 # m + 1 /\ g[k - 1] = h[k - 1]
        BY <4>1
      <4> HIDE DEF g
      <4> QED
        BY <2>2, <4>1, <4>2
    <3> QED
      BY <3>1, <3>2
  <2> QED
    BY <2>4, <2>5
<1>3. n \in S
  <2> HIDE DEF S
  <2> QED
    BY <1>1, <1>2, SetInduction
<1>4. PICK g \in [0..n -> D] : Solves(g, n)
  BY <1>3
<1>5. g[0] = c
  <2>1. 0 \in 0..n
    OBVIOUS
  <2> QED
    BY <1>4, <2>1
<1>6. ASSUME NEW k \in 1..n PROVE g[k] = step[<<g[k - 1], k>>]
  <2>1. k \in 0..n /\ k # 0
    OBVIOUS
  <2> QED
    BY <1>4, <2>1
<1>7. Iterates(g, D, n, c, step)
  BY <1>5, <1>6 DEF Iterates
<1> QED
  BY <1>7

\* g begins in D and no step up to n leaves D; g is in D up to n.
Keeps(g, D, n)  == g[0] \in D /\ \A k \in 1..n : g[k - 1] \in D => g[k] \in D
Within(g, D, n) == \A k \in 0..n : g[k] \in D

\* What steps do not leave is never left.
LEMMA RecursionType ==
  ASSUME NEW D, NEW g, NEW n \in Nat, Keeps(g, D, n)
  PROVE  Within(g, D, n)
<1> DEFINE S == {k \in Nat : k \in 0..n => g[k] \in D}
<1>1. 0 \in S
  BY DEF Keeps
<1>2. ASSUME NEW k \in Nat, k \in S PROVE k + 1 \in S
  <2> SUFFICES ASSUME k + 1 \in 0..n PROVE g[k + 1] \in D
    OBVIOUS
  <2>1. k + 1 \in 1..n /\ (k + 1) - 1 = k /\ k \in 0..n
    OBVIOUS
  <2> QED
    BY <1>2, <2>1 DEF Keeps
<1>3. Nat \subseteq S
  <2> HIDE DEF S
  <2> QED
    BY <1>1, <1>2, SetInduction
<1> QED
  BY <1>3 DEF Within

\* g and h begin alike and step alike up to n; they are alike up to n.
StepAlike(g, h, n) == g[0] = h[0] /\ \A k \in 1..n : g[k - 1] = h[k - 1] => g[k] = h[k]
Alike(g, h, n)     == \A k \in 0..n : g[k] = h[k]

LEMMA RecursionSame ==
  ASSUME NEW g, NEW h, NEW n \in Nat, StepAlike(g, h, n)
  PROVE  Alike(g, h, n)
<1> DEFINE S == {k \in Nat : k \in 0..n => g[k] = h[k]}
<1>1. 0 \in S
  BY DEF StepAlike
<1>2. ASSUME NEW k \in Nat, k \in S PROVE k + 1 \in S
  <2> SUFFICES ASSUME k + 1 \in 0..n PROVE g[k + 1] = h[k + 1]
    OBVIOUS
  <2>1. k + 1 \in 1..n /\ (k + 1) - 1 = k /\ k \in 0..n
    OBVIOUS
  <2> QED
    BY <1>2, <2>1 DEF StepAlike
<1>3. Nat \subseteq S
  <2> HIDE DEF S
  <2> QED
    BY <1>1, <1>2, SetInduction
<1> QED
  BY <1>3 DEF Alike

\* A set that has the empty sequence, and with a sequence over E that sequence
\* with one more element, has every sequence over E.
LEMMA SequenceInduction ==
  ASSUME NEW E, NEW S, <<>> \in S,
         \A s \in Seq(E), e \in E : s \in S => Append(s, e) \in S
  PROVE  Seq(E) \subseteq S
<1> DEFINE N == {n \in Nat : \A s \in Seq(E) : Len(s) = n => s \in S}
<1>1. 0 \in N
  BY EmptySeq
<1>2. ASSUME NEW n \in Nat, n \in N PROVE n + 1 \in N
  <2>1. SUFFICES ASSUME NEW s \in Seq(E), Len(s) = n + 1 PROVE s \in S
    OBVIOUS
  <2>2. s # <<>>
    BY <2>1, EmptySeq
  <2>3. PICK u \in Seq(E), e \in E : s = Append(u, e)
    BY <2>2, SequenceEmptyOrAppend
  <2>4. Len(u) \in Nat /\ Len(s) = Len(u) + 1
    BY <2>3, AppendProperties, LenProperties
  <2>5. u \in S
    BY <1>2, <2>1, <2>4
  <2> QED
    BY <2>3, <2>5
<1>3. Nat \subseteq N
  <2> HIDE DEF N
  <2> QED
    BY <1>1, <1>2, SetInduction
<1> QED
  BY <1>3, LenProperties

\* A function on 1..n is a sequence of length n.
LEMMA FunctionIsSequence ==
  ASSUME NEW n \in Nat, NEW E, NEW f \in [1..n -> E]
  PROVE  f \in Seq(E) /\ Len(f) = n
<1>1. f \in Seq(E)
  BY SeqDef
<1>2. Len(f) \in Nat /\ DOMAIN f = 1..Len(f)
  BY <1>1, LenProperties
<1> QED
  BY <1>1, <1>2

\* From each number up to n, next goes on to a later one, up to n + 1.
Jumps(next, n) == next \in [1..n -> Nat] /\ \A i \in 1..n : next[i] \in (i + 1)..(n + 1)

\* The values of g on 1..(n + 1) end with c, and each is a step from the one
\* that next names.
JumpsDown(g, D, n, c, next, step) ==
  /\ g \in [1..(n + 1) -> D] /\ g[n + 1] = c
  /\ \A i \in 1..n : g[i] = step[<<g[next[i]], i>>]

\* A function may be defined from its last value down.
LEMMA JumpingExists ==
  ASSUME NEW D, NEW n \in Nat, NEW c \in D, NEW next, Jumps(next, n), NEW step \in Steps(D, n)
  PROVE  \E g : JumpsDown(g, D, n, c, next, step)
<1> DEFINE Solves(g, m) ==
             /\ g \in [1..(n + 1) -> D] /\ g[n + 1] = c
             /\ \A i \in (n + 1 - m)..n : g[i] = step[<<g[next[i]], i>>]
           S == {m \in Nat : m <= n => \E g : Solves(g, m)}
<1>1. 0 \in S
  <2> DEFINE g == [i \in 1..(n + 1) |-> c]
  <2>1. Solves(g, 0)
    OBVIOUS
  <2> QED
    BY <2>1
<1>2. ASSUME NEW m \in Nat, m \in S PROVE m + 1 \in S
  <2>1. SUFFICES ASSUME m + 1 <= n PROVE \E g : Solves(g, m + 1)
    OBVIOUS
  <2>2. PICK h : Solves(h, m)
    BY <1>2, <2>1
  <2> DEFINE j == n - m
             v == step[<<h[next[j]], j>>]
             g == [h EXCEPT ![j] = v]
  <2>3. j \in 1..n /\ n + 1 \in 1..(n + 1) /\ n + 1 # j /\ j \in 1..(n + 1)
    BY <2>1
  <2>4. \A i \in 1..n : next[i] \in (i + 1)..(n + 1) /\ next[i] \in 1..(n + 1)
    BY DEF Jumps
  <2>5. v \in D
    <3>1. h[next[j]] \in D
      BY <2>2, <2>3, <2>4
    <3> QED
      BY <2>3, <3>1 DEF Steps
  <2>6. g \in [1..(n + 1) -> D] /\ g[n + 1] = c /\ g[j] = v
        /\ \A i \in 1..(n + 1) : i # j => g[i] = h[i]
    <3> HIDE DEF v, j
    <3> QED
      BY <2>2, <2>3, <2>5
  <2>7. ASSUME NEW i \in (n + 1 - (m + 1))..n PROVE g[i] = step[<<g[next[i]], i>>]
    <3>1. i \in j..n /\ i \in 1..n /\ next[i] # j
      BY <2>3, <2>4
    <3>2. g[next[i]] = h[next[i]]
      <4> HIDE DEF g, j
      <4> QED
        BY <2>4, <2>6, <3>1
    <3>3. CASE i = j
      <4> HIDE DEF g
      <4> QED
        BY <2>6, <3>2, <3>3
    <3>4. CASE i # j
      <4>1. i \in (n + 1 - m)..n /\ i \in 1..(n + 1)
        BY <3>1, <3>4
      <4>2. h[i] = step[<<h[next[i]], i>>] /\ g[i] = h[i]
        BY <2>2, <2>6, <3>4, <4>1
      <4> HIDE DEF g
      <4> QED
        BY <3>2, <4>2
    <3> QED
      BY <3>3, <3>4
  <2>8. Solves(g, m + 1)
    <3> HIDE DEF g
    <3> QED
      BY <2>6, <2>7
  <2> QED
    BY <2>8
<1>3. n \in S
  <2> HIDE DEF S
  <2> QED
    BY <1>1, <1>2, SetInduction
<1>4. PICK g : Solves(g, n)
  BY <1>3
<1>5. JumpsDown(g, D, n, c, next, step)
  <2>1. \A i \in 1..n : i \in (n + 1 - n)..n
    OBVIOUS
  <2> QED
    BY <1>4, <2>1 DEF JumpsDown
<1> QED
  BY <1>5

KeepsDown(g, D, n, next) == g[n + 1] \in D /\ \A i \in 1..n : g[next[i]] \in D => g[i] \in D

LEMMA JumpingType ==
  ASSUME NEW D, NEW g, NEW n \in Nat, NEW next, Jumps(next, n), KeepsDown(g, D, n, next)
  PROVE  \A i \in 1..(n + 1) : g[i] \in D
<1> DEFINE S == {m \in Nat : m <= n => \A i \in (n + 1 - m)..(n + 1) : g[i] \in D}
<1>1. 0 \in S
  <2>1. \A i \in (n + 1 - 0)..(n + 1) : i = n + 1
    OBVIOUS
  <2> QED
    BY <2>1 DEF KeepsDown
<1>2. ASSUME NEW m \in Nat, m \in S PROVE m + 1 \in S
  <2> SUFFICES ASSUME m + 1 <= n, NEW i \in (n + 1 - (m + 1))..(n + 1) PROVE g[i] \in D
    OBVIOUS
  <2>1. \A k \in (n + 1 - m)..(n + 1) : g[k] \in D
    BY <1>2
  <2>2. CASE i = n - m
    <3>1. i \in 1..n
      BY <2>2
    <3>2. next[i] \in (n + 1 - m)..(n + 1)
      BY <2>2, <3>1 DEF Jumps
    <3> QED
      BY <2>1, <3>1, <3>2 DEF KeepsDown
  <2>3. CASE i # n - m
    <3>1. i \in (n + 1 - m)..(n + 1)
      BY <2>3
    <3> QED
      BY <2>1, <3>1
  <2> QED
    BY <2>2, <2>3
<1>3. n \in S
  <2> HIDE DEF S
  <2> QED
    BY <1>1, <1>2, SetInduction
<1> QED
  BY <1>3

\* FlattenSeq puts one sequence after the other.
Flattens(g, seqs, E) ==
  /\ g \in [0..Len(seqs) -> Seq(E)] /\ g[0] = <<>> /\ g[Len(seqs)] = FlattenSeq(seqs)
  /\ \A k \in 1..Len(seqs) : g[k] = g[k - 1] \o seqs[k]

LEMMA FlattenStepwise ==
  ASSUME NEW E, NEW seqs \in Seq(Seq(E))
  PROVE  \E g : Flattens(g, seqs, E)
<1> DEFINE n == Len(seqs)
           D == Seq(E)
           Is(g) == g = [i \in 1..n |-> IF i = 1 THEN seqs[i] ELSE g[i - 1] \o seqs[i]]
           step == [x \in D \X (1..n) |-> x[1] \o seqs[x[2]]]
<1>1. n \in Nat /\ DOMAIN seqs = 1..n /\ \A i \in 1..n : seqs[i] \in D
  BY LenProperties, ElementOfSeq
<1>2. CASE n = 0
  <2>1. seqs = <<>> /\ FlattenSeq(seqs) = <<>>
    BY <1>2, EmptySeq DEF FlattenSeq
  <2> DEFINE g == [k \in 0..0 |-> <<>>]
  <2>2. g \in [0..0 -> Seq(E)] /\ g[0] = <<>>
    BY EmptySeq
  <2> HIDE DEF g
  <2>3. Flattens(g, seqs, E)
    BY <1>2, <2>1, <2>2 DEF Flattens
  <2> QED
    BY <2>3
<1>3. CASE n # 0
  <2> HIDE DEF n
  <2>1. step \in Steps(D, n) /\ <<>> \in D
    <3>1. \A x \in D, k \in 1..n : x \o seqs[k] \in D
      BY <1>1, ConcatProperties
    <3>2. <<>> \in D
      BY EmptySeq
    <3> HIDE DEF D
    <3> QED
      BY <3>1, <3>2 DEF Steps
  <2>2. PICK h : Iterates(h, D, n, <<>>, step)
    <3> HIDE DEF step, D
    <3> QED
      BY <1>1, <2>1, RecursionExists, Zenon
  <2>3. /\ h \in [0..n -> D] /\ h[0] = <<>>
        /\ \A k \in 1..n : h[k] = h[k - 1] \o seqs[k]
    <3>1. /\ h \in [0..n -> D] /\ h[0] = <<>>
          /\ \A k \in 1..n : h[k] = step[<<h[k - 1], k>>]
      BY <2>2, Zenon DEF Iterates
    <3>2. ASSUME NEW k \in 1..n PROVE step[<<h[k - 1], k>>] = h[k - 1] \o seqs[k]
      <4>1. k - 1 \in 0..n
        BY <1>1
      <4>2. h[k - 1] \in D
        BY <3>1, <4>1
      <4> HIDE DEF D
      <4> QED
        BY <1>1, <4>2
    <3> HIDE DEF step
    <3> QED
      BY <3>1, <3>2
  <2> DEFINE g == [i \in 1..n |-> h[i]]
  <2>4. Is(g)
    <3>1. ASSUME NEW i \in 1..n PROVE g[i] = IF i = 1 THEN seqs[i] ELSE g[i - 1] \o seqs[i]
      <4>1. h[i] = h[i - 1] \o seqs[i] /\ g[i] = h[i]
        BY <2>3
      <4>2. CASE i = 1
        <5>1. <<>> \o seqs[i] = seqs[i]
          BY <1>1, ConcatEmptySeq
        <5>2. h[i - 1] = <<>>
          BY <2>3, <4>2
        <5>3. g[i] = seqs[i]
          BY <4>1, <5>1, <5>2, Zenon
        <5> QED
          BY <4>2, <5>3
      <4>3. CASE i # 1
        <5>1. i - 1 \in 1..n
          BY <1>1, <4>3
        <5>2. g[i - 1] = h[i - 1]
          BY <5>1
        <5> HIDE DEF g
        <5> QED
          BY <4>1, <4>3, <5>2
      <4> HIDE DEF g
      <4> QED
        BY <4>2, <4>3
    <3> QED
      BY <3>1
  <2> DEFINE f == CHOOSE u : Is(u)
  <2>5. Is(f)
    <3> HIDE DEF Is, g
    <3> QED
      BY <2>4, Zenon
  <2>6. FlattenSeq(seqs) = f[n]
    BY <1>3 DEF FlattenSeq, n
  <2> HIDE DEF f
  <2>7. \A i \in 1..n : f[i] = IF i = 1 THEN seqs[i] ELSE f[i - 1] \o seqs[i]
    BY <2>5
  <2>8. ASSUME NEW k \in 1..n, k = 1 \/ f[k - 1] = h[k - 1] PROVE f[k] = h[k]
    <3>1. CASE k = 1
      <4>1. <<>> \o seqs[k] = seqs[k]
        BY <1>1, ConcatEmptySeq
      <4>2. h[k - 1] = <<>>
        BY <2>3, <3>1
      <4> QED
        BY <2>3, <2>7, <3>1, <4>1, <4>2
    <3>2. CASE k # 1
      BY <2>3, <2>7, <2>8, <3>2
    <3> QED
      BY <3>1, <3>2
  <2> DEFINE F == [k \in 0..n |-> IF k = 0 THEN <<>> ELSE f[k]]
  <2>9. StepAlike(F, h, n)
    <3>1. F[0] = h[0]
      BY <1>1, <2>3
    <3>2. ASSUME NEW k \in 1..n, F[k - 1] = h[k - 1] PROVE F[k] = h[k]
      <4>1. k \in 0..n /\ k # 0 /\ k - 1 \in 0..n /\ (k - 1 = 0 => k = 1)
        BY <1>1
      <4>2. F[k] = f[k] /\ (k # 1 => F[k - 1] = f[k - 1])
        BY <4>1
      <4> HIDE DEF F
      <4> QED
        BY <2>8, <3>2, <4>2
    <3> HIDE DEF F
    <3> QED
      BY <3>1, <3>2 DEF StepAlike
  <2>10. F[n] = h[n] /\ F[n] = f[n]
    <3>1. n \in 0..n
      BY <1>1
    <3>2. F[n] = f[n]
      BY <1>3, <3>1
    <3> HIDE DEF F
    <3> QED
      BY <1>1, <2>9, <3>1, <3>2, RecursionSame DEF Alike
  <2>11. Flattens(h, seqs, E)
    <3> HIDE DEF F
    <3> QED
      BY <2>3, <2>6, <2>10 DEF Flattens, n
  <2> QED
    BY <2>11
<1> QED
  BY <1>2, <1>3
=============================================================================
