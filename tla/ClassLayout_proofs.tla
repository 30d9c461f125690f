-------------------------- MODULE ClassLayout_proofs -------------------------
(***************************************************************************)
(* Proofs about ClassLayout, for classes of any number of nodes, any types *)
(* and any sequence of clicks and edits.                                   *)
(***************************************************************************)
EXTENDS ClassLayout, Recursion

\* A node that has an offset to be locked at just when it is locked.
SoundNodes == {n \in Nodes : n.isLocked <=> n.absoluteOffset # NoOffset}

-----------------------------------------------------------------------------
(***************************************************************************)
(* Where nodes end                                                         *)
(***************************************************************************)

LEMMA SoundNode ==
  ASSUME NEW n \in SoundNodes
  PROVE  /\ n.size \in 1..64 /\ n.size \in Nat \ {0} /\ n.isLocked \in BOOLEAN
         /\ n.selected \in BOOLEAN /\ n.var \in BOOLEAN
         /\ n.isLocked => n.absoluteOffset \in Nat
BY DEF SoundNodes, Nodes, NoOffset

LEMMA EndsDef ==
  ASSUME NEW s \in Seq(SoundNodes)
  PROVE  /\ Ends(s) \in [0..Len(s) -> Nat]
         /\ Ends(s)[0] = 0
         /\ \A k \in 1..Len(s) : Ends(s)[k] = Ends(s)[k - 1] + s[k].size
<1> DEFINE Is(g) == g = [k \in 0..Len(s) |-> IF k = 0 THEN 0 ELSE g[k - 1] + s[k].size]
           step  == [x \in Nat \X (1..Len(s)) |-> x[1] + s[x[2]].size]
<1>1. Len(s) \in Nat /\ \A k \in 1..Len(s) : s[k].size \in Nat
  BY LenProperties, ElementOfSeq, SoundNode
<1>2. step \in Steps(Nat, Len(s)) /\ 0 \in Nat
  BY <1>1 DEF Steps
<1>3. PICK g : Iterates(g, Nat, Len(s), 0, step)
  <2> HIDE DEF step
  <2> QED
    BY <1>1, <1>2, RecursionExists, Zenon
<1>4. /\ g \in [0..Len(s) -> Nat] /\ g[0] = 0
      /\ \A k \in 1..Len(s) : g[k] = g[k - 1] + s[k].size
  <2>1. /\ g \in [0..Len(s) -> Nat] /\ g[0] = 0
        /\ \A k \in 1..Len(s) : g[k] = step[<<g[k - 1], k>>]
    BY <1>3 DEF Iterates
  <2>2. ASSUME NEW k \in 1..Len(s) PROVE step[<<g[k - 1], k>>] = g[k - 1] + s[k].size
    <3>1. k - 1 \in 0..Len(s)
      BY <1>1
    <3>2. g[k - 1] \in Nat
      BY <2>1, <3>1
    <3> QED
      BY <1>1, <3>2
  <2> HIDE DEF step
  <2> QED
    BY <2>1, <2>2
<1>5. Is(g)
  BY <1>1, <1>4
<1>6. Is(Ends(s))
  BY <1>5, Zenon DEF Ends
<1>7. Ends(s)[0] = 0
  BY <1>1, <1>6
<1>8. ASSUME NEW k \in 1..Len(s) PROVE Ends(s)[k] = Ends(s)[k - 1] + s[k].size
  BY <1>1, <1>6
<1>9. 0..Len(s) = DOMAIN Ends(s)
  BY <1>6
<1>10. \A k \in 0..Len(s) : Ends(s)[k] \in Nat
  <2>1. ASSUME NEW k \in 1..Len(s), Ends(s)[k - 1] \in Nat PROVE Ends(s)[k] \in Nat
    BY <1>1, <1>8, <2>1
  <2>2. Ends(s)[0] \in Nat
    BY <1>7
  <2>3. Keeps(Ends(s), Nat, Len(s))
    BY <2>1, <2>2 DEF Keeps
  <2> QED
    BY <1>1, <2>3, RecursionType DEF Within
<1> QED
  BY <1>6, <1>7, <1>8, <1>10

\* The first nodes of u have the sizes of those of s.
SameSizes(s, u) == Len(s) <= Len(u) /\ \A k \in 1..Len(s) : s[k].size = u[k].size

\* Nodes of the same sizes end at the same offsets.
LEMMA SameEnds ==
  ASSUME NEW s \in Seq(SoundNodes), NEW u \in Seq(SoundNodes), SameSizes(s, u)
  PROVE  \A k \in 0..Len(s) : Ends(s)[k] = Ends(u)[k]
<1>1. Len(s) \in Nat /\ Len(u) \in Nat
  BY LenProperties
<1>2. Ends(s)[0] = Ends(u)[0]
  BY EndsDef
<1>3. ASSUME NEW k \in 1..Len(s), Ends(s)[k - 1] = Ends(u)[k - 1]
      PROVE  Ends(s)[k] = Ends(u)[k]
  <2>1. k \in 1..Len(u) /\ s[k].size = u[k].size
    BY <1>1 DEF SameSizes
  <2>2. /\ Ends(s)[k] = Ends(s)[k - 1] + s[k].size
        /\ Ends(u)[k] = Ends(u)[k - 1] + u[k].size
    BY <2>1, EndsDef
  <2> QED
    BY <1>3, <2>1, <2>2
<1>4. StepAlike(Ends(s), Ends(u), Len(s))
  BY <1>2, <1>3 DEF StepAlike
<1> QED
  BY <1>1, <1>4, RecursionSame DEF Alike

LEMMA TotalType ==
  ASSUME NEW s \in Seq(SoundNodes)
  PROVE  Total(s) \in Nat
<1>1. Ends(s) \in [0..Len(s) -> Nat] /\ Len(s) \in Nat
  BY EndsDef, LenProperties
<1> QED
  BY <1>1 DEF Total

\* The nodes of a concatenation end where those of its parts do.
LEMMA ConcatEnds ==
  ASSUME NEW s \in Seq(SoundNodes), NEW u \in Seq(SoundNodes)
  PROVE  /\ \A k \in 0..Len(s) : Ends(s \o u)[k] = Ends(s)[k]
         /\ \A k \in 0..Len(u) : Ends(s \o u)[Len(s) + k] = Total(s) + Ends(u)[k]
<1> DEFINE w == s \o u
           S == {k \in Nat : k \in 0..Len(u) => Ends(w)[Len(s) + k] = Total(s) + Ends(u)[k]}
<1>1. Len(s) \in Nat /\ Len(u) \in Nat
  BY LenProperties
<1>2. /\ w \in Seq(SoundNodes) /\ Len(w) = Len(s) + Len(u)
      /\ \A i \in 1..(Len(s) + Len(u)) : w[i] = IF i <= Len(s) THEN s[i] ELSE u[i - Len(s)]
  BY ConcatProperties
<1> HIDE DEF w
<1>3. \A k \in 1..Len(s) : s[k] = w[k]
  BY <1>1, <1>2
<1>4. \A k \in 1..Len(u) : u[k] = w[Len(s) + k]
  BY <1>1, <1>2
<1>5. \A k \in 0..Len(s) : Ends(w)[k] = Ends(s)[k]
  <2>1. Len(s) <= Len(w)
    BY <1>1, <1>2
  <2>2. \A k \in 1..Len(s) : s[k].size = w[k].size
    BY <1>3
  <2>3. \A k \in 0..Len(s) : Ends(s)[k] = Ends(w)[k]
    BY <1>2, <2>1, <2>2, SameEnds DEF SameSizes
  <2> QED
    BY <2>3
<1>6. 0 \in S
  <2>1. Ends(w)[Len(s)] = Total(s) /\ Ends(u)[0] = 0 /\ Total(s) \in Nat
    BY <1>1, <1>5, EndsDef DEF Total
  <2> QED
    BY <1>1, <2>1
<1>7. ASSUME NEW k \in Nat, k \in S PROVE k + 1 \in S
  <2> SUFFICES ASSUME k + 1 \in 0..Len(u)
               PROVE  Ends(w)[Len(s) + (k + 1)] = Total(s) + Ends(u)[k + 1]
    OBVIOUS
  <2>1. /\ k + 1 \in 1..Len(u) /\ Len(s) + (k + 1) \in 1..Len(w) /\ k \in 0..Len(u)
        /\ (k + 1) - 1 = k /\ (Len(s) + (k + 1)) - 1 = Len(s) + k
    BY <1>1, <1>2
  <2>2. /\ Ends(u)[k + 1] = Ends(u)[(k + 1) - 1] + u[k + 1].size
        /\ Ends(w)[Len(s) + (k + 1)] = Ends(w)[(Len(s) + (k + 1)) - 1] + w[Len(s) + (k + 1)].size
    BY <1>2, <2>1, EndsDef
  <2>3. Ends(w)[Len(s) + k] = Total(s) + Ends(u)[k]
    BY <1>7, <2>1
  <2>4. Total(s) \in Nat /\ Ends(u)[k] \in Nat
    <3>1. Ends(u) \in [0..Len(u) -> Nat]
      BY EndsDef
    <3> QED
      BY <2>1, <3>1, TotalType
  <2>6. u[k + 1].size \in Nat
    <3>1. u[k + 1] \in SoundNodes
      BY <2>1, ElementOfSeq
    <3> QED
      BY <3>1, SoundNode
  <2>5. u[k + 1] = w[Len(s) + (k + 1)]
    BY <1>4, <2>1
  <2> HIDE DEF S
  <2> QED
    BY <2>1, <2>2, <2>3, <2>4, <2>5, <2>6
<1>8. Nat \subseteq S
  <2> HIDE DEF S
  <2> QED
    BY <1>6, <1>7, SetInduction
<1>9. \A k \in 0..Len(u) : Ends(w)[Len(s) + k] = Total(s) + Ends(u)[k]
  BY <1>1, <1>8
<1> QED
  BY <1>5, <1>9 DEF w

\* What SoundNodes cover, put behind one another.
LEMMA Totals ==
  /\ Total(<<>>) = 0
  /\ \A s \in Seq(SoundNodes) : Total(s) \in Nat
  /\ \A s, u \in Seq(SoundNodes) : Total(s \o u) = Total(s) + Total(u)
  /\ \A s \in Seq(SoundNodes), n \in SoundNodes : Total(Append(s, n)) = Total(s) + n.size
<1>1. <<>> \in Seq(SoundNodes) /\ Len(<<>>) = 0
  BY EmptySeq
<1>2. Total(<<>>) = 0
  BY <1>1, EndsDef DEF Total
<1>3. ASSUME NEW s \in Seq(SoundNodes) PROVE Total(s) \in Nat
  BY TotalType
<1>4. ASSUME NEW s \in Seq(SoundNodes), NEW u \in Seq(SoundNodes)
      PROVE  Total(s \o u) = Total(s) + Total(u)
  <2>1. Len(u) \in Nat /\ Len(s \o u) = Len(s) + Len(u)
    BY ConcatProperties, LenProperties
  <2>2. Len(u) \in 0..Len(u)
    BY <2>1
  <2> QED
    BY <2>1, <2>2, ConcatEnds DEF Total
<1>5. ASSUME NEW s \in Seq(SoundNodes), NEW n \in SoundNodes
      PROVE  Total(Append(s, n)) = Total(s) + n.size
  <2> DEFINE w == Append(s, n)
  <2>1. /\ w \in Seq(SoundNodes) /\ Len(w) = Len(s) + 1 /\ w[Len(s) + 1] = n
        /\ \A i \in 1..Len(s) : w[i] = s[i] /\ Len(s) \in Nat
    BY AppendProperties, LenProperties
  <2> HIDE DEF w
  <2>2. Len(s) \in Nat
    BY LenProperties
  <2>3. Ends(w)[Len(s) + 1] = Ends(w)[(Len(s) + 1) - 1] + w[Len(s) + 1].size
    BY <2>1, <2>2, EndsDef
  <2>4. \A k \in 0..Len(s) : Ends(s)[k] = Ends(w)[k]
    BY <2>1, <2>2, SameEnds DEF SameSizes
  <2> QED
    BY <2>1, <2>2, <2>3, <2>4 DEF Total, w
<1> QED
  BY <1>2, <1>3, <1>4, <1>5

\* Where nodes begin when nodes are added behind them.
LEMMA Offsets ==
  ASSUME NEW s \in Seq(SoundNodes), NEW u \in Seq(SoundNodes)
  PROVE  /\ \A i \in 1..Len(s) : Offset(s \o u, i) = Offset(s, i)
         /\ \A i \in 1..Len(u) : Offset(s \o u, Len(s) + i) = Total(s) + Offset(u, i)
         /\ \A i \in 1..Len(s) : /\ Offset(s, i) \in Nat
                                 /\ Offset(s, i) + s[i].size = Ends(s)[i]
<1>1. Len(s) \in Nat /\ Len(u) \in Nat /\ Ends(s) \in [0..Len(s) -> Nat]
  BY LenProperties, EndsDef
<1>2. ASSUME NEW i \in 1..Len(s) PROVE Offset(s \o u, i) = Offset(s, i)
  <2>1. i - 1 \in 0..Len(s)
    BY <1>1
  <2> QED
    BY <2>1, ConcatEnds DEF Offset
<1>3. ASSUME NEW i \in 1..Len(u) PROVE Offset(s \o u, Len(s) + i) = Total(s) + Offset(u, i)
  <2>1. i - 1 \in 0..Len(u) /\ (Len(s) + i) - 1 = Len(s) + (i - 1)
    BY <1>1
  <2> QED
    BY <2>1, ConcatEnds DEF Offset
<1>4. ASSUME NEW i \in 1..Len(s)
      PROVE  Offset(s, i) \in Nat /\ Offset(s, i) + s[i].size = Ends(s)[i]
  <2>1. i - 1 \in 0..Len(s)
    BY <1>1
  <2> QED
    BY <1>1, <2>1, EndsDef DEF Offset
<1> QED
  BY <1>2, <1>3, <1>4

\* One node added behind the nodes s.
LEMMA OneMore ==
  ASSUME NEW s \in Seq(SoundNodes), NEW n \in SoundNodes
  PROVE  /\ Append(s, n) \in Seq(SoundNodes) /\ Len(Append(s, n)) = Len(s) + 1
         /\ Total(Append(s, n)) = Total(s) + n.size
         /\ \A i \in 1..Len(s) : /\ Append(s, n)[i] = s[i]
                                 /\ Offset(Append(s, n), i) = Offset(s, i)
         /\ Append(s, n)[Len(s) + 1] = n /\ Offset(Append(s, n), Len(s) + 1) = Total(s)
<1> DEFINE w == Append(s, n)
<1>1. Len(s) \in Nat
  BY LenProperties
<1>2. /\ w \in Seq(SoundNodes) /\ Len(w) = Len(s) + 1 /\ w[Len(s) + 1] = n
      /\ \A i \in 1..Len(s) : w[i] = s[i]
  BY AppendProperties
<1>3. Total(w) = Total(s) + n.size
  BY Totals
<1> HIDE DEF w
<1>4. \A k \in 0..Len(s) : Ends(s)[k] = Ends(w)[k]
  BY <1>1, <1>2, SameEnds DEF SameSizes
<1>5. ASSUME NEW i \in 1..Len(s) PROVE Offset(w, i) = Offset(s, i)
  <2>1. i - 1 \in 0..Len(s)
    BY <1>1
  <2> QED
    BY <1>4, <2>1 DEF Offset
<1>6. Offset(w, Len(s) + 1) = Total(s)
  <2>1. (Len(s) + 1) - 1 = Len(s) /\ Len(s) \in 0..Len(s)
    BY <1>1
  <2> QED
    BY <1>4, <2>1 DEF Offset, Total
<1> QED
  BY <1>2, <1>3, <1>5, <1>6 DEF w

-----------------------------------------------------------------------------
(***************************************************************************)
(* Fillers                                                                 *)
(***************************************************************************)

\* The nodes p are fillers of n bytes together.
Fills(p, n) ==
  /\ p \in Seq(SoundNodes) /\ Total(p) = n
  /\ \A i \in 1..Len(p) : ~p[i].isLocked /\ ~p[i].selected

LEMMA FillerSound ==
  ASSUME NEW n \in 1..64
  PROVE  /\ Filler(n) \in SoundNodes /\ Filler(n).size = n
         /\ Filler(n).isLocked = FALSE /\ Filler(n).selected = FALSE
BY DEF Filler, Node, SoundNodes, Nodes, NoOffset

LEMMA FillsNone == Fills(<<>>, 0)
BY EmptySeq, Totals DEF Fills

LEMMA FillsAppend ==
  ASSUME NEW p, NEW m \in Nat, Fills(p, m), NEW n \in 1..64
  PROVE  Fills(Append(p, Filler(n)), m + n)
<1>1. p \in Seq(SoundNodes) /\ Len(p) \in Nat
  BY LenProperties DEF Fills
<1> DEFINE f == Filler(n)
           w == Append(p, f)
<1>2. f \in SoundNodes /\ f.size = n /\ ~f.isLocked /\ ~f.selected
  BY FillerSound
<1> HIDE DEF f
<1>3. /\ w \in Seq(SoundNodes) /\ Len(w) = Len(p) + 1 /\ Total(w) = Total(p) + n
      /\ w[Len(p) + 1] = f /\ \A i \in 1..Len(p) : w[i] = p[i]
  BY <1>1, <1>2, OneMore
<1> HIDE DEF w
<1>4. ASSUME NEW i \in 1..Len(w) PROVE ~w[i].isLocked /\ ~w[i].selected
  <2>1. i \in 1..Len(p) \/ i = Len(p) + 1
    BY <1>1, <1>3
  <2> QED
    BY <1>2, <1>3, <2>1 DEF Fills
<1>5. Fills(w, m + n)
  BY <1>3, <1>4 DEF Fills
<1> QED
  BY <1>5 DEF w, f

LEMMA FillsConcat ==
  ASSUME NEW p, NEW m \in Nat, Fills(p, m), NEW q, NEW n \in Nat, Fills(q, n)
  PROVE  Fills(p \o q, m + n)
<1>1. /\ p \in Seq(SoundNodes) /\ Len(p) \in Nat
      /\ q \in Seq(SoundNodes) /\ Len(q) \in Nat
  BY LenProperties DEF Fills
<1> DEFINE w == p \o q
<1>2. /\ w \in Seq(SoundNodes) /\ Len(w) = Len(p) + Len(q)
      /\ \A i \in 1..(Len(p) + Len(q)) : w[i] = IF i <= Len(p) THEN p[i] ELSE q[i - Len(p)]
  BY <1>1, ConcatProperties
<1>3. Total(w) = m + n
  BY <1>1, Totals DEF Fills
<1> HIDE DEF w
<1>4. ASSUME NEW i \in 1..Len(w) PROVE ~w[i].isLocked /\ ~w[i].selected
  <2>1. CASE i <= Len(p)
    <3>1. i \in 1..Len(p) /\ w[i] = p[i]
      BY <1>1, <1>2, <2>1
    <3> QED
      BY <3>1 DEF Fills
  <2>2. CASE ~(i <= Len(p))
    <3>1. i - Len(p) \in 1..Len(q) /\ w[i] = q[i - Len(p)]
      BY <1>1, <1>2, <2>2
    <3> QED
      BY <3>1 DEF Fills
  <2> QED
    BY <2>1, <2>2
<1>5. Fills(w, m + n)
  BY <1>2, <1>3, <1>4 DEF Fills
<1> QED
  BY <1>5 DEF w

\* m fillers of one size, 4 or 8.
LEMMA FillsRepeated ==
  ASSUME NEW m \in Nat, NEW n \in {4, 8}
  PROVE  Fills([i \in 1..m |-> Filler(n)], m * n)
<1> DEFINE P(k) == [i \in 1..k |-> Filler(n)]
           S    == {k \in Nat : Fills(P(k), k * n)}
<1>1. 0 \in S
  <2>1. P(0) = <<>>
    OBVIOUS
  <2> QED
    BY <2>1, FillsNone
<1>2. ASSUME NEW k \in Nat, k \in S PROVE k + 1 \in S
  <2>1. Fills(P(k), k * n) /\ k * n \in Nat
    BY <1>2
  <2>2. /\ \A j \in Nat : P(j) \in Seq(SoundNodes) /\ Len(P(j)) = j
    <3>1. Filler(n) \in SoundNodes
      BY FillerSound
    <3> QED
      BY <3>1, FunctionIsSequence
  <2>3. P(k + 1) = Append(P(k), Filler(n))
    <3>1. Filler(n) \in SoundNodes
      BY FillerSound
    <3> DEFINE v == Append(P(k), Filler(n))
    <3>2. /\ v \in Seq(SoundNodes) /\ Len(v) = k + 1
          /\ v[k + 1] = Filler(n) /\ \A i \in 1..k : v[i] = P(k)[i]
      <4>1. P(k) \in Seq(SoundNodes) /\ Len(P(k)) = k
        BY <2>2
      <4> HIDE DEF P
      <4> QED
        BY <3>1, <4>1, OneMore
    <3>3. \A i \in 1..(k + 1) : v[i] = P(k + 1)[i]
      <4>1. \A i \in 1..(k + 1) : i \in 1..k \/ i = k + 1
        OBVIOUS
      <4> HIDE DEF v
      <4> QED
        BY <3>2, <4>1
    <3>4. P(k + 1) \in Seq(SoundNodes) /\ Len(P(k + 1)) = k + 1
      BY <2>2
    <3> HIDE DEF P, v
    <3>5. P(k + 1) = v
      BY <3>2, <3>3, <3>4, SeqEqual
    <3> QED
      BY <3>5 DEF v
  <2>4. Fills(P(k + 1), k * n + n)
    <3>1. n \in 1..64
      OBVIOUS
    <3> HIDE DEF P
    <3>2. Fills(Append(P(k), Filler(n)), k * n + n)
      BY <2>1, <3>1, FillsAppend
    <3> QED
      BY <2>3, <3>2
  <2>5. k * n + n = (k + 1) * n
    OBVIOUS
  <2> HIDE DEF P
  <2> QED
    BY <2>4, <2>5
<1>3. Nat \subseteq S
  <2> HIDE DEF S
  <2> QED
    BY <1>1, <1>2, SetInduction
<1> QED
  BY <1>3

LEMMA FillsOne ==
  ASSUME NEW n \in 1..64
  PROVE  Fills(<<Filler(n)>>, n)
<1>1. Append(<<>>, Filler(n)) = <<Filler(n)>>
  OBVIOUS
<1>2. Fills(Append(<<>>, Filler(n)), 0 + n)
  BY FillsNone, FillsAppend
<1> QED
  BY <1>1, <1>2

LEMMA FillsSmall ==
  ASSUME NEW n \in 0..7
  PROVE  Fills(SmallFillers(n), n)
<1> DEFINE a == IF n >= 4 THEN 4 ELSE 0
           b == IF n % 4 >= 2 THEN 2 ELSE 0
           c == IF n % 2 = 1 THEN 1 ELSE 0
           A == IF n >= 4 THEN <<Filler(4)>> ELSE <<>>
           B == IF n % 4 >= 2 THEN <<Filler(2)>> ELSE <<>>
           C == IF n % 2 = 1 THEN <<Filler(1)>> ELSE <<>>
<1>1. a \in Nat /\ b \in Nat /\ c \in Nat /\ (a + b) + c = n
  OBVIOUS
<1>2. Fills(<<Filler(4)>>, 4) /\ Fills(<<Filler(2)>>, 2) /\ Fills(<<Filler(1)>>, 1)
  BY FillsOne
<1>6. Fills(A, a)
  BY <1>2, FillsNone
<1>7. Fills(B, b)
  BY <1>2, FillsNone
<1>8. Fills(C, c)
  BY <1>2, FillsNone
<1>3. SmallFillers(n) = (A \o B) \o C
  BY DEF SmallFillers
<1> HIDE DEF a, b, c, A, B, C
<1>4. Fills(A \o B, a + b) /\ a + b \in Nat
  BY <1>1, <1>6, <1>7, FillsConcat
<1>5. Fills((A \o B) \o C, (a + b) + c)
  BY <1>1, <1>8, <1>4, FillsConcat
<1> QED
  BY <1>1, <1>3, <1>5

\* Padding covers what it is to cover.
LEMMA FillsPadding ==
  ASSUME NEW n \in Nat
  PROVE  Fills(Padding(n), n)
<1>1. /\ n \div 8 \in Nat /\ n % 8 \in 0..7 /\ n % 8 \in Nat
      /\ (n \div 8) * 8 \in Nat /\ (n \div 8) * 8 + (n % 8) = n
  OBVIOUS
<1>2. Fills([i \in 1..(n \div 8) |-> Filler(8)], (n \div 8) * 8)
  BY <1>1, FillsRepeated
<1>3. Fills(SmallFillers(n % 8), n % 8)
  BY <1>1, FillsSmall
<1>4. Fills(Padding(n), (n \div 8) * 8 + (n % 8))
  BY <1>1, <1>2, <1>3, FillsConcat DEF Padding
<1> QED
  BY <1>1, <1>4

\* And so do the fillers behind a node that shrank.
LEMMA FillsRemainder ==
  ASSUME NEW n \in Nat
  PROVE  Fills(Remainder(n), n)
<1>1. /\ n \div 4 \in Nat /\ n % 4 \in 0..7 /\ n % 4 \in Nat
      /\ (n \div 4) * 4 \in Nat /\ (n \div 4) * 4 + (n % 4) = n
  OBVIOUS
<1>2. Fills([i \in 1..(n \div 4) |-> Filler(4)], (n \div 4) * 4)
  BY <1>1, FillsRepeated
<1>3. Fills(SmallFillers(n % 4), n % 4)
  BY <1>1, FillsSmall
<1>4. Fills(Remainder(n), (n \div 4) * 4 + (n % 4))
  BY <1>1, <1>2, <1>3, FillsConcat DEF Remainder
<1> QED
  BY <1>1, <1>4

-----------------------------------------------------------------------------
(***************************************************************************)
(* Laying nodes out                                                        *)
(***************************************************************************)

\* No locked one of the nodes s lies before the offset it is locked at.
Honours(s) ==
  \A i \in 1..Len(s) : s[i].isLocked => Offset(s, i) >= s[i].absoluteOffset

LEMMA HonoursNone == Honours(<<>>)
BY EmptySeq DEF Honours

\* Nodes that are not locked may be added, and one that is not locked behind
\* the end.
LEMMA HonoursConcat ==
  ASSUME NEW s \in Seq(SoundNodes), Honours(s), NEW p \in Seq(SoundNodes),
         \A i \in 1..Len(p) : ~p[i].isLocked
  PROVE  Honours(s \o p)
<1>1. Len(s) \in Nat /\ Len(p) \in Nat
  BY LenProperties
<1>2. /\ Len(s \o p) = Len(s) + Len(p)
      /\ \A i \in 1..(Len(s) + Len(p)) :
           (s \o p)[i] = IF i <= Len(s) THEN s[i] ELSE p[i - Len(s)]
  BY <1>1, ConcatProperties
<1> SUFFICES ASSUME NEW i \in 1..Len(s \o p), (s \o p)[i].isLocked
             PROVE  Offset(s \o p, i) >= (s \o p)[i].absoluteOffset
  BY DEF Honours
<1>3. CASE i <= Len(s)
  <2>1. i \in 1..Len(s) /\ (s \o p)[i] = s[i]
    BY <1>1, <1>2, <1>3
  <2>2. Offset(s \o p, i) = Offset(s, i)
    BY <1>1, <2>1, Offsets
  <2> QED
    BY <2>1, <2>2 DEF Honours
<1>4. CASE ~(i <= Len(s))
  <2>1. i - Len(s) \in 1..Len(p) /\ (s \o p)[i] = p[i - Len(s)]
    BY <1>1, <1>2, <1>4
  <2> QED
    BY <2>1
<1> QED
  BY <1>3, <1>4

LEMMA HonoursAppend ==
  ASSUME NEW s \in Seq(SoundNodes), Honours(s), NEW n \in SoundNodes,
         n.isLocked => Total(s) >= n.absoluteOffset
  PROVE  Honours(Append(s, n))
<1> DEFINE w == Append(s, n)
<1>1. Len(s) \in Nat
  BY LenProperties
<1>2. /\ Len(w) = Len(s) + 1 /\ w[Len(s) + 1] = n /\ Offset(w, Len(s) + 1) = Total(s)
      /\ \A i \in 1..Len(s) : w[i] = s[i] /\ Offset(w, i) = Offset(s, i)
  BY OneMore
<1> HIDE DEF w
<1>3. ASSUME NEW i \in 1..Len(w), w[i].isLocked PROVE Offset(w, i) >= w[i].absoluteOffset
  <2>1. i \in 1..Len(s) \/ i = Len(s) + 1
    BY <1>1, <1>2
  <2> QED
    BY <1>2, <1>3, <2>1 DEF Honours
<1> QED
  BY <1>3 DEF Honours, w

\* The bytes of padding a node behind the nodes s needs.
Missing(s, n) ==
  IF n.isLocked /\ n.absoluteOffset > Total(s) THEN n.absoluteOffset - Total(s) ELSE 0

\* A node is placed behind as much padding as it needs.
LEMMA Placed ==
  ASSUME NEW s \in Seq(SoundNodes), NEW n \in SoundNodes
  PROVE  /\ Missing(s, n) \in Nat
         /\ n.isLocked => Total(s) + Missing(s, n) >= n.absoluteOffset
         /\ \E p : Fills(p, Missing(s, n)) /\ PlaceNode(s, n) = Append(s \o p, n)
         /\ Missing(s, n) = 0 => PlaceNode(s, n) = Append(s, n)
<1>1. Total(s) \in Nat /\ (n.isLocked => n.absoluteOffset \in Nat)
  BY TotalType, SoundNode
<1>2. /\ Missing(s, n) \in Nat
      /\ n.isLocked => Total(s) + Missing(s, n) >= n.absoluteOffset
  BY <1>1 DEF Missing
<1>3. CASE n.isLocked /\ n.absoluteOffset > Total(s)
  <2>1. PlaceNode(s, n) = Append(s \o Padding(Missing(s, n)), n) /\ Missing(s, n) # 0
    BY <1>1, <1>3 DEF PlaceNode, Missing
  <2>2. Fills(Padding(Missing(s, n)), Missing(s, n))
    BY <1>2, FillsPadding
  <2> QED
    BY <1>2, <2>1, <2>2
<1>4. CASE ~(n.isLocked /\ n.absoluteOffset > Total(s))
  <2>1. PlaceNode(s, n) = Append(s, n) /\ Missing(s, n) = 0
    BY <1>4 DEF PlaceNode, Missing
  <2>2. s \o <<>> = s
    BY ConcatEmptySeq
  <2>3. PlaceNode(s, n) = Append(s \o <<>>, n)
    BY <2>1, <2>2
  <2> QED
    BY <1>2, <2>1, <2>3, FillsNone
<1> QED
  BY <1>3, <1>4

LEMMA PlacedLayout ==
  ASSUME NEW s \in Seq(SoundNodes), NEW n \in SoundNodes
  PROVE  /\ PlaceNode(s, n) \in Seq(SoundNodes)
         /\ Total(PlaceNode(s, n)) = Total(s) + Missing(s, n) + n.size
         /\ Honours(s) => Honours(PlaceNode(s, n))
<1>1. PICK p : Fills(p, Missing(s, n)) /\ PlaceNode(s, n) = Append(s \o p, n)
  BY Placed
<1>2. p \in Seq(SoundNodes) /\ Total(p) = Missing(s, n)
  BY <1>1 DEF Fills
<1>3. s \o p \in Seq(SoundNodes) /\ Total(s \o p) = Total(s) + Missing(s, n)
  BY <1>2, ConcatProperties, Totals
<1>4. /\ PlaceNode(s, n) \in Seq(SoundNodes)
      /\ Total(PlaceNode(s, n)) = Total(s) + Missing(s, n) + n.size
  <2> DEFINE w == s \o p
  <2>1. w \in Seq(SoundNodes) /\ Total(w) = Total(s) + Missing(s, n)
    BY <1>3
  <2>2. PlaceNode(s, n) = Append(w, n)
    BY <1>1
  <2> HIDE DEF w
  <2>3. Append(w, n) \in Seq(SoundNodes) /\ Total(Append(w, n)) = Total(w) + n.size
    BY <2>1, OneMore
  <2> QED
    BY <2>1, <2>2, <2>3
<1>5. ASSUME Honours(s) PROVE Honours(PlaceNode(s, n))
  <2>1. Honours(s \o p)
    BY <1>1, <1>2, <1>5, HonoursConcat DEF Fills
  <2>2. n.isLocked => Total(s \o p) >= n.absoluteOffset
    BY <1>3, Placed
  <2> QED
    BY <1>1, <1>3, <2>1, <2>2, HonoursAppend
<1> QED
  BY <1>4, <1>5

\* The layout of each number of the nodes s, taken from the front.
Laid(s) ==
  LET laid[k \in 0..Len(s)] == IF k = 0 THEN <<>> ELSE PlaceNode(laid[k - 1], s[k]) IN laid

LEMMA LaidDef ==
  ASSUME NEW s \in Seq(SoundNodes)
  PROVE  /\ Laid(s)[0] = <<>> /\ Laid(s)[Len(s)] = Normalized(s)
         /\ \A k \in 0..Len(s) : Laid(s)[k] \in Seq(SoundNodes)
         /\ \A k \in 1..Len(s) : Laid(s)[k] = PlaceNode(Laid(s)[k - 1], s[k])
<1> DEFINE N     == Seq(SoundNodes)
           Is(g) == g = [k \in 0..Len(s) |-> IF k = 0 THEN <<>> ELSE PlaceNode(g[k - 1], s[k])]
           step  == [x \in N \X (1..Len(s)) |-> PlaceNode(x[1], s[x[2]])]
<1>1. Len(s) \in Nat /\ \A k \in 1..Len(s) : s[k] \in SoundNodes
  BY LenProperties, ElementOfSeq
<1>2. step \in Steps(N, Len(s)) /\ <<>> \in N
  <2>1. \A u \in N, k \in 1..Len(s) : PlaceNode(u, s[k]) \in N
    BY <1>1, PlacedLayout
  <2> HIDE DEF N
  <2>2. step \in Steps(N, Len(s))
    BY <2>1 DEF Steps
  <2> QED
    BY <2>2, EmptySeq DEF N
<1>3. PICK g : Iterates(g, N, Len(s), <<>>, step)
  <2> HIDE DEF step, N
  <2> QED
    BY <1>1, <1>2, RecursionExists, Zenon
<1>4. /\ g \in [0..Len(s) -> N] /\ g[0] = <<>>
      /\ \A k \in 1..Len(s) : g[k] = PlaceNode(g[k - 1], s[k])
  <2> HIDE DEF N
  <2>1. /\ g \in [0..Len(s) -> N] /\ g[0] = <<>>
        /\ \A k \in 1..Len(s) : g[k] = step[<<g[k - 1], k>>]
    BY <1>3, Zenon DEF Iterates
  <2>2. ASSUME NEW k \in 1..Len(s) PROVE step[<<g[k - 1], k>>] = PlaceNode(g[k - 1], s[k])
    <3>1. k - 1 \in 0..Len(s)
      BY <1>1
    <3>2. g[k - 1] \in N
      BY <2>1, <3>1
    <3> QED
      BY <1>1, <3>2
  <2> HIDE DEF step
  <2> QED
    BY <2>1, <2>2
<1>5. Is(g)
  <2> HIDE DEF N
  <2> QED
    BY <1>1, <1>4
<1>6. Is(Laid(s))
  BY <1>5, Zenon DEF Laid
<1>7. Laid(s)[0] = <<>>
  BY <1>1, <1>6
<1>8. ASSUME NEW k \in 1..Len(s) PROVE Laid(s)[k] = PlaceNode(Laid(s)[k - 1], s[k])
  BY <1>1, <1>6
<1>9. \A k \in 0..Len(s) : Laid(s)[k] \in N
  <2>1. ASSUME NEW k \in 1..Len(s), Laid(s)[k - 1] \in N PROVE Laid(s)[k] \in N
    BY <1>1, <1>8, <2>1, PlacedLayout
  <2>2. Laid(s)[0] \in N
    BY <1>2, <1>7
  <2>3. Keeps(Laid(s), N, Len(s))
    BY <2>1, <2>2 DEF Keeps
  <2> HIDE DEF N
  <2> QED
    BY <1>1, <2>3, RecursionType DEF Within
<1>10. Laid(s)[Len(s)] = Normalized(s)
  BY DEF Laid, Normalized
<1> QED
  BY <1>7, <1>8, <1>9, <1>10

\* Laying out one node more is placing it behind the layout of the others.
LEMMA NormalizedNodes ==
  /\ Normalized(<<>>) = <<>>
  /\ \A s \in Seq(SoundNodes) : Normalized(s) \in Seq(SoundNodes)
  /\ \A s \in Seq(SoundNodes), n \in SoundNodes :
       Normalized(Append(s, n)) = PlaceNode(Normalized(s), n)
<1>1. Normalized(<<>>) = <<>>
  BY EmptySeq, LaidDef
<1>2. ASSUME NEW s \in Seq(SoundNodes) PROVE Normalized(s) \in Seq(SoundNodes)
  <2>1. Len(s) \in 0..Len(s)
    BY LenProperties
  <2> QED
    BY <2>1, LaidDef
<1>3. ASSUME NEW s \in Seq(SoundNodes), NEW n \in SoundNodes
      PROVE  Normalized(Append(s, n)) = PlaceNode(Normalized(s), n)
  <2> DEFINE w == Append(s, n)
  <2>1. Len(s) \in Nat /\ Len(s) \in 0..Len(s) /\ Len(s) + 1 \in 1..(Len(s) + 1)
        /\ (Len(s) + 1) - 1 = Len(s)
    BY LenProperties
  <2>2. /\ w \in Seq(SoundNodes) /\ Len(w) = Len(s) + 1 /\ w[Len(s) + 1] = n
        /\ \A i \in 1..Len(s) : w[i] = s[i]
    BY AppendProperties
  <2> HIDE DEF w
  <2>3. Laid(s)[0] = Laid(w)[0]
    BY <2>2, LaidDef
  <2>4. ASSUME NEW k \in 1..Len(s), Laid(s)[k - 1] = Laid(w)[k - 1]
        PROVE  Laid(s)[k] = Laid(w)[k]
    <3>1. k \in 1..Len(w) /\ w[k] = s[k]
      BY <2>1, <2>2
    <3> QED
      BY <2>2, <2>4, <3>1, LaidDef
  <2>5. \A k \in 0..Len(s) : Laid(s)[k] = Laid(w)[k]
    <3>1. StepAlike(Laid(s), Laid(w), Len(s))
      BY <2>3, <2>4 DEF StepAlike
    <3> QED
      BY <2>1, <3>1, RecursionSame DEF Alike
  <2>6. Laid(w)[Len(s)] = Normalized(s)
    BY <2>1, <2>5, LaidDef
  <2>7. /\ Laid(w)[Len(w)] = Normalized(w)
        /\ Laid(w)[Len(s) + 1] = PlaceNode(Laid(w)[(Len(s) + 1) - 1], w[Len(s) + 1])
    BY <2>1, <2>2, LaidDef
  <2>8. Normalized(w) = PlaceNode(Normalized(s), n)
    BY <2>1, <2>2, <2>6, <2>7
  <2> QED
    BY <2>8 DEF w
<1> QED
  BY <1>1, <1>2, <1>3

\* The layout of nodes honours every lock, and keeps every node.
LEMMA NormalizedHonours ==
  ASSUME NEW s \in Seq(SoundNodes)
  PROVE  Honours(Normalized(s))
<1> DEFINE S == {u \in Seq(SoundNodes) : Honours(Normalized(u))}
<1>1. <<>> \in S
  BY EmptySeq, NormalizedNodes, HonoursNone
<1>2. ASSUME NEW u \in Seq(SoundNodes), NEW n \in SoundNodes, u \in S
      PROVE  Append(u, n) \in S
  <2>1. Append(u, n) \in Seq(SoundNodes) /\ Normalized(u) \in Seq(SoundNodes)
    BY AppendProperties, NormalizedNodes
  <2>2. Honours(PlaceNode(Normalized(u), n))
    BY <1>2, <2>1, PlacedLayout
  <2> QED
    BY <2>1, <2>2, NormalizedNodes
<1>3. Seq(SoundNodes) \subseteq S
  <2> HIDE DEF S
  <2> QED
    BY <1>1, <1>2, SequenceInduction
<1> QED
  BY <1>3

LEMMA NormalizedKeeps ==
  ASSUME NEW s \in Seq(SoundNodes), NEW i \in 1..Len(s)
  PROVE  \E j \in 1..Len(Normalized(s)) : Normalized(s)[j] = s[i]
<1> DEFINE In(n, u) == \E j \in 1..Len(u) : u[j] = n
           S == {u \in Seq(SoundNodes) : \A k \in 1..Len(u) : In(u[k], Normalized(u))}
<1>1. <<>> \in S
  BY EmptySeq
<1>2. ASSUME NEW u \in Seq(SoundNodes), NEW n \in SoundNodes, u \in S
      PROVE  Append(u, n) \in S
  <2> DEFINE v == Append(u, n)
             l == Normalized(u)
  <2>1. /\ v \in Seq(SoundNodes) /\ Len(v) = Len(u) + 1 /\ v[Len(u) + 1] = n
        /\ \A k \in 1..Len(u) : v[k] = u[k]
    BY AppendProperties
  <2>2. l \in Seq(SoundNodes) /\ Len(l) \in Nat /\ Len(u) \in Nat
    BY NormalizedNodes, LenProperties
  <2>3. \A k \in 1..Len(u) : In(u[k], l)
    BY <1>2
  <2>4. Normalized(v) = PlaceNode(l, n)
    BY NormalizedNodes
  <2> HIDE DEF v, l
  <2>5. PICK p : Fills(p, Missing(l, n)) /\ PlaceNode(l, n) = Append(l \o p, n)
    BY <2>2, Placed
  <2>6. p \in Seq(SoundNodes) /\ Len(p) \in Nat
    BY <2>5, LenProperties DEF Fills
  <2> DEFINE w == l \o p
  <2>7. /\ w \in Seq(SoundNodes) /\ Len(w) = Len(l) + Len(p)
        /\ \A j \in 1..Len(l) : w[j] = l[j]
    BY <2>2, <2>6, ConcatProperties
  <2>8. Normalized(v) = Append(w, n)
    BY <2>4, <2>5
  <2> HIDE DEF w
  <2>9. /\ Len(Append(w, n)) = Len(w) + 1 /\ Append(w, n)[Len(w) + 1] = n
        /\ \A j \in 1..Len(w) : Append(w, n)[j] = w[j]
    BY <2>7, AppendProperties
  <2>10. ASSUME NEW k \in 1..Len(v) PROVE In(v[k], Normalized(v))
    <3>1. CASE k = Len(u) + 1
      <4>1. Len(w) + 1 \in 1..Len(Append(w, n))
        BY <2>2, <2>6, <2>7, <2>9
      <4> QED
        BY <2>1, <2>8, <2>9, <3>1, <4>1
    <3>2. CASE k # Len(u) + 1
      <4>1. k \in 1..Len(u) /\ v[k] = u[k]
        BY <2>1, <2>2, <3>2
      <4>2. PICK j \in 1..Len(l) : l[j] = u[k]
        BY <2>3, <4>1
      <4>3. j \in 1..Len(w) /\ j \in 1..Len(Append(w, n)) /\ Append(w, n)[j] = l[j]
        BY <2>2, <2>6, <2>7, <2>9
      <4> QED
        BY <2>8, <4>1, <4>2, <4>3
    <3> QED
      BY <3>1, <3>2
  <2> HIDE DEF In
  <2>11. v \in S
    BY <2>1, <2>10
  <2> QED
    BY <2>11 DEF v
<1>3. Seq(SoundNodes) \subseteq S
  <2> HIDE DEF S
  <2> QED
    BY <1>1, <1>2, SequenceInduction
<1> QED
  BY <1>3

\* Nodes that honour their locks are laid out as they are.
LEMMA NormalizedSame ==
  ASSUME NEW s \in Seq(SoundNodes), Honours(s)
  PROVE  Normalized(s) = s
<1> DEFINE S == {u \in Seq(SoundNodes) : Honours(u) => Normalized(u) = u}
<1>1. <<>> \in S
  BY EmptySeq, NormalizedNodes
<1>2. ASSUME NEW u \in Seq(SoundNodes), NEW n \in SoundNodes, u \in S
      PROVE  Append(u, n) \in S
  <2>1. Append(u, n) \in Seq(SoundNodes)
    BY AppendProperties
  <2> SUFFICES ASSUME Honours(Append(u, n)) PROVE Normalized(Append(u, n)) = Append(u, n)
    BY <2>1
  <2> DEFINE v == Append(u, n)
  <2>2. /\ Len(v) = Len(u) + 1 /\ v[Len(u) + 1] = n /\ Offset(v, Len(u) + 1) = Total(u)
        /\ \A i \in 1..Len(u) : v[i] = u[i] /\ Offset(v, i) = Offset(u, i)
    BY OneMore
  <2>3. Len(u) \in Nat /\ Total(u) \in Nat /\ Honours(v)
    BY LenProperties, TotalType
  <2> HIDE DEF v
  <2>4. Honours(u)
    <3>1. \A i \in 1..Len(u) : i \in 1..Len(v)
      BY <2>2, <2>3
    <3> QED
      BY <2>2, <2>3, <3>1 DEF Honours
  <2>5. Missing(u, n) = 0
    <3>1. Len(u) + 1 \in 1..Len(v)
      BY <2>2, <2>3
    <3>2. n.isLocked => Total(u) >= n.absoluteOffset
      BY <2>2, <2>3, <3>1 DEF Honours
    <3>3. n.isLocked => n.absoluteOffset \in Nat
      BY SoundNode
    <3> QED
      BY <2>3, <3>2, <3>3 DEF Missing
  <2>6. Normalized(u) = u
    BY <1>2, <2>4
  <2> QED
    BY <2>5, <2>6, NormalizedNodes, Placed
<1>3. Seq(SoundNodes) \subseteq S
  <2> HIDE DEF S
  <2> QED
    BY <1>1, <1>2, SequenceInduction
<1> QED
  BY <1>3

-----------------------------------------------------------------------------
(***************************************************************************)
(* Changing the type of nodes                                              *)
(***************************************************************************)

\* The bytes that a node of size m leaves to fillers when it gets the size n.
Freed(m, n) == IF m > n THEN m - n ELSE 0

LEMMA FreedType ==
  ASSUME NEW m \in Nat, NEW n \in Nat
  PROVE  Freed(m, n) \in Nat /\ (m >= n => n + Freed(m, n) = m)
BY DEF Freed

LEMMA TypeSize ==
  ASSUME NEW t \in Types
  PROVE  t.size \in 1..64 /\ t.size \in Nat /\ t.var \in BOOLEAN
<1>1. t \in [size : 1..64, var : BOOLEAN]
  BY LayoutAssumption
<1> QED
  BY <1>1

\* The nodes w are the nodes s and, behind them, selected nodes that cover n bytes.
Grown(s, w, n) ==
  /\ w \in Seq(SoundNodes) /\ Total(w) = Total(s) + n /\ Len(w) >= Len(s) + 1
  /\ \A i \in 1..Len(s) : w[i] = s[i] /\ Offset(w, i) = Offset(s, i)
  /\ \A i \in (Len(s) + 1)..Len(w) : w[i].selected

LEMMA SelectedFillers ==
  ASSUME NEW p, NEW n, Fills(p, n)
  PROVE  /\ AllSelected(p) \in Seq(SoundNodes) /\ Total(AllSelected(p)) = n
         /\ \A i \in 1..Len(AllSelected(p)) :
              ~AllSelected(p)[i].isLocked /\ AllSelected(p)[i].selected
<1> DEFINE q == AllSelected(p)
<1>1. p \in Seq(SoundNodes) /\ Len(p) \in Nat /\ DOMAIN p = 1..Len(p) /\ Total(p) = n
  BY LenProperties DEF Fills
<1>2. ASSUME NEW i \in 1..Len(p)
      PROVE  /\ [p[i] EXCEPT !.selected = TRUE] \in SoundNodes
             /\ [p[i] EXCEPT !.selected = TRUE].selected = TRUE
             /\ [p[i] EXCEPT !.selected = TRUE].isLocked = p[i].isLocked
             /\ [p[i] EXCEPT !.selected = TRUE].size = p[i].size
  <2>1. p[i] \in SoundNodes
    BY <1>1, ElementOfSeq
  <2> QED
    BY <2>1 DEF SoundNodes, Nodes
<1>3. q \in [1..Len(p) -> SoundNodes]
  BY <1>1, <1>2 DEF AllSelected
<1>4. q \in Seq(SoundNodes) /\ Len(q) = Len(p)
  <2> HIDE DEF q
  <2> QED
    BY <1>1, <1>3, FunctionIsSequence
<1>5. ASSUME NEW i \in 1..Len(p)
      PROVE  /\ q[i].selected = TRUE
             /\ q[i].isLocked = p[i].isLocked /\ q[i].size = p[i].size
  BY <1>1, <1>2 DEF AllSelected
<1> HIDE DEF q
<1>6. Total(q) = Total(p)
  <2>1. Len(p) \in 0..Len(p) /\ Len(q) <= Len(p)
    BY <1>1, <1>4
  <2>2. SameSizes(q, p)
    <3>1. \A k \in 1..Len(q) : q[k].size = p[k].size
      BY <1>4, <1>5
    <3> QED
      BY <2>1, <3>1 DEF SameSizes
  <2>3. \A k \in 0..Len(q) : Ends(q)[k] = Ends(p)[k]
    BY <1>1, <1>4, <2>2, SameEnds
  <2> QED
    BY <1>4, <2>1, <2>3 DEF Total
<1>7. ASSUME NEW i \in 1..Len(q) PROVE ~q[i].isLocked /\ q[i].selected
  BY <1>4, <1>5 DEF Fills
<1> QED
  BY <1>1, <1>4, <1>6, <1>7 DEF q

\* A node that gets a new type.
LEMMA RetypedOne ==
  ASSUME NEW s \in Seq(SoundNodes), NEW t \in Types, NEW i \in Indices,
         nodes \in Seq(SoundNodes)
  PROVE  /\ Grown(s, RetypedNode(s, i, t), t.size + Freed(nodes[i].size, t.size))
         /\ Honours(s) => Honours(RetypedNode(s, i, t))
<1> DEFINE n == Node(t, TRUE, Total(s))
           v == s \o <<n>>
           d == Freed(nodes[i].size, t.size)
           q == AllSelected(Remainder(d))
           w == v \o q
<1>1. t.size \in 1..64 /\ t.size \in Nat /\ t.var \in BOOLEAN
  BY TypeSize
<1>2. nodes[i].size \in Nat
  <2>1. nodes[i] \in SoundNodes
    BY ElementOfSeq DEF Indices
  <2> QED
    BY <2>1, SoundNode
<1>3. Total(s) \in Nat /\ Len(s) \in Nat
  BY TotalType, LenProperties
<1>4. /\ n \in SoundNodes /\ n.size = t.size /\ n.selected = TRUE
      /\ n.absoluteOffset = Total(s)
  BY <1>1, <1>3 DEF Node, SoundNodes, Nodes, NoOffset
<1>5. v = Append(s, n)
  BY <1>4, AppendIsConcat
<1>6. d \in Nat /\ Fills(Remainder(d), d)
  <2>1. d \in Nat
    BY <1>1, <1>2, FreedType
  <2> HIDE DEF d
  <2> QED
    BY <2>1, FillsRemainder
<1>7. RetypedNode(s, i, t) = w
  BY DEF RetypedNode, Freed
<1> HIDE DEF n, v, d
<1>8. /\ q \in Seq(SoundNodes) /\ Total(q) = d
      /\ \A j \in 1..Len(q) : ~q[j].isLocked /\ q[j].selected
  BY <1>6, SelectedFillers
<1> HIDE DEF q
<1>9. /\ v \in Seq(SoundNodes) /\ Len(v) = Len(s) + 1 /\ Total(v) = Total(s) + t.size
      /\ v[Len(s) + 1] = n
      /\ \A j \in 1..Len(s) : v[j] = s[j] /\ Offset(v, j) = Offset(s, j)
  BY <1>4, <1>5, OneMore
<1>10. /\ w \in Seq(SoundNodes) /\ Len(w) = Len(v) + Len(q)
       /\ \A j \in 1..(Len(v) + Len(q)) : w[j] = IF j <= Len(v) THEN v[j] ELSE q[j - Len(v)]
  BY <1>8, <1>9, ConcatProperties
<1>11. Total(w) = Total(s) + (t.size + d)
  <2>1. Total(w) = Total(v) + Total(q)
    BY <1>8, <1>9, Totals
  <2> HIDE DEF w
  <2> QED
    BY <1>1, <1>3, <1>6, <1>8, <1>9, <2>1
<1>12. \A j \in 1..Len(v) : Offset(w, j) = Offset(v, j)
  BY <1>8, <1>9, Offsets
<1>13. Len(q) \in Nat
  BY <1>8, LenProperties
<1> HIDE DEF w
<1>14. ASSUME NEW j \in 1..Len(s) PROVE w[j] = s[j] /\ Offset(w, j) = Offset(s, j)
  <2>1. j \in 1..Len(v) /\ j \in 1..(Len(v) + Len(q)) /\ j <= Len(v)
    BY <1>3, <1>9, <1>13
  <2> QED
    BY <1>9, <1>10, <1>12, <2>1
<1>15. ASSUME NEW j \in (Len(s) + 1)..Len(w) PROVE w[j].selected
  <2>1. j \in 1..(Len(v) + Len(q))
    BY <1>3, <1>9, <1>10, <1>13
  <2>2. CASE j <= Len(v)
    <3>1. j = Len(s) + 1 /\ w[j] = v[j]
      BY <1>3, <1>9, <1>10, <2>1, <2>2
    <3> QED
      BY <1>4, <1>9, <3>1
  <2>3. CASE ~(j <= Len(v))
    <3>1. w[j] = q[j - Len(v)] /\ j - Len(v) \in 1..Len(q)
      BY <1>3, <1>9, <1>10, <1>13, <2>1, <2>3
    <3> QED
      BY <1>8, <3>1
  <2> QED
    BY <2>2, <2>3
<1>16. Grown(s, w, t.size + d)
  <2>1. Len(w) >= Len(s) + 1
    BY <1>3, <1>9, <1>10, <1>13
  <2> QED
    BY <1>10, <1>11, <1>14, <1>15, <2>1 DEF Grown
<1>17. ASSUME Honours(s) PROVE Honours(w)
  <2>1. Honours(v)
    <3>1. n.isLocked => Total(s) >= n.absoluteOffset
      BY <1>3, <1>4
    <3> QED
      BY <1>4, <1>5, <1>17, <3>1, HonoursAppend
  <2> QED
    BY <1>8, <1>9, <2>1, HonoursConcat DEF w
<1> QED
  BY <1>7, <1>16, <1>17 DEF d

\* What changeType(t) makes of each number of the nodes, taken from the front.
NewTo(t) ==
  LET new[k \in 0..Len(nodes)] ==
        IF k = 0 THEN <<>>
        ELSE IF nodes[k].selected THEN RetypedNode(new[k - 1], k, t)
                                  ELSE Append(new[k - 1], nodes[k])
  IN  new

LEMMA NewToDef ==
  ASSUME nodes \in Seq(SoundNodes), NEW t \in Types
  PROVE  /\ NewTo(t)[0] = <<>> /\ NewTo(t)[Len(nodes)] = Retyped(t)
         /\ \A k \in 0..Len(nodes) : NewTo(t)[k] \in Seq(SoundNodes)
         /\ \A k \in 1..Len(nodes) :
              NewTo(t)[k] = IF nodes[k].selected THEN RetypedNode(NewTo(t)[k - 1], k, t)
                                                 ELSE Append(NewTo(t)[k - 1], nodes[k])
<1> DEFINE N       == Seq(SoundNodes)
           Nw(u, k) == IF nodes[k].selected THEN RetypedNode(u, k, t) ELSE Append(u, nodes[k])
           Is(g)   == g = [k \in 0..Len(nodes) |-> IF k = 0 THEN <<>> ELSE Nw(g[k - 1], k)]
           step    == [x \in N \X (1..Len(nodes)) |-> Nw(x[1], x[2])]
<1>1. Len(nodes) \in Nat /\ \A k \in 1..Len(nodes) : nodes[k] \in SoundNodes
  BY LenProperties, ElementOfSeq
<1>2. \A u \in N, k \in 1..Len(nodes) : Nw(u, k) \in N
  <2> SUFFICES ASSUME NEW u \in N, NEW k \in 1..Len(nodes) PROVE Nw(u, k) \in N
    OBVIOUS
  <2>1. RetypedNode(u, k, t) \in N
    <3>1. k \in Indices
      BY DEF Indices
    <3> QED
      BY <3>1, RetypedOne DEF Grown
  <2>2. Append(u, nodes[k]) \in N
    BY <1>1, OneMore
  <2> QED
    BY <2>1, <2>2
<1>3. step \in Steps(N, Len(nodes)) /\ <<>> \in N
  <2> HIDE DEF N, Nw
  <2>1. step \in Steps(N, Len(nodes))
    BY <1>2 DEF Steps
  <2> QED
    BY <2>1, EmptySeq DEF N
<1> HIDE DEF Nw
<1>4. PICK g : Iterates(g, N, Len(nodes), <<>>, step)
  <2> HIDE DEF step, N
  <2> QED
    BY <1>1, <1>3, RecursionExists, Zenon
<1>5. /\ g \in [0..Len(nodes) -> N] /\ g[0] = <<>>
      /\ \A k \in 1..Len(nodes) : g[k] = Nw(g[k - 1], k)
  <2> HIDE DEF N
  <2>1. /\ g \in [0..Len(nodes) -> N] /\ g[0] = <<>>
        /\ \A k \in 1..Len(nodes) : g[k] = step[<<g[k - 1], k>>]
    BY <1>4, Zenon DEF Iterates
  <2>2. ASSUME NEW k \in 1..Len(nodes) PROVE step[<<g[k - 1], k>>] = Nw(g[k - 1], k)
    <3>1. k - 1 \in 0..Len(nodes)
      BY <1>1
    <3>2. g[k - 1] \in N
      BY <2>1, <3>1
    <3> QED
      BY <1>1, <3>2
  <2> HIDE DEF step
  <2> QED
    BY <2>1, <2>2
<1>6. Is(g)
  <2> HIDE DEF N
  <2> QED
    BY <1>1, <1>5
<1>7. Is(NewTo(t))
  BY <1>6, Zenon DEF NewTo, Nw
<1>8. NewTo(t)[0] = <<>>
  BY <1>1, <1>7
<1>9. ASSUME NEW k \in 1..Len(nodes) PROVE NewTo(t)[k] = Nw(NewTo(t)[k - 1], k)
  BY <1>1, <1>7
<1>10. \A k \in 0..Len(nodes) : NewTo(t)[k] \in N
  <2> HIDE DEF N
  <2>1. ASSUME NEW k \in 1..Len(nodes), NewTo(t)[k - 1] \in N PROVE NewTo(t)[k] \in N
    BY <1>2, <1>9, <2>1
  <2>2. NewTo(t)[0] \in N
    BY <1>3, <1>8
  <2>3. Keeps(NewTo(t), N, Len(nodes))
    BY <2>1, <2>2 DEF Keeps
  <2> QED
    BY <1>1, <2>3, RecursionType DEF Within
<1>11. NewTo(t)[Len(nodes)] = Retyped(t)
  BY DEF NewTo, Retyped
<1> QED
  BY <1>8, <1>9, <1>10, <1>11 DEF Nw

\* What Delete leaves of each number of the nodes, taken from the front.
Kept ==
  LET kept[k \in 0..Len(nodes)] ==
        IF k = 0 THEN <<>>
        ELSE IF nodes[k].selected THEN kept[k - 1] ELSE Append(kept[k - 1], nodes[k])
  IN  kept

LEMMA KeptDef ==
  ASSUME nodes \in Seq(SoundNodes)
  PROVE  /\ Kept[0] = <<>> /\ Kept[Len(nodes)] = Remaining
         /\ \A k \in 0..Len(nodes) : Kept[k] \in Seq(SoundNodes)
         /\ \A k \in 1..Len(nodes) :
              Kept[k] = IF nodes[k].selected THEN Kept[k - 1] ELSE Append(Kept[k - 1], nodes[k])
<1> DEFINE N       == Seq(SoundNodes)
           Nw(u, k) == IF nodes[k].selected THEN u ELSE Append(u, nodes[k])
           Is(g)   == g = [k \in 0..Len(nodes) |-> IF k = 0 THEN <<>> ELSE Nw(g[k - 1], k)]
           step    == [x \in N \X (1..Len(nodes)) |-> Nw(x[1], x[2])]
<1>1. Len(nodes) \in Nat /\ \A k \in 1..Len(nodes) : nodes[k] \in SoundNodes
  BY LenProperties, ElementOfSeq
<1>2. \A u \in N, k \in 1..Len(nodes) : Nw(u, k) \in N
  BY <1>1, OneMore
<1>3. step \in Steps(N, Len(nodes)) /\ <<>> \in N
  <2> HIDE DEF N, Nw
  <2>1. step \in Steps(N, Len(nodes))
    BY <1>2 DEF Steps
  <2> QED
    BY <2>1, EmptySeq DEF N
<1> HIDE DEF Nw
<1>4. PICK g : Iterates(g, N, Len(nodes), <<>>, step)
  <2> HIDE DEF step, N
  <2> QED
    BY <1>1, <1>3, RecursionExists, Zenon
<1>5. /\ g \in [0..Len(nodes) -> N] /\ g[0] = <<>>
      /\ \A k \in 1..Len(nodes) : g[k] = Nw(g[k - 1], k)
  <2> HIDE DEF N
  <2>1. /\ g \in [0..Len(nodes) -> N] /\ g[0] = <<>>
        /\ \A k \in 1..Len(nodes) : g[k] = step[<<g[k - 1], k>>]
    BY <1>4, Zenon DEF Iterates
  <2>2. ASSUME NEW k \in 1..Len(nodes) PROVE step[<<g[k - 1], k>>] = Nw(g[k - 1], k)
    <3>1. k - 1 \in 0..Len(nodes)
      BY <1>1
    <3>2. g[k - 1] \in N
      BY <2>1, <3>1
    <3> QED
      BY <1>1, <3>2
  <2> HIDE DEF step
  <2> QED
    BY <2>1, <2>2
<1>6. Is(g)
  <2> HIDE DEF N
  <2> QED
    BY <1>1, <1>5
<1>7. Is(Kept)
  BY <1>6, Zenon DEF Kept, Nw
<1>8. Kept[0] = <<>>
  BY <1>1, <1>7
<1>9. ASSUME NEW k \in 1..Len(nodes) PROVE Kept[k] = Nw(Kept[k - 1], k)
  BY <1>1, <1>7
<1>10. \A k \in 0..Len(nodes) : Kept[k] \in N
  <2> HIDE DEF N
  <2>1. ASSUME NEW k \in 1..Len(nodes), Kept[k - 1] \in N PROVE Kept[k] \in N
    BY <1>2, <1>9, <2>1
  <2>2. Kept[0] \in N
    BY <1>3, <1>8
  <2>3. Keeps(Kept, N, Len(nodes))
    BY <2>1, <2>2 DEF Keeps
  <2> QED
    BY <1>1, <2>3, RecursionType DEF Within
<1>11. Kept[Len(nodes)] = Remaining
  BY DEF Kept, Remaining
<1> QED
  BY <1>8, <1>9, <1>10, <1>11 DEF Nw

-----------------------------------------------------------------------------
(***************************************************************************)
(* The bytes nodes cover                                                   *)
(***************************************************************************)

LEMMA EndsGrow ==
  ASSUME NEW s \in Seq(SoundNodes), NEW i \in 0..Len(s), NEW j \in 0..Len(s), i <= j
  PROVE  Ends(s)[i] <= Ends(s)[j]
<1> DEFINE S == {k \in Nat : k \in i..Len(s) => Ends(s)[i] <= Ends(s)[k]}
<1>1. Len(s) \in Nat /\ \A k \in 0..Len(s) : Ends(s)[k] \in Nat
  BY LenProperties, EndsDef
<1>2. 0 \in S
  BY <1>1
<1>3. ASSUME NEW k \in Nat, k \in S PROVE k + 1 \in S
  <2> SUFFICES ASSUME k + 1 \in i..Len(s), k + 1 # i PROVE Ends(s)[i] <= Ends(s)[k + 1]
    BY <1>1
  <2>1. k \in i..Len(s) /\ k + 1 \in 1..Len(s) /\ (k + 1) - 1 = k /\ k \in 0..Len(s)
    BY <1>1
  <2>2. Ends(s)[k + 1] = Ends(s)[(k + 1) - 1] + s[k + 1].size
    BY <2>1, EndsDef
  <2>3. s[k + 1].size \in Nat
    <3>1. s[k + 1] \in SoundNodes
      BY <2>1, ElementOfSeq
    <3> QED
      BY <3>1, SoundNode
  <2>4. Ends(s)[i] <= Ends(s)[k]
    BY <1>3, <2>1
  <2>5. Ends(s)[i] \in Nat /\ Ends(s)[k] \in Nat
    BY <1>1, <2>1
  <2> QED
    BY <2>1, <2>2, <2>3, <2>4, <2>5
<1>4. Nat \subseteq S
  <2> HIDE DEF S
  <2> QED
    BY <1>2, <1>3, SetInduction
<1> QED
  BY <1>1, <1>4

\* The i-th one of the nodes s covers the byte at offset b.
Covers(s, i, b) == b \in Offset(s, i)..(Offset(s, i) + s[i].size - 1)

\* A selected one does.
Marks(s, b) == \E i \in 1..Len(s) : s[i].selected /\ Covers(s, i, b)

LEMMA Covered ==
  ASSUME NEW s \in Seq(SoundNodes), NEW b \in 0..(Total(s) - 1)
  PROVE  \E i \in 1..Len(s) : Covers(s, i, b)
<1> DEFINE C == \E i \in 1..Len(s) : Covers(s, i, b)
           S == {k \in Nat : k \in 0..Len(s) => Ends(s)[k] <= b \/ C}
<1>1. /\ Len(s) \in Nat /\ b \in Nat /\ b < Total(s) /\ Total(s) \in Nat
      /\ \A k \in 0..Len(s) : Ends(s)[k] \in Nat
  BY LenProperties, EndsDef, TotalType
<1>2. 0 \in S
  <2>1. Ends(s)[0] = 0
    BY EndsDef
  <2> QED
    BY <1>1, <2>1
<1>3. ASSUME NEW k \in Nat, k \in S PROVE k + 1 \in S
  <2> SUFFICES ASSUME k + 1 \in 0..Len(s), ~C PROVE Ends(s)[k + 1] <= b
    OBVIOUS
  <2>1. k \in 0..Len(s) /\ k + 1 \in 1..Len(s) /\ (k + 1) - 1 = k
    BY <1>1
  <2>2. Ends(s)[k] <= b
    BY <1>3, <2>1
  <2>3. Ends(s)[k + 1] = Offset(s, k + 1) + s[k + 1].size /\ Offset(s, k + 1) = Ends(s)[k]
    BY <2>1, EndsDef DEF Offset
  <2>4. s[k + 1].size \in Nat /\ Ends(s)[k] \in Nat
    <3>1. s[k + 1] \in SoundNodes
      BY <2>1, ElementOfSeq
    <3> QED
      BY <1>1, <2>1, <3>1, SoundNode
  <2>5. ~Covers(s, k + 1, b)
    BY <2>1
  <2> HIDE DEF C
  <2> QED
    BY <1>1, <2>2, <2>3, <2>4, <2>5 DEF Covers
<1>4. Nat \subseteq S
  <2> HIDE DEF S
  <2> QED
    BY <1>2, <1>3, SetInduction
<1>5. Len(s) \in S /\ Len(s) \in 0..Len(s) /\ Ends(s)[Len(s)] = Total(s)
  <2> HIDE DEF S
  <2> QED
    BY <1>1, <1>4 DEF Total
<1> HIDE DEF C
<1>6. C
  BY <1>1, <1>5
<1> QED
  BY <1>6 DEF C

LEMMA MarksAppend ==
  ASSUME NEW s \in Seq(SoundNodes), NEW n \in SoundNodes, ~n.selected, NEW b
  PROVE  Marks(Append(s, n), b) <=> Marks(s, b)
<1> DEFINE w == Append(s, n)
<1>1. Len(s) \in Nat
  BY LenProperties
<1>2. /\ Len(w) = Len(s) + 1 /\ w[Len(s) + 1] = n
      /\ \A i \in 1..Len(s) : w[i] = s[i] /\ Offset(w, i) = Offset(s, i)
  BY OneMore
<1> HIDE DEF w
<1>3. \A i \in 1..Len(s) : i \in 1..Len(w) /\ (Covers(w, i, b) <=> Covers(s, i, b))
  BY <1>1, <1>2 DEF Covers
<1>4. \A i \in 1..Len(w) : w[i].selected => i \in 1..Len(s)
  BY <1>1, <1>2
<1>5. Marks(w, b) <=> Marks(s, b)
  BY <1>2, <1>3, <1>4 DEF Marks
<1> QED
  BY <1>5 DEF w

LEMMA MarksGrown ==
  ASSUME NEW s \in Seq(SoundNodes), NEW w, NEW m \in Nat, Grown(s, w, m), NEW b \in Nat
  PROVE  Marks(w, b) <=> Marks(s, b) \/ b \in Total(s)..(Total(s) + m - 1)
<1>1. /\ w \in Seq(SoundNodes) /\ Total(w) = Total(s) + m /\ Len(w) >= Len(s) + 1
      /\ \A i \in 1..Len(s) : w[i] = s[i] /\ Offset(w, i) = Offset(s, i)
      /\ \A i \in (Len(s) + 1)..Len(w) : w[i].selected
  BY DEF Grown
<1>2. Len(s) \in Nat /\ Len(w) \in Nat /\ Total(s) \in Nat
  BY <1>1, LenProperties, TotalType
<1>3. Ends(w)[Len(s)] = Total(s)
  <2>1. SameSizes(s, w)
    BY <1>1, <1>2 DEF SameSizes
  <2>2. Len(s) \in 0..Len(s)
    BY <1>2
  <2> QED
    BY <1>1, <2>1, <2>2, SameEnds DEF Total
<1>4. \A i \in 1..Len(s) : i \in 1..Len(w) /\ (Covers(w, i, b) <=> Covers(s, i, b))
  BY <1>1, <1>2 DEF Covers
<1>5. ASSUME NEW i \in 1..Len(s), Covers(s, i, b) PROVE b < Total(s)
  <2>1. Offset(s, i) + s[i].size = Ends(s)[i] /\ Offset(s, i) \in Nat
    BY Offsets
  <2>2. Ends(s)[i] <= Total(s)
    <3>1. i \in 0..Len(s) /\ Len(s) \in 0..Len(s) /\ i <= Len(s)
      BY <1>2
    <3> QED
      BY <3>1, EndsGrow DEF Total
  <2>3. s[i].size \in Nat
    BY ElementOfSeq, SoundNode
  <2> QED
    BY <1>2, <1>5, <2>1, <2>2, <2>3 DEF Covers
<1>6. ASSUME NEW i \in (Len(s) + 1)..Len(w), Covers(w, i, b)
      PROVE  b \in Total(s)..(Total(s) + m - 1)
  <2>1. i \in 1..Len(w) /\ i \in 0..Len(w) /\ i - 1 \in 0..Len(w) /\ Len(s) \in 0..Len(w)
        /\ Len(w) \in 0..Len(w) /\ Len(s) <= i - 1 /\ i <= Len(w)
    BY <1>2
  <2>2. Offset(w, i) + w[i].size = Ends(w)[i] /\ Offset(w, i) \in Nat
    BY <1>1, <2>1, Offsets
  <2>3. Ends(w)[i] <= Total(w)
    BY <1>1, <2>1, EndsGrow DEF Total
  <2>4. Total(s) <= Offset(w, i)
    BY <1>1, <1>3, <2>1, EndsGrow DEF Offset
  <2>5. w[i].size \in Nat
    <3>1. w[i] \in SoundNodes
      BY <1>1, <2>1, ElementOfSeq
    <3> QED
      BY <3>1, SoundNode
  <2> QED
    BY <1>1, <1>2, <1>6, <2>2, <2>3, <2>4, <2>5 DEF Covers
<1>7. ASSUME Marks(w, b) PROVE Marks(s, b) \/ b \in Total(s)..(Total(s) + m - 1)
  <2>1. PICK i \in 1..Len(w) : w[i].selected /\ Covers(w, i, b)
    BY <1>7 DEF Marks
  <2>2. i \in 1..Len(s) \/ i \in (Len(s) + 1)..Len(w)
    BY <1>2
  <2> QED
    BY <1>1, <1>4, <1>6, <2>1, <2>2 DEF Marks
<1>8. ASSUME Marks(s, b) PROVE Marks(w, b)
  BY <1>1, <1>4, <1>8 DEF Marks
<1>9. ASSUME b \in Total(s)..(Total(s) + m - 1) PROVE Marks(w, b)
  <2>1. b \in 0..(Total(w) - 1)
    BY <1>1, <1>2, <1>9
  <2>2. PICK i \in 1..Len(w) : Covers(w, i, b)
    BY <1>1, <2>1, Covered
  <2>3. i \notin 1..Len(s)
    BY <1>2, <1>4, <1>5, <1>9, <2>2
  <2>4. i \in (Len(s) + 1)..Len(w)
    BY <1>2, <2>3
  <2> QED
    BY <1>1, <2>2, <2>4 DEF Marks
<1> QED
  BY <1>7, <1>8, <1>9

-----------------------------------------------------------------------------
(***************************************************************************)
(* A type that is no larger than the nodes it is given to                  *)
(***************************************************************************)

\* Every selected node is at least as large as the type t.
Fits(t) == \A i \in Selected : nodes[i].size >= t.size

\* What is made of the first k nodes is as large as these were; every other
\* node is where it was, and the bytes that were selected are.
AsBefore(w, k) ==
  /\ Honours(w) /\ Total(w) = Ends(nodes)[k]
  /\ \A i \in 1..k : ~nodes[i].selected => StaysIn(i, w)
  /\ \A b \in Nat : Marks(w, b) <=> \E i \in 1..k : nodes[i].selected /\ Covers(nodes, i, b)

LEMMA StaysBefore ==
  ASSUME NEW w, NEW v, NEW i, StaysIn(i, w), Len(w) \in Nat, Len(v) \in Nat,
         Len(w) <= Len(v),
         \A j \in 1..Len(w) : v[j] = w[j] /\ Offset(v, j) = Offset(w, j)
  PROVE  StaysIn(i, v)
<1>1. PICK j \in 1..Len(w) : w[j] = nodes[i] /\ Offset(w, j) = Offset(nodes, i)
  BY DEF StaysIn
<1>2. j \in 1..Len(v)
  OBVIOUS
<1> QED
  BY <1>1, <1>2 DEF StaysIn

LEMMA FitsStep ==
  ASSUME nodes \in Seq(SoundNodes), Honours(nodes), NEW t \in Types, Fits(t),
         NEW k \in 1..Len(nodes), NEW w \in Seq(SoundNodes), AsBefore(w, k - 1)
  PROVE  AsBefore(IF nodes[k].selected THEN RetypedNode(w, k, t) ELSE Append(w, nodes[k]), k)
<1> DEFINE n == nodes[k]
<1>1. n \in SoundNodes /\ n.size \in Nat /\ Len(nodes) \in Nat
  BY ElementOfSeq, SoundNode, LenProperties
<1>2. /\ Ends(nodes)[k] = Ends(nodes)[k - 1] + n.size
      /\ Offset(nodes, k) = Ends(nodes)[k - 1]
  BY EndsDef DEF Offset
<1>3. Total(w) = Offset(nodes, k) /\ Total(w) \in Nat /\ Len(w) \in Nat /\ Honours(w)
  BY <1>2, TotalType, LenProperties DEF AsBefore
<1>4. \A i \in 1..k : i \in 1..(k - 1) \/ i = k
  BY <1>1
<1>12. \A i \in 1..(k - 1) : i \in 1..k
  BY <1>1
<1>11. k \in 1..k
  BY <1>1
<1>5. CASE n.selected
  <2> DEFINE m == t.size + Freed(n.size, t.size)
             v == RetypedNode(w, k, t)
  <2>1. k \in Indices /\ k \in Selected
    BY <1>5 DEF Indices, Selected
  <2>2. m = n.size
    BY <1>1, <2>1, TypeSize, FreedType DEF Fits
  <2>3. Grown(w, v, m) /\ Honours(v)
    BY <1>3, <2>1, RetypedOne
  <2> HIDE DEF v, m
  <2>4. /\ v \in Seq(SoundNodes) /\ Total(v) = Total(w) + n.size /\ Len(v) >= Len(w) + 1
        /\ \A j \in 1..Len(w) : v[j] = w[j] /\ Offset(v, j) = Offset(w, j)
    BY <2>2, <2>3 DEF Grown
  <2>5. Len(v) \in Nat /\ Len(w) <= Len(v)
    BY <1>3, <2>4, LenProperties
  <2>6. ASSUME NEW i \in 1..k, ~nodes[i].selected PROVE StaysIn(i, v)
    <3>1. i \in 1..(k - 1)
      BY <1>4, <1>5, <2>6
    <3>2. StaysIn(i, w)
      BY <2>6, <3>1 DEF AsBefore
    <3> QED
      BY <1>3, <2>4, <2>5, <3>2, StaysBefore
  <2>7. ASSUME NEW b \in Nat
        PROVE  Marks(v, b) <=> \E i \in 1..k : nodes[i].selected /\ Covers(nodes, i, b)
    <3>1. Marks(v, b) <=> Marks(w, b) \/ b \in Total(w)..(Total(w) + n.size - 1)
      BY <1>1, <2>2, <2>3, MarksGrown
    <3>2. Covers(nodes, k, b) <=> b \in Total(w)..(Total(w) + n.size - 1)
      BY <1>3 DEF Covers
    <3>3. Marks(w, b) <=> \E i \in 1..(k - 1) : nodes[i].selected /\ Covers(nodes, i, b)
      BY DEF AsBefore
    <3> HIDE DEF n
    <3> QED
      BY <1>4, <1>5, <1>11, <1>12, <3>1, <3>2, <3>3 DEF n
  <2>8. AsBefore(v, k)
    BY <1>2, <1>3, <2>3, <2>4, <2>6, <2>7 DEF AsBefore
  <2> QED
    BY <1>5, <2>8 DEF v
<1>6. CASE ~n.selected
  <2> DEFINE v == Append(w, n)
  <2> HIDE DEF n
  <2>1. /\ v \in Seq(SoundNodes) /\ Len(v) = Len(w) + 1 /\ Total(v) = Total(w) + n.size
        /\ \A j \in 1..Len(w) : v[j] = w[j] /\ Offset(v, j) = Offset(w, j)
        /\ v[Len(w) + 1] = n /\ Offset(v, Len(w) + 1) = Total(w)
    BY <1>1, OneMore
  <2>2. Honours(v)
    <3>1. n.isLocked => Total(w) >= n.absoluteOffset
      BY <1>3 DEF n, Honours
    <3> QED
      BY <1>1, <1>3, <3>1, HonoursAppend
  <2>3. ASSUME NEW b \in Nat PROVE Marks(v, b) <=> Marks(w, b)
    BY <1>1, <1>6, MarksAppend
  <2> HIDE DEF v
  <2>4. ASSUME NEW i \in 1..k, ~nodes[i].selected PROVE StaysIn(i, v)
    <3>1. CASE i = k
      <4>1. Len(w) + 1 \in 1..Len(v)
        BY <1>3, <2>1
      <4> QED
        BY <1>3, <2>1, <3>1, <4>1 DEF StaysIn, n
    <3>2. CASE i # k
      <4>1. i \in 1..(k - 1) /\ Len(v) \in Nat /\ Len(w) <= Len(v)
        BY <1>3, <1>4, <2>1, <3>2
      <4>2. StaysIn(i, w)
        BY <2>4, <4>1 DEF AsBefore
      <4> QED
        BY <1>3, <2>1, <4>1, <4>2, StaysBefore
    <3> QED
      BY <3>1, <3>2
  <2>5. ASSUME NEW b \in Nat
        PROVE  Marks(v, b) <=> \E i \in 1..k : nodes[i].selected /\ Covers(nodes, i, b)
    <3>1. Marks(w, b) <=> \E i \in 1..(k - 1) : nodes[i].selected /\ Covers(nodes, i, b)
      BY DEF AsBefore
    <3> QED
      BY <1>4, <1>6, <1>12, <2>3, <3>1 DEF n
  <2>6. AsBefore(v, k)
    BY <1>2, <1>3, <2>1, <2>2, <2>4, <2>5 DEF AsBefore
  <2> QED
    BY <1>6, <2>6 DEF v, n
<1> QED
  BY <1>5, <1>6

\* All the nodes retyped are as before, and already laid out.
LEMMA FitsRetyped ==
  ASSUME nodes \in Seq(SoundNodes), Honours(nodes), NEW t \in Types, Fits(t)
  PROVE  AsBefore(Retyped(t), Len(nodes)) /\ Normalized(Retyped(t)) = Retyped(t)
<1> DEFINE S == {k \in Nat : k \in 0..Len(nodes) => AsBefore(NewTo(t)[k], k)}
<1>1. Len(nodes) \in Nat
  BY LenProperties
<1>2. 0 \in S
  <2>1. NewTo(t)[0] = <<>> /\ Ends(nodes)[0] = 0 /\ Total(<<>>) = 0 /\ Honours(<<>>)
    BY NewToDef, EndsDef, Totals, HonoursNone
  <2>2. \A b \in Nat : ~Marks(<<>>, b)
    BY EmptySeq DEF Marks
  <2>3. AsBefore(<<>>, 0)
    BY <2>1, <2>2 DEF AsBefore
  <2> QED
    BY <2>1, <2>3
<1>3. ASSUME NEW k \in Nat, k \in S PROVE k + 1 \in S
  <2> SUFFICES ASSUME k + 1 \in 0..Len(nodes) PROVE AsBefore(NewTo(t)[k + 1], k + 1)
    OBVIOUS
  <2>1. k + 1 \in 1..Len(nodes) /\ (k + 1) - 1 = k /\ k \in 0..Len(nodes)
    BY <1>1
  <2>2. NewTo(t)[k] \in Seq(SoundNodes) /\ AsBefore(NewTo(t)[k], k)
    BY <1>3, <2>1, NewToDef
  <2>3. NewTo(t)[k + 1] = IF nodes[k + 1].selected THEN RetypedNode(NewTo(t)[k], k + 1, t)
                                                   ELSE Append(NewTo(t)[k], nodes[k + 1])
    BY <2>1, NewToDef
  <2> QED
    BY <2>1, <2>2, <2>3, FitsStep
<1>4. Len(nodes) \in S /\ Len(nodes) \in 0..Len(nodes)
  <2>1. Nat \subseteq S
    <3> HIDE DEF S
    <3> QED
      BY <1>2, <1>3, SetInduction
  <2> QED
    BY <1>1, <2>1
<1>5. AsBefore(Retyped(t), Len(nodes)) /\ Retyped(t) \in Seq(SoundNodes)
  BY <1>4, NewToDef
<1> QED
  BY <1>5, NormalizedSame DEF AsBefore

LEMMA MarksAreSelectedBytes ==
  ASSUME NEW s \in Seq(SoundNodes)
  PROVE  SelectedBytes(s) = {b \in 0..(Total(s) - 1) : Marks(s, b)}
<1>1. DOMAIN s = 1..Len(s)
  BY LenProperties
<1> QED
  BY <1>1 DEF SelectedBytes, Marks, Covers

LEMMA RetypedNodes ==
  ASSUME nodes \in Seq(SoundNodes), NEW t \in Types
  PROVE  Retyped(t) \in Seq(SoundNodes)
<1>1. Len(nodes) \in 0..Len(nodes)
  BY LenProperties
<1> QED
  BY <1>1, NewToDef

\* What the two properties of shrinking say follows from the layout being normal.
LEMMA Shrinking ==
  ASSUME nodes \in Seq(SoundNodes), Honours(nodes)
  PROVE  ShrinkMovesNothing /\ RetypeKeepsSelection
<1> SUFFICES ASSUME NEW t \in Types, Fits(t)
             PROVE  LET after == Normalized(Retyped(t))
                    IN  /\ Total(after) = Total(nodes)
                        /\ \A i \in Indices \ Selected : StaysIn(i, after)
                        /\ SelectedBytes(after) = SelectedBytes(nodes)
  BY DEF Fits, ShrinkMovesNothing, RetypeKeepsSelection
<1> DEFINE after == Normalized(Retyped(t))
<1>1. AsBefore(after, Len(nodes)) /\ after \in Seq(SoundNodes)
  BY FitsRetyped, RetypedNodes
<1> HIDE DEF after
<1>2. Total(after) = Total(nodes) /\ Total(nodes) \in Nat
  BY <1>1, TotalType DEF AsBefore, Total
<1>3. \A i \in Indices \ Selected : StaysIn(i, after)
  BY <1>1 DEF AsBefore, Indices, Selected
<1>4. SelectedBytes(after) = SelectedBytes(nodes)
  <2>1. \A b \in Nat : Marks(after, b) <=> Marks(nodes, b)
    BY <1>1 DEF AsBefore, Marks
  <2>2. \A b \in 0..(Total(nodes) - 1) : b \in Nat
    BY <1>2
  <2> QED
    BY <1>1, <1>2, <2>1, <2>2, MarksAreSelectedBytes
<1> QED
  BY <1>2, <1>3, <1>4 DEF after

-----------------------------------------------------------------------------
(***************************************************************************)
(* Deleting nodes                                                          *)
(***************************************************************************)

\* The layout of what is left of the first k nodes does not reach beyond them,
\* and has those that were at the offset they are locked at where they were.
Below(w, k) ==
  /\ Total(w) <= Ends(nodes)[k]
  /\ \A i \in 1..k : ~nodes[i].selected /\ InPlace(i) => StaysIn(i, w)

LEMMA DeleteStep ==
  ASSUME nodes \in Seq(SoundNodes), Honours(nodes), NEW k \in 1..Len(nodes),
         NEW w \in Seq(SoundNodes), Below(w, k - 1)
  PROVE  Below(IF nodes[k].selected THEN w ELSE PlaceNode(w, nodes[k]), k)
<1> DEFINE n == nodes[k]
           v == PlaceNode(w, n)
           d == Missing(w, n)
<1>1. n \in SoundNodes /\ n.size \in Nat /\ Len(nodes) \in Nat
      /\ (n.isLocked => n.absoluteOffset \in Nat)
  BY ElementOfSeq, SoundNode, LenProperties
<1>2. /\ Ends(nodes)[k] = Ends(nodes)[k - 1] + n.size
      /\ Offset(nodes, k) = Ends(nodes)[k - 1] /\ Offset(nodes, k) \in Nat
  BY EndsDef, Offsets DEF Offset
<1>3. Total(w) \in Nat /\ Len(w) \in Nat /\ Total(w) <= Offset(nodes, k)
  BY <1>2, TotalType, LenProperties DEF Below
<1>4. \A i \in 1..k : i \in 1..(k - 1) \/ i = k
  BY <1>1
<1>5. n.isLocked => Offset(nodes, k) >= n.absoluteOffset
  BY DEF Honours
<1>6. CASE n.selected
  <2>1. Total(w) <= Ends(nodes)[k]
    BY <1>1, <1>2, <1>3
  <2>2. ASSUME NEW i \in 1..k, ~nodes[i].selected, InPlace(i) PROVE StaysIn(i, w)
    <3>1. i \in 1..(k - 1)
      BY <1>4, <1>6, <2>2
    <3> QED
      BY <2>2, <3>1 DEF Below
  <2> QED
    BY <1>6, <2>1, <2>2 DEF Below
<1>7. CASE ~n.selected
  <2>1. d \in Nat /\ Total(w) + d <= Offset(nodes, k)
        /\ (InPlace(k) => Total(w) + d = Offset(nodes, k))
    BY <1>1, <1>3, <1>5 DEF Missing, InPlace
  <2>2. PICK p : Fills(p, d) /\ v = Append(w \o p, n)
    BY <1>1, Placed
  <2> HIDE DEF n, v, d
  <2> DEFINE u == w \o p
  <2>3. p \in Seq(SoundNodes) /\ Total(p) = d /\ Len(p) \in Nat
    BY <2>2, LenProperties DEF Fills
  <2>4. /\ u \in Seq(SoundNodes) /\ Len(u) = Len(w) + Len(p) /\ Total(u) = Total(w) + d
        /\ \A j \in 1..Len(w) : u[j] = w[j] /\ Offset(u, j) = Offset(w, j)
    BY <2>3, ConcatProperties, Totals, Offsets
  <2> HIDE DEF u
  <2>5. /\ v \in Seq(SoundNodes) /\ Len(v) = Len(u) + 1 /\ Total(v) = Total(u) + n.size
        /\ \A j \in 1..Len(u) : v[j] = u[j] /\ Offset(v, j) = Offset(u, j)
        /\ v[Len(u) + 1] = n /\ Offset(v, Len(u) + 1) = Total(u)
    <3>1. v = Append(u, n)
      BY <2>2 DEF u
    <3> QED
      BY <1>1, <2>4, <3>1, OneMore
  <2>6. /\ Len(v) \in Nat /\ Len(w) <= Len(v) /\ Len(u) + 1 \in 1..Len(v)
        /\ \A j \in 1..Len(w) : j \in 1..Len(u)
    BY <1>3, <2>3, <2>4, <2>5
  <2>7. Total(v) <= Ends(nodes)[k]
    BY <1>1, <1>2, <1>3, <2>1, <2>4, <2>5
  <2>8. ASSUME NEW i \in 1..k, ~nodes[i].selected, InPlace(i) PROVE StaysIn(i, v)
    <3>1. CASE i = k
      BY <2>1, <2>4, <2>5, <2>6, <2>8, <3>1 DEF StaysIn, n
    <3>2. CASE i # k
      <4>1. i \in 1..(k - 1)
        BY <1>4, <3>2
      <4>2. StaysIn(i, w)
        BY <2>8, <4>1 DEF Below
      <4> QED
        BY <1>3, <2>4, <2>5, <2>6, <4>2, StaysBefore
    <3> QED
      BY <3>1, <3>2
  <2>9. Below(v, k)
    BY <2>7, <2>8 DEF Below
  <2> QED
    BY <1>7, <2>9 DEF v, n
<1> QED
  BY <1>6, <1>7

LEMMA RemainingNodes ==
  ASSUME nodes \in Seq(SoundNodes)
  PROVE  Remaining \in Seq(SoundNodes)
<1>1. Len(nodes) \in 0..Len(nodes)
  BY LenProperties
<1> QED
  BY <1>1, KeptDef

\* What the property of deleting says follows from the layout being normal.
LEMMA Deleting ==
  ASSUME nodes \in Seq(SoundNodes), Honours(nodes)
  PROVE  DeleteKeepsLocked
<1> DEFINE S == {k \in Nat : k \in 0..Len(nodes) => Below(Normalized(Kept[k]), k)}
<1>1. Len(nodes) \in Nat
  BY LenProperties
<1>2. 0 \in S
  <2>1. Kept[0] = <<>> /\ Ends(nodes)[0] = 0 /\ Total(<<>>) = 0 /\ Normalized(<<>>) = <<>>
    BY KeptDef, EndsDef, Totals, NormalizedNodes
  <2> QED
    BY <2>1 DEF Below
<1>3. ASSUME NEW k \in Nat, k \in S PROVE k + 1 \in S
  <2> SUFFICES ASSUME k + 1 \in 0..Len(nodes) PROVE Below(Normalized(Kept[k + 1]), k + 1)
    OBVIOUS
  <2>1. k + 1 \in 1..Len(nodes) /\ (k + 1) - 1 = k /\ k \in 0..Len(nodes)
    BY <1>1
  <2> DEFINE u == Kept[k]
             n == nodes[k + 1]
  <2>2. u \in Seq(SoundNodes) /\ Below(Normalized(u), k)
    BY <1>3, <2>1, KeptDef
  <2>3. Kept[k + 1] = IF n.selected THEN u ELSE Append(u, n)
    BY <2>1, KeptDef
  <2>4. n \in SoundNodes
    BY <2>1, ElementOfSeq
  <2> HIDE DEF u
  <2>5. /\ Normalized(u) \in Seq(SoundNodes)
        /\ Normalized(Append(u, n)) = PlaceNode(Normalized(u), n)
    BY <2>2, <2>4, NormalizedNodes
  <2>6. Below(IF n.selected THEN Normalized(u) ELSE PlaceNode(Normalized(u), n), k + 1)
    BY <2>1, <2>2, <2>5, DeleteStep
  <2> QED
    BY <2>3, <2>5, <2>6
<1>4. Nat \subseteq S
  <2> HIDE DEF S
  <2> QED
    BY <1>2, <1>3, SetInduction
<1>5. Below(Normalized(Remaining), Len(nodes))
  <2>1. Len(nodes) \in S /\ Len(nodes) \in 0..Len(nodes)
    BY <1>1, <1>4
  <2> QED
    BY <2>1, KeptDef
<1> QED
  BY <1>5 DEF Below, DeleteKeepsLocked, Indices, Selected

-----------------------------------------------------------------------------
(***************************************************************************)
(* The inductive invariant                                                 *)
(***************************************************************************)

\* Every edit takes the layout for normal, and leaves it so: LocksHonoured is
\* what makes normalizeNodes add nothing where nothing was shrunk or deleted.
IInv == TypeOK /\ LocksHonoured /\ BlockFitsNodes

\* What it says of the nodes.
Normal(s) == s \in Seq(SoundNodes) /\ Honours(s)

LEMMA MembersInSeq ==
  ASSUME NEW E, NEW D, NEW s \in Seq(E), \A i \in 1..Len(s) : s[i] \in D
  PROVE  s \in Seq(D)
<1>1. Len(s) \in Nat /\ s \in [1..Len(s) -> E]
  BY LenProperties
<1>2. s \in [1..Len(s) -> D]
  BY <1>1
<1> QED
  BY <1>1, <1>2, FunctionIsSequence

LEMMA InvariantNodes ==
  IInv <=> /\ Normal(nodes) /\ size \in Nat /\ block \in Nat /\ crashed \in BOOLEAN
           /\ nodes # <<>> => block = size /\ size = Total(nodes)
<1>1. ASSUME IInv PROVE Normal(nodes)
  <2>1. nodes \in Seq(Nodes)
    BY <1>1 DEF IInv, TypeOK
  <2>2. \A i \in 1..Len(nodes) : nodes[i] \in SoundNodes
    BY <1>1, <2>1, ElementOfSeq DEF IInv, TypeOK, Indices, SoundNodes
  <2> QED
    BY <1>1, <2>1, <2>2, MembersInSeq DEF IInv, LocksHonoured, Indices, Normal, Honours
<1>2. ASSUME Normal(nodes) PROVE /\ nodes \in Seq(Nodes) /\ LocksHonoured
                                 /\ \A i \in Indices : nodes[i].isLocked <=>
                                                         nodes[i].absoluteOffset # NoOffset
  <2>1. nodes \in Seq(SoundNodes)
    BY <1>2 DEF Normal
  <2>2. \A i \in 1..Len(nodes) : nodes[i] \in SoundNodes
    BY <2>1, ElementOfSeq
  <2>3. nodes \in Seq(Nodes)
    BY <2>1, <2>2, MembersInSeq DEF SoundNodes
  <2> QED
    BY <1>2, <2>2, <2>3 DEF Normal, Honours, LocksHonoured, Indices, SoundNodes
<1> QED
  BY <1>1, <1>2 DEF IInv, TypeOK, BlockFitsNodes

\* Nodes cover some byte.
LEMMA NodesCover ==
  ASSUME NEW s \in Seq(SoundNodes), s # <<>>
  PROVE  Total(s) \in Nat \ {0}
<1>1. Len(s) \in Nat /\ Len(s) # 0
  BY LenProperties, EmptySeq
<1>2. 1 \in 1..Len(s) /\ 1 \in 0..Len(s) /\ Len(s) \in 0..Len(s) /\ 1 <= Len(s)
  BY <1>1
<1>3. s[1].size \in Nat \ {0}
  BY <1>2, ElementOfSeq, SoundNode
<1>4. Ends(s)[1] = Ends(s)[1 - 1] + s[1].size /\ Ends(s)[0] = 0
  BY <1>2, EndsDef
<1>5. Ends(s)[1] <= Total(s)
  BY <1>2, EndsGrow DEF Total
<1>6. Ends(s)[1] = s[1].size
  BY <1>3, <1>4
<1> QED
  BY <1>3, <1>5, <1>6, TotalType

\* Nodes of the sizes of normal ones, none of them newly locked, are normal.
LEMMA SameLayout ==
  ASSUME NEW s, Normal(s), NEW u \in Seq(SoundNodes), Len(u) = Len(s),
         \A i \in 1..Len(s) : /\ u[i].size = s[i].size
                              /\ u[i].isLocked => /\ s[i].isLocked
                                                  /\ u[i].absoluteOffset = s[i].absoluteOffset
  PROVE  Normal(u) /\ Total(u) = Total(s)
<1>1. s \in Seq(SoundNodes) /\ Len(s) \in Nat
  BY LenProperties DEF Normal
<1>2. \A k \in 0..Len(u) : Ends(u)[k] = Ends(s)[k]
  BY <1>1, SameEnds DEF SameSizes
<1>3. Total(u) = Total(s)
  BY <1>1, <1>2 DEF Total
<1>4. \A i \in 1..Len(u) : Offset(u, i) = Offset(s, i)
  BY <1>1, <1>2 DEF Offset
<1> QED
  BY <1>3, <1>4 DEF Normal, Honours

\* Whatever normalizeNodes is applied to, the layout is normal afterwards.
LEMMA NormalizeStep ==
  ASSUME IInv, NEW s \in Seq(SoundNodes), Normalize(s), UNCHANGED crashed
  PROVE  IInv'
<1>1. Normal(nodes')
  BY NormalizedNodes, NormalizedHonours DEF Normalize, Normal
<1>2. nodes' \in Seq(SoundNodes)
  BY <1>1 DEF Normal
<1>3. block' = Total(nodes') /\ size' = IF Total(nodes') = 0 THEN size ELSE Total(nodes')
  BY DEF Normalize, SizeToNodes
<1>4. Total(nodes') \in Nat
  BY <1>2, TotalType
<1>5. size \in Nat /\ crashed' \in BOOLEAN
  BY DEF IInv, TypeOK
<1>6. nodes' # <<>> => Total(nodes') # 0
  BY <1>2, NodesCover
<1>7. (/\ Normal(nodes) /\ size \in Nat /\ block \in Nat /\ crashed \in BOOLEAN
       /\ nodes # <<>> => block = size /\ size = Total(nodes))'
  BY <1>1, <1>3, <1>4, <1>5, <1>6
<1> QED
  BY <1>7, InvariantNodes, PTL

\* A click on nodes changes no more than what is selected.
LEMMA SelectStep ==
  ASSUME IInv, NEW S, Select(S)
  PROVE  /\ IInv' /\ Len(nodes') = Len(nodes)
         /\ \A i \in Indices : nodes'[i].selected <=> i \in S
<1>1. /\ Normal(nodes) /\ size \in Nat /\ block \in Nat /\ crashed \in BOOLEAN
      /\ nodes # <<>> => block = size /\ size = Total(nodes)
  BY InvariantNodes
<1>2. nodes \in Seq(SoundNodes) /\ Len(nodes) \in Nat
  BY <1>1, LenProperties DEF Normal
<1>3. ASSUME NEW i \in Indices
      PROVE  /\ nodes'[i] \in SoundNodes /\ (nodes'[i].selected <=> i \in S)
             /\ nodes'[i].size = nodes[i].size /\ nodes'[i].isLocked = nodes[i].isLocked
             /\ nodes'[i].absoluteOffset = nodes[i].absoluteOffset
  <2> DEFINE b == i \in S
  <2>1. nodes'[i] = [nodes[i] EXCEPT !.selected = b]
    BY DEF Select
  <2>2. b \in BOOLEAN
    OBVIOUS
  <2>3. nodes[i] \in SoundNodes
    BY <1>2, ElementOfSeq DEF Indices
  <2> HIDE DEF b
  <2>4. /\ nodes'[i] \in SoundNodes /\ nodes'[i].selected = b
        /\ nodes'[i].size = nodes[i].size /\ nodes'[i].isLocked = nodes[i].isLocked
        /\ nodes'[i].absoluteOffset = nodes[i].absoluteOffset
    BY <2>1, <2>2, <2>3 DEF SoundNodes, Nodes
  <2> QED
    BY <2>4 DEF b
<1>4. nodes' \in [1..Len(nodes) -> SoundNodes]
  <2>1. nodes' = [i \in Indices |-> [nodes[i] EXCEPT !.selected = i \in S]]
    BY Zenon DEF Select
  <2>2. DOMAIN nodes' = 1..Len(nodes) /\ nodes' = [i \in 1..Len(nodes) |-> nodes'[i]]
    BY <2>1, Zenon DEF Indices
  <2> QED
    BY <1>3, <2>2 DEF Indices
<1>5. nodes' \in Seq(SoundNodes) /\ Len(nodes') = Len(nodes)
  BY <1>2, <1>4, FunctionIsSequence
<1>6. Normal(nodes') /\ Total(nodes') = Total(nodes)
  BY <1>1, <1>3, <1>5, SameLayout DEF Indices
<1>7. nodes' # <<>> => nodes # <<>>
  BY <1>2, <1>5, EmptySeq
<1>8. UNCHANGED <<size, block, crashed>>
  BY Zenon DEF Select
<1>9. (/\ Normal(nodes) /\ size \in Nat /\ block \in Nat /\ crashed \in BOOLEAN
       /\ nodes # <<>> => block = size /\ size = Total(nodes))'
  BY <1>1, <1>6, <1>7, <1>8
<1>10. IInv'
  BY <1>9, InvariantNodes, PTL
<1> QED
  BY <1>3, <1>5, <1>10

LEMMA ChangeTypeStep ==
  ASSUME IInv, NEW t \in Types, ChangeType(t), UNCHANGED crashed
  PROVE  IInv'
<1>1. Retyped(t) \in Seq(SoundNodes)
  BY InvariantNodes, RetypedNodes DEF Normal
<1> QED
  BY <1>1, NormalizeStep DEF ChangeType

LEMMA AddBytesStep ==
  ASSUME IInv, NEW n \in Amounts, AddBytes(n), UNCHANGED crashed
  PROVE  IInv'
<1>1. n \in Nat
  BY LayoutAssumption
<1>2. Padding(n) \in Seq(SoundNodes)
  BY <1>1, FillsPadding DEF Fills
<1>3. nodes \o Padding(n) \in Seq(SoundNodes)
  BY <1>2, InvariantNodes, ConcatProperties DEF Normal
<1> QED
  BY <1>3, NormalizeStep DEF AddBytes

LEMMA DeleteStepInv ==
  ASSUME IInv, Delete, UNCHANGED crashed
  PROVE  IInv'
<1>1. Remaining \in Seq(SoundNodes)
  BY InvariantNodes, RemainingNodes DEF Normal
<1> QED
  BY <1>1, NormalizeStep DEF Delete

\* The nodes with the i-th one locked where it is.
LockedAt(i) == [nodes EXCEPT ![i].isLocked = TRUE, ![i].absoluteOffset = Offset(nodes, i)]

LEMMA LockedNode ==
  ASSUME NEW n \in SoundNodes, NEW off \in Nat
  PROVE  /\ [n EXCEPT !.isLocked = TRUE, !.absoluteOffset = off] \in SoundNodes
         /\ [n EXCEPT !.isLocked = TRUE, !.absoluteOffset = off].selected = n.selected
<1> DEFINE m == [n EXCEPT !.isLocked = TRUE, !.absoluteOffset = off]
<1>1. /\ m.size = n.size /\ m.var = n.var /\ m.selected = n.selected
      /\ m.isLocked = TRUE /\ m.absoluteOffset = off
  BY DEF SoundNodes, Nodes
<1>2. m \in Nodes
  BY DEF SoundNodes, Nodes
<1>3. off # NoOffset
  BY DEF NoOffset
<1> HIDE DEF m
<1>4. m \in SoundNodes /\ m.selected = n.selected
  BY <1>1, <1>2, <1>3 DEF SoundNodes
<1> QED
  BY <1>4 DEF m

LEMMA LockedNodes ==
  ASSUME nodes \in Seq(SoundNodes), NEW i \in Indices
  PROVE  /\ LockedAt(i) \in Seq(SoundNodes) /\ Len(LockedAt(i)) = Len(nodes)
         /\ \A j \in 1..Len(nodes) : LockedAt(i)[j].selected = nodes[j].selected
<1>1. Len(nodes) \in Nat /\ DOMAIN nodes = 1..Len(nodes)
  BY LenProperties
<1>2. Offset(nodes, i) \in Nat
  BY Offsets DEF Indices
<1>3. ASSUME NEW j \in 1..Len(nodes)
      PROVE  LockedAt(i)[j] \in SoundNodes /\ LockedAt(i)[j].selected = nodes[j].selected
  <2>1. nodes[j] \in SoundNodes
    BY ElementOfSeq
  <2>2. LockedAt(i)[j] = IF j = i THEN [nodes[j] EXCEPT !.isLocked = TRUE,
                                                        !.absoluteOffset = Offset(nodes, i)]
                                  ELSE nodes[j]
    BY <1>1 DEF LockedAt
  <2> DEFINE m == [nodes[j] EXCEPT !.isLocked = TRUE, !.absoluteOffset = Offset(nodes, i)]
  <2>3. m \in SoundNodes /\ m.selected = nodes[j].selected
    BY <1>2, <2>1, LockedNode
  <2> HIDE DEF m
  <2> QED
    BY <2>1, <2>2, <2>3 DEF m
<1>4. LockedAt(i) \in [1..Len(nodes) -> SoundNodes]
  <2>1. DOMAIN LockedAt(i) = 1..Len(nodes)
        /\ LockedAt(i) = [j \in 1..Len(nodes) |-> LockedAt(i)[j]]
    BY <1>1 DEF LockedAt
  <2> QED
    BY <1>3, <2>1
<1> QED
  BY <1>1, <1>3, <1>4, FunctionIsSequence

LEMMA LockStep ==
  ASSUME IInv, NEW i \in Indices, Lock(i), UNCHANGED crashed
  PROVE  IInv'
<1>1. LockedAt(i) \in Seq(SoundNodes)
  BY InvariantNodes, LockedNodes DEF Normal
<1> QED
  BY <1>1, NormalizeStep DEF Lock, LockedAt

LEMMA UnlockStep ==
  ASSUME IInv, NEW i \in Indices, Unlock(i), UNCHANGED crashed
  PROVE  /\ IInv' /\ Len(nodes') = Len(nodes)
         /\ \A j \in Indices : nodes'[j].selected = nodes[j].selected
<1>1. /\ Normal(nodes) /\ size \in Nat /\ block \in Nat /\ crashed \in BOOLEAN
      /\ nodes # <<>> => block = size /\ size = Total(nodes)
  BY InvariantNodes
<1>2. nodes \in Seq(SoundNodes) /\ Len(nodes) \in Nat /\ DOMAIN nodes = 1..Len(nodes)
  BY <1>1, LenProperties DEF Normal
<1>3. ASSUME NEW j \in 1..Len(nodes)
      PROVE  /\ nodes'[j] \in SoundNodes /\ nodes'[j].selected = nodes[j].selected
             /\ nodes'[j].size = nodes[j].size
             /\ nodes'[j].isLocked => /\ nodes[j].isLocked
                                      /\ nodes'[j].absoluteOffset = nodes[j].absoluteOffset
  <2>1. nodes[j] \in SoundNodes
    BY <1>2, ElementOfSeq
  <2>2. nodes'[j] = IF j = i THEN [nodes[j] EXCEPT !.isLocked = FALSE,
                                                   !.absoluteOffset = NoOffset]
                             ELSE nodes[j]
    BY <1>2 DEF Unlock
  <2> QED
    BY <2>1, <2>2 DEF SoundNodes, Nodes, NoOffset
<1>4. nodes' \in [1..Len(nodes) -> SoundNodes]
  <2>1. DOMAIN nodes' = 1..Len(nodes) /\ nodes' = [j \in 1..Len(nodes) |-> nodes'[j]]
    BY <1>2 DEF Unlock
  <2> QED
    BY <1>3, <2>1
<1>5. nodes' \in Seq(SoundNodes) /\ Len(nodes') = Len(nodes)
  BY <1>2, <1>4, FunctionIsSequence
<1>6. Normal(nodes') /\ Total(nodes') = Total(nodes)
  BY <1>1, <1>3, <1>5, SameLayout
<1>7. nodes' # <<>> => nodes # <<>>
  BY <1>2, <1>5, EmptySeq
<1>8. (/\ Normal(nodes) /\ size \in Nat /\ block \in Nat /\ crashed \in BOOLEAN
       /\ nodes # <<>> => block = size /\ size = Total(nodes))'
  BY <1>1, <1>6, <1>7 DEF Unlock
<1>9. IInv'
  BY <1>8, InvariantNodes, PTL
<1> QED
  BY <1>3, <1>5, <1>9 DEF Indices

\* A normal layout is laid out as it is, so that exporting changes nothing.
LEMMA ExportStep ==
  ASSUME IInv, Export
  PROVE  nodes' = nodes /\ (nodes # <<>> => UNCHANGED layoutVars)
<1>1. Normal(nodes) /\ (nodes # <<>> => block = size /\ size = Total(nodes))
  BY InvariantNodes
<1>2. nodes' = nodes
  BY <1>1, NormalizedSame DEF Export, Normalize, Normal
<1>3. block' = Total(nodes) /\ size' = IF Total(nodes) = 0 THEN size ELSE Total(nodes)
  BY <1>2 DEF Export, Normalize, SizeToNodes
<1> QED
  BY <1>1, <1>2, <1>3 DEF layoutVars

LEMMA InitialNormal == Init => IInv
<1> SUFFICES ASSUME Init PROVE IInv
  OBVIOUS
<1>1. InitialNodes \in Nat
  BY LayoutAssumption
<1>2. Fills(nodes, InitialNodes * 8)
  BY <1>1, FillsRepeated DEF Init
<1>3. Normal(nodes)
  BY <1>2 DEF Fills, Normal, Honours
<1>4. Total(nodes) \in Nat
  BY <1>2, TotalType DEF Fills
<1> QED
  BY <1>3, <1>4, InvariantNodes DEF Init

LEMMA NextNormal == IInv /\ [Next]_vars => IInv'
<1> SUFFICES ASSUME IInv, [Next]_vars PROVE IInv'
  OBVIOUS
<1>1. ASSUME NEW i \in Indices, Click(i) PROVE IInv'
  BY <1>1, SelectStep DEF Click
<1>2. ASSUME NEW i \in Indices, CtrlClick(i) PROVE IInv'
  BY <1>2, SelectStep DEF CtrlClick
<1>3. ASSUME NEW i \in Indices, ShiftClick(i) PROVE IInv'
  BY <1>3, SelectStep DEF ShiftClick
<1>4. ASSUME NEW i \in Indices, OpenPopup(i) PROVE IInv'
  BY <1>4, SelectStep DEF OpenPopup
<1>5. CASE ShiftClickUnselected
  BY <1>5, LayoutAssumption DEF ShiftClickUnselected, layoutVars, IInv, TypeOK, LocksHonoured,
                    BlockFitsNodes, Indices
<1>6. CASE Edit /\ UNCHANGED crashed
  <2>1. \A i \in Selected : i \in Indices
    BY DEF Selected
  <2> QED
    BY <1>6, <2>1, ChangeTypeStep, AddBytesStep, DeleteStepInv, LockStep, UnlockStep DEF Edit
<1>7. CASE Export /\ UNCHANGED crashed
  <2>1. nodes \in Seq(SoundNodes)
    BY InvariantNodes DEF Normal
  <2> QED
    BY <1>7, <2>1, NormalizeStep DEF Export
<1>8. CASE UNCHANGED vars
  BY <1>8 DEF vars, IInv, TypeOK, LocksHonoured, BlockFitsNodes, Indices
<1> QED
  BY <1>1, <1>2, <1>3, <1>4, <1>5, <1>6, <1>7, <1>8 DEF Next, Halted

LEMMA AlwaysNormal == Spec => []IInv
BY InitialNormal, NextNormal, PTL DEF Spec

-----------------------------------------------------------------------------
(***************************************************************************)
(* What stays selected                                                     *)
(***************************************************************************)

HasSelected(s) == \E i \in 1..Len(s) : s[i].selected

LEMMA SelectedNodes == Selected # {} <=> HasSelected(nodes)
BY DEF Selected, Indices, HasSelected

LEMMA NormalizeSelects ==
  ASSUME NEW s \in Seq(SoundNodes), HasSelected(s), Normalize(s)
  PROVE  HasSelected(nodes')
<1>1. PICK i \in 1..Len(s) : s[i].selected
  BY DEF HasSelected
<1>2. PICK j \in 1..Len(Normalized(s)) : Normalized(s)[j] = s[i]
  BY NormalizedKeeps
<1> QED
  BY <1>1, <1>2 DEF HasSelected, Normalize

LEMMA RetypedSelects ==
  ASSUME nodes \in Seq(SoundNodes), HasSelected(nodes), NEW t \in Types
  PROVE  HasSelected(Retyped(t))
<1> DEFINE S == {k \in Nat : k \in 0..Len(nodes) =>
                   ((\E i \in 1..k : nodes[i].selected) => HasSelected(NewTo(t)[k]))}
<1>1. Len(nodes) \in Nat
  BY LenProperties
<1>2. 0 \in S
  OBVIOUS
<1>3. ASSUME NEW k \in Nat, k \in S PROVE k + 1 \in S
  <2> DEFINE w == NewTo(t)[k]
             v == NewTo(t)[k + 1]
  <2> SUFFICES ASSUME k + 1 \in 0..Len(nodes), \E i \in 1..(k + 1) : nodes[i].selected
               PROVE  HasSelected(v)
    OBVIOUS
  <2>1. k + 1 \in 1..Len(nodes) /\ (k + 1) - 1 = k /\ k \in 0..Len(nodes)
    BY <1>1
  <2>2. w \in Seq(SoundNodes) /\ nodes[k + 1] \in SoundNodes /\ Len(w) \in Nat
    BY <2>1, NewToDef, ElementOfSeq, LenProperties
  <2>3. v = IF nodes[k + 1].selected THEN RetypedNode(w, k + 1, t)
                                     ELSE Append(w, nodes[k + 1])
    BY <2>1, NewToDef
  <2>4. (\E i \in 1..k : nodes[i].selected) => HasSelected(w)
    BY <1>3, <2>1
  <2> HIDE DEF v, w
  <2>5. CASE nodes[k + 1].selected
    <3>1. v \in Seq(SoundNodes) /\ Len(v) >= Len(w) + 1 /\ v[Len(w) + 1].selected
      <4>1. k + 1 \in Indices
        BY <2>1 DEF Indices
      <4>2. Grown(w, v, t.size + Freed(nodes[k + 1].size, t.size))
        BY <2>2, <2>3, <2>5, <4>1, RetypedOne
      <4>3. /\ v \in Seq(SoundNodes) /\ Len(v) >= Len(w) + 1
            /\ \A i \in (Len(w) + 1)..Len(v) : v[i].selected
        BY <4>2 DEF Grown
      <4>4. Len(v) \in Nat
        BY <4>3, LenProperties
      <4> QED
        BY <2>2, <4>3, <4>4
    <3>2. Len(w) + 1 \in 1..Len(v)
      BY <2>2, <3>1, LenProperties
    <3> QED
      BY <3>1, <3>2 DEF HasSelected
  <2>6. CASE ~nodes[k + 1].selected
    <3>1. v = Append(w, nodes[k + 1])
      BY <2>3, <2>6
    <3>2. Len(v) = Len(w) + 1 /\ \A i \in 1..Len(w) : v[i] = w[i]
      BY <2>2, <3>1, OneMore
    <3>3. \E i \in 1..k : nodes[i].selected
      <4>1. \A i \in 1..(k + 1) : i \in 1..k \/ i = k + 1
        OBVIOUS
      <4> QED
        BY <2>6, <4>1
    <3>4. \A i \in 1..Len(w) : i \in 1..Len(v)
      BY <2>2, <3>2
    <3> QED
      BY <2>4, <3>2, <3>3, <3>4 DEF HasSelected
  <2> QED
    BY <2>5, <2>6
<1>4. Nat \subseteq S
  <2> HIDE DEF S
  <2> QED
    BY <1>2, <1>3, SetInduction
<1>5. Len(nodes) \in S /\ Len(nodes) \in 0..Len(nodes)
  BY <1>1, <1>4
<1> QED
  BY <1>5, NewToDef DEF HasSelected

LEMMA SelectSelects ==
  ASSUME IInv, NEW S, Select(S), NEW i \in Indices, i \in S
  PROVE  HasSelected(nodes')
<1>1. Len(nodes') = Len(nodes) /\ nodes'[i].selected
  BY SelectStep
<1> QED
  BY <1>1 DEF HasSelected, Indices

LEMMA EditSelects ==
  ASSUME IInv, HasSelected(nodes), UNCHANGED crashed,
         \/ \E t \in Types : ChangeType(t)
         \/ \E n \in Amounts : AddBytes(n)
         \/ \E i \in Selected : Lock(i) \/ Unlock(i)
         \/ Export
  PROVE  HasSelected(nodes')
<1>1. nodes \in Seq(SoundNodes) /\ Len(nodes) \in Nat
  BY InvariantNodes, LenProperties DEF Normal
<1>2. ASSUME NEW t \in Types, ChangeType(t) PROVE HasSelected(nodes')
  BY <1>1, <1>2, RetypedNodes, RetypedSelects, NormalizeSelects DEF ChangeType
<1>3. ASSUME NEW n \in Amounts, AddBytes(n) PROVE HasSelected(nodes')
  <2> DEFINE p == Padding(n)
  <2>1. p \in Seq(SoundNodes) /\ Len(p) \in Nat
    <3>1. n \in Nat
      BY LayoutAssumption
    <3> QED
      BY <3>1, FillsPadding, LenProperties DEF Fills
  <2> HIDE DEF p
  <2> DEFINE w == nodes \o p
  <2>2. /\ w \in Seq(SoundNodes) /\ Len(w) = Len(nodes) + Len(p)
        /\ \A i \in 1..Len(nodes) : w[i] = nodes[i]
    BY <1>1, <2>1, ConcatProperties
  <2>3. \A i \in 1..Len(nodes) : i \in 1..Len(w)
    BY <1>1, <2>1, <2>2
  <2>4. Normalize(w)
    BY <1>3 DEF AddBytes, p
  <2> HIDE DEF w
  <2>5. HasSelected(w)
    BY <2>2, <2>3 DEF HasSelected
  <2> QED
    BY <2>2, <2>4, <2>5, NormalizeSelects
<1>4. ASSUME NEW i \in Selected, Lock(i) PROVE HasSelected(nodes')
  <2>1. i \in Indices
    BY DEF Selected
  <2>2. LockedAt(i) \in Seq(SoundNodes) /\ HasSelected(LockedAt(i))
    BY <1>1, <2>1, LockedNodes DEF HasSelected
  <2>3. Normalize(LockedAt(i))
    BY <1>4 DEF Lock, LockedAt
  <2> QED
    BY <2>2, <2>3, NormalizeSelects
<1>5. ASSUME NEW i \in Selected, Unlock(i) PROVE HasSelected(nodes')
  <2>1. i \in Indices
    BY DEF Selected
  <2>2. Len(nodes') = Len(nodes) /\ \A j \in Indices : nodes'[j].selected = nodes[j].selected
    BY <1>5, <2>1, UnlockStep
  <2> QED
    BY <2>2 DEF HasSelected, Indices
<1>6. CASE Export
  BY <1>6, ExportStep
<1> QED
  BY <1>2, <1>3, <1>4, <1>5, <1>6

\* A step that leaves nothing selected deletes, or is a click with Ctrl.
LEMMA NextSelects ==
  ASSUME IInv, [Next]_vars, Selected # {}, Selected' = {}
  PROVE  Delete \/ \E i \in Indices : CtrlClick(i)
<1>1. HasSelected(nodes) /\ ~HasSelected(nodes')
  BY DEF Selected, Indices, HasSelected
<1>2. ASSUME NEW i \in Indices, Click(i) PROVE FALSE
  BY <1>1, <1>2, SelectSelects DEF Click
<1>3. ASSUME NEW i \in Indices, ShiftClick(i) PROVE FALSE
  <2> DEFINE first == CHOOSE m \in Selected : \A j \in Selected : m <= j
             S     == Selected \cup (first..i) \cup (i..first)
  <2>1. Select(S)
    BY <1>3 DEF ShiftClick
  <2>2. PICK j \in Selected : TRUE
    OBVIOUS
  <2>3. j \in Indices /\ j \in S
    BY <2>2 DEF Selected
  <2> HIDE DEF S
  <2> QED
    BY <1>1, <2>1, <2>3, SelectSelects
<1>4. ASSUME NEW i \in Indices, OpenPopup(i) PROVE FALSE
  <2> DEFINE S == IF nodes[i].selected THEN Selected ELSE {i}
  <2>1. Select(S)
    BY <1>4 DEF OpenPopup
  <2>2. i \in S
    BY DEF Selected
  <2> HIDE DEF S
  <2> QED
    BY <1>1, <2>1, <2>2, SelectSelects
<1>5. ASSUME UNCHANGED nodes PROVE FALSE
  BY <1>1, <1>5
<1> QED
  BY <1>1, <1>2, <1>3, <1>4, <1>5, EditSelects
     DEF Next, Edit, Halted, ShiftClickUnselected, layoutVars, vars

-----------------------------------------------------------------------------
(***************************************************************************)
(* Theorems                                                                *)
(***************************************************************************)

\* The nodes, the size and the block of a class keep their types, and a node
\* has an offset it is locked at just when it is locked.
THEOREM LayoutTypeCorrect == Spec => []TypeOK
BY AlwaysNormal, PTL DEF IInv

\* No sequence of edits puts a locked node before the offset it is locked at
\* (normalizeNodes).
THEOREM LocksAreHonoured == Spec => []LocksHonoured
BY AlwaysNormal, PTL DEF IInv

\* While a class has nodes, its size, its block and what its nodes cover agree
\* (sizeToNodes).
THEOREM BlockAlwaysFits == Spec => []BlockFitsNodes
BY AlwaysNormal, PTL DEF IInv

\* Whatever is selected, Delete leaves every other locked node that is at its
\* offset exactly there.
THEOREM DeleteKeepsLockedNodes == Spec => []DeleteKeepsLocked
<1>1. IInv => DeleteKeepsLocked
  BY InvariantNodes, Deleting DEF Normal
<1> QED
  BY <1>1, AlwaysNormal, PTL

\* A type that fits into every selected node moves no other node (changeType).
THEOREM ShrinkingMovesNothing == Spec => []ShrinkMovesNothing
<1>1. IInv => ShrinkMovesNothing
  BY InvariantNodes, Shrinking DEF Normal
<1> QED
  BY <1>1, AlwaysNormal, PTL

\* And it leaves just the same bytes selected (changeType).
THEOREM RetypingKeepsSelection == Spec => []RetypeKeepsSelection
<1>1. IInv => RetypeKeepsSelection
  BY InvariantNodes, Shrinking DEF Normal
<1> QED
  BY <1>1, AlwaysNormal, PTL

\* Exporting a class that has nodes changes nothing (exportClass).
THEOREM ExportingIsReading == Spec => ExportChangesNothing
<1>1. IInv /\ [Next]_vars => [Export /\ nodes # <<>> => UNCHANGED layoutVars]_vars
  BY ExportStep
<1> QED
  BY <1>1, AlwaysNormal, PTL DEF Spec, ExportChangesNothing

\* A selection ends with Delete or a click with Ctrl only (drawControllers).
THEOREM SelectionsEndByHand == Spec => SelectionEndsByHand
<1>1. IInv /\ [Next]_vars =>
        [Selected # {} /\ Selected' = {} => Delete \/ \E i \in Indices : CtrlClick(i)]_vars
  BY NextSelects
<1> QED
  BY <1>1, AlwaysNormal, PTL DEF Spec, SelectionEndsByHand
=============================================================================
