---------------------------- MODULE Patterns_proofs ---------------------------
(***************************************************************************)
(* Proofs about Patterns, for texts and strings of any length and any      *)
(* contents of the target.                                                 *)
(***************************************************************************)
EXTENDS Patterns, Recursion

\* The least of some numbers is one of them.
LEMMA LeastExists ==
  ASSUME NEW T, T \subseteq Nat, T # {}
  PROVE  Min(T) \in T /\ \A y \in T : Min(T) <= y
BY LeastNumber DEF Min

-----------------------------------------------------------------------------
(***************************************************************************)
(* Hexadecimal digits                                                      *)
(***************************************************************************)

LEMMA Digits ==
  /\ HexDigits \in Seq({HexDigits[i] : i \in 1..16}) /\ Len(HexDigits) = 16
  /\ \A i, j \in 1..16 : HexDigits[i] = HexDigits[j] => i = j
  /\ \A i \in 1..16 : HexDigits[i] # Backslash /\ HexDigits[i] # "x" /\ HexDigits[i] # "?"
<1>1. Len(HexDigits) = 16 /\ HexDigits = [i \in 1..16 |-> HexDigits[i]]
  BY DEF HexDigits
<1>2. HexDigits \in Seq({HexDigits[i] : i \in 1..16})
  <2>1. HexDigits \in [1..16 -> {HexDigits[i] : i \in 1..16}]
    BY <1>1
  <2> QED
    BY <2>1, FunctionIsSequence
<1>3. \A i, j \in 1..16 : HexDigits[i] = HexDigits[j] => i = j
  BY DEF HexDigits
<1>4. \A i \in 1..16 : HexDigits[i] # Backslash /\ HexDigits[i] # "x" /\ HexDigits[i] # "?"
  BY DEF HexDigits, Backslash
<1> QED
  BY <1>1, <1>2, <1>3, <1>4

\* A character that is a hexadecimal digit has a value.
LEMMA DigitHasValue ==
  ASSUME NEW c, IsDigit(c)
  PROVE  DigitValue(c) \in 0..15 /\ HexDigits[DigitValue(c) + 1] = c
<1> DEFINE I == {i \in 1..Len(HexDigits) : HexDigits[i] = c}
<1>1. I # {} /\ I \subseteq 1..16 /\ I \subseteq Nat
  BY Digits DEF IsDigit, Contains
<1>2. DigitValue(c) = Min(I) - 1
  BY <1>1 DEF DigitValue, SelectInSeq
<1> HIDE DEF I
<1>3. Min(I) \in I
  BY <1>1, LeastExists
<1>4. Min(I) \in 1..16 /\ HexDigits[Min(I)] = c
  BY <1>1, <1>3 DEF I
<1>5. (Min(I) - 1) + 1 = Min(I)
  BY <1>4
<1> QED
  BY <1>2, <1>4, <1>5

\* The digits written for a number are read as that number.
LEMMA DigitOfValue ==
  ASSUME NEW v \in 0..15
  PROVE  IsDigit(HexDigits[v + 1]) /\ DigitValue(HexDigits[v + 1]) = v
<1>1. v + 1 \in 1..Len(HexDigits)
  BY Digits
<1>2. IsDigit(HexDigits[v + 1])
  BY <1>1 DEF IsDigit, Contains
<1> DEFINE u == DigitValue(HexDigits[v + 1])
<1>3. u \in 0..15 /\ HexDigits[u + 1] = HexDigits[v + 1]
  BY <1>2, DigitHasValue
<1> HIDE DEF u
<1>4. u + 1 = v + 1
  BY <1>3, Digits
<1>5. u = v
  BY <1>3, <1>4
<1> QED
  BY <1>2, <1>5 DEF u

LEMMA HexRoundTrip ==
  ASSUME NEW b \in 0..255
  PROVE  /\ Len(HexByte(b)) = 2
         /\ StoiHex(HexByte(b)[1], HexByte(b)[2]) = b
         /\ \A i \in 1..2 : HexByte(b)[i] # Backslash /\ HexByte(b)[i] # "x" /\ HexByte(b)[i] # "?"
<1> DEFINE hi == b \div 16
           lo == b % 16
<1>1. hi \in 0..15 /\ lo \in 0..15 /\ 16 * hi + lo = b /\ hi + 1 \in 1..16 /\ lo + 1 \in 1..16
  OBVIOUS
<1>2. HexByte(b) = <<HexDigits[hi + 1], HexDigits[lo + 1]>>
  BY DEF HexByte
<1> HIDE DEF hi, lo
<1>3. /\ IsDigit(HexDigits[hi + 1]) /\ DigitValue(HexDigits[hi + 1]) = hi
      /\ IsDigit(HexDigits[lo + 1]) /\ DigitValue(HexDigits[lo + 1]) = lo
  BY <1>1, DigitOfValue
<1>4. StoiHex(HexDigits[hi + 1], HexDigits[lo + 1]) = b
  BY <1>1, <1>3 DEF StoiHex
<1>5. /\ HexDigits[hi + 1] # Backslash /\ HexDigits[hi + 1] # "x" /\ HexDigits[hi + 1] # "?"
      /\ HexDigits[lo + 1] # Backslash /\ HexDigits[lo + 1] # "x" /\ HexDigits[lo + 1] # "?"
  BY <1>1, Digits
<1> QED
  BY <1>2, <1>4, <1>5

LEMMA StoiHexType ==
  ASSUME NEW c, NEW d
  PROVE  StoiHex(c, d) \in Int
<1>1. \A x : IsDigit(x) => DigitValue(x) \in Int
  BY DigitHasValue
<1>2. CASE IsDigit(c)
  BY <1>1, <1>2 DEF StoiHex
<1>3. CASE ~IsDigit(c) /\ IsDigit(d)
  <2>1. DigitValue(d) \in Int
    BY <1>1, <1>3
  <2>2. (-DigitValue(d)) % 256 \in Int
    BY <2>1
  <2>3. StoiHex(c, d) \in {DigitValue(d), (-DigitValue(d)) % 256, BadByte}
    BY <1>3 DEF StoiHex
  <2> QED
    BY <2>1, <2>2, <2>3 DEF BadByte
<1>4. CASE ~IsDigit(c) /\ ~IsDigit(d)
  BY <1>4 DEF StoiHex, BadByte
<1> QED
  BY <1>2, <1>3, <1>4

-----------------------------------------------------------------------------
(***************************************************************************)
(* Byte patterns                                                           *)
(***************************************************************************)

\* Where patternToMask goes on from position i, and what it makes of that
\* position and the items of the rest.
GoOn(text, i) ==
  IF ByteStarts(text, i) THEN i + 4 ELSE IF text[i] = "?" THEN PastMarks(text, i) ELSE i + 1

Took(text, i, rest) ==
  IF ByteStarts(text, i) THEN <<StoiHex(text[i + 2], text[i + 3])>> \o rest
  ELSE IF text[i] = "?" THEN <<Wildcard>> \o rest
  ELSE rest

\* The items from each position on.
MaskFrom(text) ==
  LET from[i \in 1..(Len(text) + 1)] ==
        IF i > Len(text) THEN <<>>
        ELSE IF ByteStarts(text, i) THEN <<StoiHex(text[i + 2], text[i + 3])>> \o from[i + 4]
        ELSE IF text[i] = "?" THEN <<Wildcard>> \o from[PastMarks(text, i)]
        ELSE from[i + 1]
  IN  from

LEMMA GoesOn ==
  ASSUME NEW E, NEW text \in Seq(E), NEW i \in 1..Len(text)
  PROVE  GoOn(text, i) \in (i + 1)..(Len(text) + 1)
<1>1. Len(text) \in Nat
  BY LenProperties
<1>2. CASE ByteStarts(text, i)
  BY <1>1, <1>2 DEF GoOn, ByteStarts
<1>3. CASE ~ByteStarts(text, i) /\ text[i] = "?"
  <2> DEFINE w == text \o <<" ">>
             I == {k \in i..(Len(text) + 1) : w[k] # "?"}
  <2>1. \A k \in 1..(Len(text) + 1) : w[k] = IF k <= Len(text) THEN text[k] ELSE " "
    <3> DEFINE end == " "
    <3> HIDE DEF end
    <3>1. /\ <<end>> \in Seq(E \cup {end}) /\ Len(<<end>>) = 1 /\ <<end>>[1] = end
          /\ text \in Seq(E \cup {end})
      <4>1. text \in [1..Len(text) -> E \cup {end}]
        BY LenProperties
      <4>2. text \in Seq(E \cup {end})
        BY <1>1, <4>1, FunctionIsSequence
      <4> QED
        BY <4>2
    <3>2. \A k \in 1..(Len(text) + 1) : w[k] = IF k <= Len(text) THEN text[k] ELSE <<end>>[k - Len(text)]
      BY <3>1, ConcatProperties DEF end
    <3>3. \A k \in 1..(Len(text) + 1) : ~(k <= Len(text)) => k - Len(text) = 1
      BY <1>1
    <3> HIDE DEF w
    <3> QED
      BY <3>1, <3>2, <3>3 DEF end
  <2>2. w[Len(text) + 1] = " " /\ w[i] = "?"
    <3>1. Len(text) + 1 \in 1..(Len(text) + 1) /\ ~(Len(text) + 1 <= Len(text))
          /\ i \in 1..(Len(text) + 1) /\ i <= Len(text)
      BY <1>1
    <3> HIDE DEF w
    <3> QED
      BY <1>3, <2>1, <3>1
  <2>3. " " # "?"
    OBVIOUS
  <2> HIDE DEF w
  <2>4. Len(text) + 1 \in I /\ i \notin I /\ I \subseteq Nat /\ I \subseteq i..(Len(text) + 1)
    <3>1. Len(text) + 1 \in i..(Len(text) + 1)
      BY <1>1
    <3>2. w[Len(text) + 1] # "?"
      BY <2>2, <2>3
    <3>3. \A k \in i..(Len(text) + 1) : k \in Nat
      BY <1>1
    <3> QED
      BY <2>2, <3>1, <3>2, <3>3
  <2>5. PastMarks(text, i) = Min(I)
    BY <2>4 DEF PastMarks, SelectInSubSeq, w
  <2> HIDE DEF I
  <2>6. Min(I) \in I
    BY <2>4, LeastExists
  <2>7. Min(I) \in (i + 1)..(Len(text) + 1)
    <3>1. Min(I) # i /\ Min(I) \in i..(Len(text) + 1)
      BY <2>4, <2>6
    <3> QED
      BY <1>1, <3>1
  <2> QED
    BY <1>3, <2>5, <2>7 DEF GoOn
<1>4. CASE ~ByteStarts(text, i) /\ text[i] # "?"
  BY <1>1, <1>4 DEF GoOn
<1> QED
  BY <1>2, <1>3, <1>4

LEMMA TookType ==
  ASSUME NEW text, NEW i, NEW rest \in Seq(Int)
  PROVE  Took(text, i, rest) \in Seq(Int)
<1>1. ASSUME NEW x \in Int PROVE <<x>> \o rest \in Seq(Int)
  <2>1. <<x>> \in Seq(Int)
    OBVIOUS
  <2> QED
    BY <2>1, ConcatProperties
<1>2. Wildcard \in Int
  BY DEF Wildcard
<1> QED
  BY <1>1, <1>2, StoiHexType DEF Took

LEMMA MaskDef ==
  ASSUME NEW E, NEW text \in Seq(E)
  PROVE  /\ MaskFrom(text)[Len(text) + 1] = <<>> /\ PatternToMask(text) = MaskFrom(text)[1]
         /\ \A i \in 1..Len(text) :
              MaskFrom(text)[i] = Took(text, i, MaskFrom(text)[GoOn(text, i)])
         /\ \A i \in 1..(Len(text) + 1) : MaskFrom(text)[i] \in Seq(Int)
<1> DEFINE n    == Len(text)
           N    == Seq(Int)
           next == [i \in 1..n |-> GoOn(text, i)]
           step == [x \in N \X (1..n) |-> Took(text, x[2], x[1])]
           Body(g, i) == IF i > n THEN <<>>
                         ELSE IF ByteStarts(text, i) THEN <<StoiHex(text[i + 2], text[i + 3])>> \o g[i + 4]
                         ELSE IF text[i] = "?" THEN <<Wildcard>> \o g[PastMarks(text, i)]
                         ELSE g[i + 1]
           Is(g) == g = [i \in 1..(n + 1) |-> Body(g, i)]
<1>1. n \in Nat
  BY LenProperties
<1>2. \A i \in 1..n : GoOn(text, i) \in (i + 1)..(n + 1)
  BY GoesOn
<1> HIDE DEF n
<1>3. \A g : \A i \in 1..n : Body(g, i) = Took(text, i, g[GoOn(text, i)])
  BY <1>1 DEF Took, GoOn
<1>4. Jumps(next, n) /\ \A i \in 1..n : next[i] = GoOn(text, i)
  <2>1. \A i \in 1..n : GoOn(text, i) \in Nat
    BY <1>1, <1>2
  <2> QED
    BY <1>2, <2>1 DEF Jumps
<1>5. step \in Steps(N, n)
  BY TookType DEF Steps
<1>6. <<>> \in N
  BY EmptySeq
<1> HIDE DEF next, N
<1>7. PICK g : JumpsDown(g, N, n, <<>>, next, step)
  <2> HIDE DEF step
  <2> QED
    BY <1>1, <1>4, <1>5, <1>6, JumpingExists, Zenon
<1>8. /\ g \in [1..(n + 1) -> N] /\ g[n + 1] = <<>>
      /\ \A i \in 1..n : g[i] = Took(text, i, g[GoOn(text, i)])
  <2>1. /\ g \in [1..(n + 1) -> N] /\ g[n + 1] = <<>>
        /\ \A i \in 1..n : g[i] = step[<<g[next[i]], i>>]
    BY <1>7, Zenon DEF JumpsDown
  <2>2. ASSUME NEW i \in 1..n
        PROVE  step[<<g[next[i]], i>>] = Took(text, i, g[GoOn(text, i)])
    <3>1. next[i] = GoOn(text, i) /\ GoOn(text, i) \in 1..(n + 1)
      BY <1>1, <1>2, <1>4
    <3>2. g[GoOn(text, i)] \in N
      BY <2>1, <3>1
    <3> QED
      BY <3>1, <3>2
  <2> HIDE DEF step
  <2> QED
    BY <2>1, <2>2
<1>9. Is(g)
  <2>1. ASSUME NEW i \in 1..(n + 1) PROVE g[i] = Body(g, i)
    <3>1. CASE i \in 1..n
      <4> HIDE DEF Body
      <4> QED
        BY <1>3, <1>8, <3>1
    <3>2. CASE i \notin 1..n
      <4>1. i = n + 1 /\ i > n
        BY <1>1, <3>2
      <4> QED
        BY <1>8, <4>1
    <3> QED
      BY <3>1, <3>2
  <2> HIDE DEF Body
  <2> QED
    BY <1>8, <2>1
<1>10. Is(MaskFrom(text))
  BY <1>9, Zenon DEF MaskFrom, n
<1> DEFINE f == MaskFrom(text)
<1>11. \A i \in 1..(n + 1) : f[i] = Body(f, i)
  <2> HIDE DEF Body, f
  <2> QED
    BY <1>10 DEF f
<1> HIDE DEF f
<1>12. f[n + 1] = <<>>
  <2>1. n + 1 \in 1..(n + 1) /\ n + 1 > n
    BY <1>1
  <2> QED
    BY <1>11, <2>1
<1>13. \A i \in 1..n : f[i] = Took(text, i, f[GoOn(text, i)])
  <2>1. \A i \in 1..n : i \in 1..(n + 1)
    BY <1>1
  <2> HIDE DEF Body
  <2> QED
    BY <1>3, <1>11, <2>1
<1>14. \A i \in 1..(n + 1) : f[i] \in N
  <2>1. KeepsDown(f, N, n, next)
    BY <1>4, <1>6, <1>12, <1>13, TookType DEF KeepsDown, N
  <2> QED
    BY <1>1, <1>4, <2>1, JumpingType
<1>15. PatternToMask(text) = f[1]
  BY DEF PatternToMask, MaskFrom, f
<1> QED
  BY <1>12, <1>13, <1>14, <1>15 DEF f, n, N

-----------------------------------------------------------------------------
(***************************************************************************)
(* Signatures                                                              *)
(***************************************************************************)

\* What a character makes of the fields before it; was tells whether another
\* one stands right before it.
TakeChar(fields, c, was) ==
  IF c = " " THEN fields
  ELSE IF ~was THEN Append(fields, <<c>>)
  ELSE [fields EXCEPT ![Len(fields)] = Append(@, c)]

LEMMA TakeCharType ==
  ASSUME NEW E, NEW fields \in Seq(Seq(E)), NEW c \in E, NEW was
  PROVE  TakeChar(fields, c, was) \in Seq(Seq(E))
<1>1. <<c>> \in Seq(E)
  OBVIOUS
<1>2. Append(fields, <<c>>) \in Seq(Seq(E))
  BY <1>1, AppendProperties
<1> DEFINE n == Len(fields)
           t == [fields EXCEPT ![n] = Append(@, c)]
<1>3. n \in Nat /\ fields \in [1..n -> Seq(E)]
  BY LenProperties
<1>4. t \in Seq(Seq(E))
  <2>1. n \in 1..n => Append(fields[n], c) \in Seq(E)
    BY <1>3, AppendProperties
  <2> HIDE DEF n
  <2>2. t \in [1..n -> Seq(E)]
    BY <1>3, <2>1
  <2> HIDE DEF t
  <2> QED
    BY <1>3, <2>2, FunctionIsSequence
<1> HIDE DEF t
<1>5. TakeChar(fields, c, was) \in {fields, Append(fields, <<c>>), t}
  BY DEF TakeChar, t, n
<1> QED
  BY <1>2, <1>4, <1>5

LEMMA FieldsType ==
  ASSUME NEW E, NEW text \in Seq(E)
  PROVE  Fields(text) \in Seq(Seq(E))
<1> DEFINE n == Len(text)
           D == Seq(Seq(E))
           was(k) == ~(k = 1 \/ text[k - 1] = " ")
           Body(g, k) == IF k = 0 THEN <<>>
                         ELSE IF text[k] = " " THEN g[k - 1]
                         ELSE IF k = 1 \/ text[k - 1] = " " THEN Append(g[k - 1], <<text[k]>>)
                         ELSE [g[k - 1] EXCEPT ![Len(g[k - 1])] = Append(@, text[k])]
           Is(g) == g = [k \in 0..n |-> Body(g, k)]
           step == [x \in D \X (1..n) |-> TakeChar(x[1], text[x[2]], was(x[2]))]
<1>1. n \in Nat /\ \A k \in 1..n : text[k] \in E
  BY LenProperties, ElementOfSeq
<1>2. \A g : \A k \in 1..n : Body(g, k) = TakeChar(g[k - 1], text[k], was(k))
  <2> SUFFICES ASSUME NEW g, NEW k \in 1..n
               PROVE  Body(g, k) = TakeChar(g[k - 1], text[k], was(k))
    OBVIOUS
  <2>1. k # 0
    BY <1>1
  <2> QED
    BY <2>1 DEF TakeChar
<1> HIDE DEF n, was
<1>3. step \in Steps(D, n)
  <2>1. \A x \in D, k \in 1..n : TakeChar(x, text[k], was(k)) \in D
    BY <1>1, TakeCharType
  <2> HIDE DEF D
  <2> QED
    BY <2>1 DEF Steps
<1>4. <<>> \in D
  BY EmptySeq
<1> HIDE DEF D
<1>5. PICK g : Iterates(g, D, n, <<>>, step)
  <2> HIDE DEF step
  <2> QED
    BY <1>1, <1>3, <1>4, RecursionExists, Zenon
<1>6. /\ g \in [0..n -> D] /\ g[0] = <<>>
      /\ \A k \in 1..n : g[k] = TakeChar(g[k - 1], text[k], was(k))
  <2>1. /\ g \in [0..n -> D] /\ g[0] = <<>>
        /\ \A k \in 1..n : g[k] = step[<<g[k - 1], k>>]
    BY <1>5, Zenon DEF Iterates
  <2>2. ASSUME NEW k \in 1..n
        PROVE  step[<<g[k - 1], k>>] = TakeChar(g[k - 1], text[k], was(k))
    <3>1. k - 1 \in 0..n
      BY <1>1
    <3>2. g[k - 1] \in D
      BY <2>1, <3>1
    <3> QED
      BY <1>1, <3>2
  <2> HIDE DEF step
  <2> QED
    BY <2>1, <2>2
<1>7. Is(g)
  <2>1. ASSUME NEW k \in 0..n PROVE g[k] = Body(g, k)
    <3>1. CASE k = 0
      BY <1>6, <3>1
    <3>2. CASE k # 0
      <4>1. k \in 1..n
        BY <1>1, <3>2
      <4> HIDE DEF Body
      <4> QED
        BY <1>2, <1>6, <4>1
    <3> QED
      BY <3>1, <3>2
  <2> HIDE DEF Body
  <2> QED
    BY <1>6, <2>1
<1> DEFINE f == CHOOSE h : Is(h)
<1>8. Is(f)
  <2> HIDE DEF Is
  <2> QED
    BY <1>7, Zenon
<1>9. Fields(text) = f[n]
  BY DEF Fields, n
<1> HIDE DEF f
<1>10. f[0] = <<>> /\ \A k \in 1..n : f[k] = TakeChar(f[k - 1], text[k], was(k))
  <2>1. \A k \in 0..n : f[k] = Body(f, k)
    <3> HIDE DEF Body
    <3> QED
      BY <1>8
  <2>2. f[0] = <<>>
    <3>1. 0 \in 0..n
      BY <1>1
    <3> QED
      BY <2>1, <3>1
  <2>3. \A k \in 1..n : k \in 0..n
    BY <1>1
  <2> HIDE DEF Body
  <2> QED
    BY <1>2, <2>1, <2>2, <2>3
<1>11. Keeps(f, D, n)
  <2>1. ASSUME NEW k \in 1..n, f[k - 1] \in D PROVE f[k] \in D
    <3>1. TakeChar(f[k - 1], text[k], was(k)) \in D
      BY <1>1, <2>1, TakeCharType DEF D
    <3> QED
      BY <1>10, <3>1
  <2> QED
    BY <1>4, <1>10, <2>1 DEF Keeps
<1>12. n \in 0..n
  BY <1>1
<1> QED
  BY <1>1, <1>9, <1>11, <1>12, RecursionType DEF Within, D

\* Whatever is to be scanned for, it is sent as a sequence of numbers.
LEMMA ItemsType ==
  ASSUME NEW E, NEW text \in Seq(E), NEW type
  PROVE  Items(type, text) \in Seq(Int)
<1>1. PatternToMask(text) \in Seq(Int)
  <2>1. Len(text) \in Nat
    BY LenProperties
  <2>2. 1 \in 1..(Len(text) + 1)
    BY <2>1
  <2> QED
    BY <2>2, MaskDef
<1>2. <<>> \in Seq(Int)
  BY EmptySeq
<1>3. IdaItems(text) \in Seq(Int)
  <2> DEFINE fields == IF DetectPatternType(text) = "IDA_SIGNATURE" THEN Fields(text) ELSE <<>>
             items == [i \in 1..Len(fields) |->
                         IF IsMark(fields[i]) THEN Wildcard ELSE StoiHex(fields[i][1], fields[i][2])]
  <2>1. fields \in Seq(Seq(E))
    BY FieldsType, EmptySeq
  <2> HIDE DEF fields
  <2>2. Len(fields) \in Nat /\ DOMAIN fields = 1..Len(fields)
    BY <2>1, LenProperties
  <2>3. items \in [1..Len(fields) -> Int]
    <3>1. ASSUME NEW i PROVE (IF IsMark(fields[i]) THEN Wildcard ELSE StoiHex(fields[i][1], fields[i][2])) \in Int
      BY StoiHexType DEF Wildcard
    <3> QED
      BY <3>1
  <2>4. IdaItems(text) = items
    BY <2>2 DEF IdaItems, fields
  <2> HIDE DEF items
  <2> QED
    BY <2>2, <2>3, <2>4, FunctionIsSequence
<1> QED
  BY <1>1, <1>2, <1>3 DEF Items

-----------------------------------------------------------------------------
(***************************************************************************)
(* The search                                                              *)
(***************************************************************************)

\* A module of the address space.
IsModule(m, top) == m.base \in Nat /\ m.size \in Nat /\ m.base + m.size <= top

\* What is found is an address of the module, or 0 for nothing.
LEMMA FindPatternType ==
  ASSUME NEW items \in Seq(Int), NEW top \in Nat, NEW m, IsModule(m, top)
  PROVE  FindPattern(m, items) \in {0} \cup {a \in m.base .. (m.base + m.size) : a < top}
<1> DEFINE found == {a \in m.base .. (m.base + m.size - Len(items)) : Matches(items, a)}
<1>1. CASE items = <<>> \/ found = {}
  BY <1>1 DEF FindPattern
<1>2. CASE items # <<>> /\ found # {}
  <2>1. Len(items) \in Nat \ {0}
    BY <1>2, EmptySeq
  <2>2. found \subseteq Nat /\ \A a \in found : a \in m.base .. (m.base + m.size) /\ a < top
    BY <2>1 DEF IsModule
  <2>3. FindPattern(m, items) = Min(found)
    BY <1>2 DEF FindPattern
  <2> HIDE DEF found
  <2>4. Min(found) \in found
    BY <1>2, <2>2, LeastExists
  <2> QED
    BY <2>2, <2>3, <2>4
<1> QED
  BY <1>1, <1>2

-----------------------------------------------------------------------------
(***************************************************************************)
(* A string is found where it stands                                       *)
(***************************************************************************)

\* Pieces of five characters one after the other.
LEMMA FlattenFives ==
  ASSUME NEW E, NEW seqs \in Seq(Seq(E)), \A i \in 1..Len(seqs) : Len(seqs[i]) = 5
  PROVE  /\ FlattenSeq(seqs) \in Seq(E) /\ Len(FlattenSeq(seqs)) = 5 * Len(seqs)
         /\ \A j \in 1..Len(seqs), r \in 1..5 : FlattenSeq(seqs)[5 * (j - 1) + r] = seqs[j][r]
<1> DEFINE n == Len(seqs)
           Fives(s, k) == /\ s \in Seq(E) /\ Len(s) = 5 * k
                          /\ \A j \in 1..k, r \in 1..5 : s[5 * (j - 1) + r] = seqs[j][r]
<1>1. n \in Nat /\ \A i \in 1..n : seqs[i] \in Seq(E)
  BY LenProperties, ElementOfSeq
<1>2. \A i \in 1..n : Len(seqs[i]) = 5
  OBVIOUS
<1>3. PICK f : /\ f[0] = <<>> /\ f[n] = FlattenSeq(seqs)
               /\ \A k \in 1..n : f[k] = f[k - 1] \o seqs[k]
  <2>1. PICK f : Flattens(f, seqs, E)
    BY FlattenStepwise
  <2> QED
    BY <2>1 DEF Flattens
<1> HIDE DEF n
<1>4. ASSUME NEW s, NEW k \in Nat, Fives(s, k), k + 1 \in 1..n
      PROVE  Fives(s \o seqs[k + 1], k + 1)
  <2> DEFINE p == seqs[k + 1]
             w == s \o p
  <2>1. p \in Seq(E) /\ Len(p) = 5
    BY <1>1, <1>2, <1>4
  <2>2. s \in Seq(E) /\ Len(s) = 5 * k
    BY <1>4
  <2> HIDE DEF p
  <2>3. /\ w \in Seq(E) /\ Len(w) = 5 * k + 5
        /\ \A i \in 1..(5 * k + 5) : w[i] = IF i <= 5 * k THEN s[i] ELSE p[i - 5 * k]
    <3>1. /\ w \in Seq(E) /\ Len(w) = Len(s) + Len(p)
          /\ \A i \in 1..(Len(s) + Len(p)) : w[i] = IF i <= Len(s) THEN s[i] ELSE p[i - Len(s)]
      BY <2>1, <2>2, ConcatProperties
    <3> HIDE DEF w
    <3> QED
      BY <2>1, <2>2, <3>1
  <2>4. 5 * k + 5 = 5 * (k + 1)
    OBVIOUS
  <2> HIDE DEF w
  <2>5. ASSUME NEW j \in 1..(k + 1), NEW r \in 1..5
        PROVE  w[5 * (j - 1) + r] = seqs[j][r]
    <3> DEFINE i == 5 * (j - 1) + r
    <3>1. CASE j \in 1..k
      <4>1. i \in 1..(5 * k + 5) /\ i <= 5 * k
        BY <3>1
      <4>2. w[i] = s[i]
        BY <2>3, <4>1
      <4> QED
        BY <1>4, <3>1, <4>2
    <3>2. CASE j = k + 1
      <4>1. i \in 1..(5 * k + 5) /\ ~(i <= 5 * k) /\ i - 5 * k = r
        BY <3>2
      <4>2. w[i] = p[r]
        <5> HIDE DEF i
        <5> QED
          BY <2>3, <4>1
      <4> QED
        BY <3>2, <4>2 DEF p
    <3> QED
      BY <3>1, <3>2
  <2> QED
    BY <2>3, <2>4, <2>5 DEF w, p
<1> DEFINE S == {k \in Nat : k \in 0..n => Fives(f[k], k)}
<1>5. 0 \in S
  <2>1. Fives(<<>>, 0)
    BY EmptySeq
  <2> HIDE DEF Fives
  <2> QED
    BY <1>3, <2>1
<1>6. ASSUME NEW k \in Nat, k \in S PROVE k + 1 \in S
  <2> HIDE DEF Fives
  <2> SUFFICES ASSUME k + 1 \in 0..n PROVE Fives(f[k + 1], k + 1)
    OBVIOUS
  <2>1. k \in 0..n /\ k + 1 \in 1..n /\ (k + 1) - 1 = k
    BY <1>1
  <2>2. f[k + 1] = f[k] \o seqs[k + 1]
    BY <1>3, <2>1
  <2> QED
    BY <1>4, <1>6, <2>1, <2>2
<1>7. n \in S
  <2> HIDE DEF S
  <2> QED
    BY <1>1, <1>5, <1>6, SetInduction
<1>8. Fives(f[n], n)
  <2> HIDE DEF Fives
  <2> QED
    BY <1>1, <1>7
<1> QED
  BY <1>3, <1>8 DEF n

\* The characters of a signature, and the five written for a byte.
SignatureChars == {Backslash, "x"} \cup {HexDigits[i] : i \in 1..16}

Written(b) == <<Backslash, Backslash, "x">> \o HexByte(b)

LEMMA WrittenType ==
  ASSUME NEW b \in 0..255
  PROVE  /\ Written(b) \in Seq(SignatureChars) /\ Len(Written(b)) = 5
         /\ Written(b)[1] = Backslash /\ Written(b)[2] = Backslash /\ Written(b)[3] = "x"
         /\ StoiHex(Written(b)[4], Written(b)[5]) = b
<1> DEFINE hi == HexDigits[(b \div 16) + 1]
           lo == HexDigits[(b % 16) + 1]
           x  == "x"
<1>1. (b \div 16) + 1 \in 1..16 /\ (b % 16) + 1 \in 1..16
  OBVIOUS
<1>2. HexByte(b) = <<hi, lo>>
  BY DEF HexByte
<1>3. StoiHex(hi, lo) = b
  BY <1>2, HexRoundTrip
<1>4. {hi, lo, Backslash, x} \subseteq SignatureChars
  BY <1>1 DEF SignatureChars
<1>5. Written(b) = <<Backslash, Backslash, x>> \o <<hi, lo>>
  BY <1>2 DEF Written
<1> HIDE DEF hi, lo, x
<1> DEFINE s == <<Backslash, Backslash, x>>
           t == <<hi, lo>>
<1>6. /\ s \in Seq(SignatureChars) /\ Len(s) = 3 /\ s[1] = Backslash /\ s[2] = Backslash /\ s[3] = x
      /\ t \in Seq(SignatureChars) /\ Len(t) = 2 /\ t[1] = hi /\ t[2] = lo
  BY <1>4
<1> HIDE DEF s, t
<1>7. /\ s \o t \in Seq(SignatureChars) /\ Len(s \o t) = 5
      /\ \A i \in 1..5 : (s \o t)[i] = IF i <= 3 THEN s[i] ELSE t[i - 3]
  <2> DEFINE w == s \o t
  <2>1. /\ w \in Seq(SignatureChars) /\ Len(w) = Len(s) + Len(t)
        /\ \A i \in 1..(Len(s) + Len(t)) : w[i] = IF i <= Len(s) THEN s[i] ELSE t[i - Len(s)]
    BY <1>6, ConcatProperties
  <2>2. Len(s) + Len(t) = 5
    BY <1>6
  <2> HIDE DEF w
  <2>3. \A i \in 1..5 : w[i] = IF i <= 3 THEN s[i] ELSE t[i - 3]
    BY <1>6, <2>1, <2>2
  <2> QED
    BY <2>1, <2>2, <2>3 DEF w
<1>8. /\ (s \o t)[1] = s[1] /\ (s \o t)[2] = s[2] /\ (s \o t)[3] = s[3]
      /\ (s \o t)[4] = t[1] /\ (s \o t)[5] = t[2]
  BY <1>7
<1>9. Written(b) = s \o t
  BY <1>5 DEF s, t
<1> QED
  BY <1>3, <1>6, <1>7, <1>8, <1>9 DEF x

\* The bytes of a string.
Bytes(str) == [i \in 1..Len(str) |-> str[i] % 256]

LEMMA BytesType ==
  ASSUME NEW str \in Seq(Int)
  PROVE  /\ Bytes(str) \in Seq(Int) /\ Len(Bytes(str)) = Len(str) /\ DOMAIN str = 1..Len(str)
         /\ Len(str) \in Nat
         /\ \A i \in 1..Len(str) : Bytes(str)[i] = str[i] % 256 /\ Bytes(str)[i] \in 0..255
<1>1. Len(str) \in Nat /\ DOMAIN str = 1..Len(str) /\ \A i \in 1..Len(str) : str[i] \in Int
  BY LenProperties, ElementOfSeq
<1>2. \A i \in 1..Len(str) : str[i] % 256 \in 0..255
  <2>1. \A x \in Int : x % 256 \in 0..255
    OBVIOUS
  <2> QED
    BY <1>1, <2>1
<1>3. Bytes(str) \in [1..Len(str) -> Int]
  BY <1>2 DEF Bytes
<1>4. \A i \in 1..Len(str) : Bytes(str)[i] = str[i] % 256
  BY DEF Bytes
<1> QED
  BY <1>1, <1>2, <1>3, <1>4, FunctionIsSequence

\* Each byte is written as five characters.
LEMMA SignatureDef ==
  ASSUME NEW str \in Seq(Int)
  PROVE  /\ StringToSignature(str) \in Seq(SignatureChars)
         /\ Len(StringToSignature(str)) = 5 * Len(str)
         /\ \A j \in 1..Len(str), r \in 1..5 :
              StringToSignature(str)[5 * (j - 1) + r] = Written(Bytes(str)[j])[r]
<1> DEFINE n == Len(str)
           seqs == [i \in 1..n |-> Written(Bytes(str)[i])]
<1>1. n \in Nat /\ DOMAIN str = 1..n /\ \A i \in 1..n : Bytes(str)[i] = str[i] % 256 /\ Bytes(str)[i] \in 0..255
  BY BytesType
<1>2. StringToSignature(str) = FlattenSeq(seqs)
  <2>1. [i \in DOMAIN str |-> <<Backslash, Backslash, "x">> \o HexByte(str[i] % 256)] = seqs
    BY <1>1 DEF Written
  <2> HIDE DEF seqs
  <2> QED
    BY <2>1 DEF StringToSignature
<1>3. /\ \A i \in 1..n : seqs[i] = Written(Bytes(str)[i]) /\ seqs[i] \in Seq(SignatureChars) /\ Len(seqs[i]) = 5
      /\ seqs \in [1..n -> Seq(SignatureChars)]
  BY <1>1, WrittenType
<1> HIDE DEF seqs, n
<1>4. seqs \in Seq(Seq(SignatureChars)) /\ Len(seqs) = n
  BY <1>1, <1>3, FunctionIsSequence
<1>5. /\ FlattenSeq(seqs) \in Seq(SignatureChars) /\ Len(FlattenSeq(seqs)) = 5 * Len(seqs)
      /\ \A j \in 1..Len(seqs), r \in 1..5 : FlattenSeq(seqs)[5 * (j - 1) + r] = seqs[j][r]
  BY <1>3, <1>4, FlattenFives
<1>6. \A j \in 1..n, r \in 1..5 :
        StringToSignature(str)[5 * (j - 1) + r] = Written(Bytes(str)[j])[r]
  <2> SUFFICES ASSUME NEW j \in 1..n, NEW r \in 1..5
               PROVE  StringToSignature(str)[5 * (j - 1) + r] = Written(Bytes(str)[j])[r]
    OBVIOUS
  <2>1. FlattenSeq(seqs)[5 * (j - 1) + r] = seqs[j][r]
    BY <1>4, <1>5
  <2>2. seqs[j] = Written(Bytes(str)[j])
    BY <1>3
  <2> QED
    BY <1>2, <2>1, <2>2, Zenon
<1>7. StringToSignature(str) \in Seq(SignatureChars) /\ Len(StringToSignature(str)) = 5 * n
  BY <1>2, <1>4, <1>5, Zenon
<1> QED
  BY <1>6, <1>7, Zenon DEF n

\* patternToMask makes of a signature the bytes it was made from.
LEMMA MaskOfSignature ==
  ASSUME NEW str \in Seq(Int)
  PROVE  PatternToMask(StringToSignature(str)) = Bytes(str)
<1> DEFINE n == Len(str)
           text == StringToSignature(str)
           from == MaskFrom(text)
           byte(j) == Bytes(str)[j]
           Rest(s, m) == s \in Seq(Int) /\ Len(s) = m /\ \A i \in 1..m : s[i] = byte(n - m + i)
           S == {m \in Nat : m <= n => Rest(from[5 * (n - m) + 1], m)}
<1>1. n \in Nat /\ \A j \in 1..n : byte(j) \in 0..255
  BY BytesType
<1>2. /\ text \in Seq(SignatureChars) /\ Len(text) = 5 * n
      /\ \A j \in 1..n, r \in 1..5 : text[5 * (j - 1) + r] = Written(byte(j))[r]
  BY SignatureDef
<1>3. \A j \in 1..n : /\ Written(byte(j))[1] = Backslash /\ Written(byte(j))[2] = Backslash
                      /\ Written(byte(j))[3] = "x"
                      /\ StoiHex(Written(byte(j))[4], Written(byte(j))[5]) = byte(j)
  BY <1>1, WrittenType
<1>4. /\ from[Len(text) + 1] = <<>> /\ PatternToMask(text) = from[1]
      /\ \A i \in 1..Len(text) : from[i] = Took(text, i, from[GoOn(text, i)])
      /\ \A i \in 1..(Len(text) + 1) : from[i] \in Seq(Int)
  <2> HIDE DEF text
  <2> QED
    BY <1>2, MaskDef
<1>5. Bytes(str) \in Seq(Int) /\ Len(Bytes(str)) = n
  BY BytesType
<1> HIDE DEF n, text, from, byte
<1>6. ASSUME NEW j \in 1..n
      PROVE  from[5 * (j - 1) + 1] = <<byte(j)>> \o from[5 * j + 1]
  <2> DEFINE p == 5 * (j - 1)
  <2>1. /\ p + 1 \in 1..Len(text) /\ p + 2 \in 1..Len(text) /\ (p + 2) + 3 <= Len(text)
        /\ (p + 1) + 1 = p + 2 /\ (p + 2) + 1 = p + 3 /\ (p + 2) + 2 = p + 4
        /\ (p + 2) + 3 = p + 5 /\ (p + 2) + 4 = 5 * j + 1
    BY <1>1, <1>2
  <2>2. /\ text[p + 1] = Backslash /\ text[p + 2] = Backslash /\ text[p + 3] = "x"
        /\ StoiHex(text[p + 4], text[p + 5]) = byte(j)
    BY <1>2, <1>3
  <2> HIDE DEF p
  <2>3. Backslash # "x" /\ Backslash # "?"
    BY DEF Backslash
  <2>4. ~ByteStarts(text, p + 1) /\ text[p + 1] # "?"
    BY <2>1, <2>2, <2>3 DEF ByteStarts
  <2>5. from[p + 1] = from[p + 2]
    BY <1>4, <2>1, <2>4 DEF Took, GoOn
  <2>6. ByteStarts(text, p + 2)
    BY <2>1, <2>2 DEF ByteStarts
  <2>7. from[p + 2] = <<byte(j)>> \o from[5 * j + 1]
    BY <1>4, <2>1, <2>2, <2>6 DEF Took, GoOn
  <2> QED
    BY <2>5, <2>7 DEF p
<1>7. 0 \in S
  <2>1. 5 * (n - 0) + 1 = Len(text) + 1
    BY <1>1, <1>2
  <2>2. Rest(<<>>, 0)
    BY EmptySeq
  <2> HIDE DEF Rest
  <2> QED
    BY <1>4, <2>1, <2>2
<1>8. ASSUME NEW m \in Nat, m \in S PROVE m + 1 \in S
  <2> SUFFICES ASSUME m + 1 <= n PROVE Rest(from[5 * (n - (m + 1)) + 1], m + 1)
    OBVIOUS
  <2> DEFINE j == n - m
             s == from[5 * j + 1]
             w == <<byte(j)>> \o s
  <2>1. j \in 1..n /\ j - 1 = n - (m + 1)
    BY <1>1
  <2>2. Rest(s, m)
    <3>1. m <= n
      BY <1>1
    <3> HIDE DEF Rest
    <3> QED
      BY <1>8, <3>1
  <2>3. from[5 * (n - (m + 1)) + 1] = w
    BY <1>6, <2>1
  <2> HIDE DEF s
  <2>4. byte(j) \in Int
    <3>1. \A x \in 0..255 : x \in Int
      OBVIOUS
    <3> HIDE DEF j
    <3> QED
      BY <1>1, <2>1, <3>1, Zenon
  <2>5. <<byte(j)>> \in Seq(Int) /\ Len(<<byte(j)>>) = 1 /\ <<byte(j)>>[1] = byte(j)
    BY <2>4
  <2>6. /\ w \in Seq(Int) /\ Len(w) = 1 + m
        /\ \A i \in 1..(1 + m) : w[i] = IF i <= 1 THEN <<byte(j)>>[i] ELSE s[i - 1]
    BY <2>2, <2>5, ConcatProperties
  <2> HIDE DEF w
  <2>7. ASSUME NEW i \in 1..(m + 1) PROVE w[i] = byte(n - (m + 1) + i)
    <3>1. CASE i = 1
      <4>1. n - (m + 1) + i = j
        BY <1>1, <3>1
      <4> QED
        BY <2>5, <2>6, <3>1, <4>1
    <3>2. CASE i # 1
      <4>1. i - 1 \in 1..m /\ n - m + (i - 1) = n - (m + 1) + i
        BY <1>1, <3>2
      <4>2. w[i] = s[i - 1]
        BY <2>6, <3>2
      <4> QED
        BY <2>2, <4>1, <4>2
    <3> QED
      BY <3>1, <3>2
  <2> QED
    BY <2>3, <2>6, <2>7
<1>9. Rest(from[1], n)
  <2>1. n \in S
    <3> HIDE DEF S
    <3> QED
      BY <1>1, <1>7, <1>8, SetInduction
  <2>2. 5 * (n - n) + 1 = 1
    BY <1>1
  <2> HIDE DEF Rest
  <2> QED
    BY <1>1, <2>1, <2>2
<1>10. \A i \in 1..n : from[1][i] = Bytes(str)[i]
  <2>1. \A i \in 1..n : n - n + i = i
    BY <1>1
  <2> QED
    BY <1>9, <2>1 DEF byte
<1>11. from[1] = Bytes(str)
  BY <1>5, <1>9, <1>10, SeqEqual
<1> QED
  BY <1>4, <1>11 DEF text

\* Where the bytes of a string match is where the string stands.
LEMMA SameSearch ==
  ASSUME NEW str \in Seq(Int), NEW m
  PROVE  FindPattern(m, Bytes(str)) = FirstOccurrence(str, m)
<1>1. /\ Bytes(str) \in Seq(Int) /\ Len(Bytes(str)) = Len(str)
      /\ DOMAIN str = 1..Len(str) /\ DOMAIN Bytes(str) = 1..Len(str)
      /\ \A i \in 1..Len(str) : Bytes(str)[i] = str[i] % 256 /\ Bytes(str)[i] \in 0..255
  BY BytesType, LenProperties
<1>2. str = <<>> <=> Bytes(str) = <<>>
  BY <1>1, EmptySeq
<1>3. \A a : Matches(Bytes(str), a) <=> OccursAt(str, a)
  BY <1>1 DEF Matches, OccursAt, Wildcard
<1>4. {a \in m.base .. (m.base + m.size - Len(Bytes(str))) : Matches(Bytes(str), a)}
        = Occurrences(str, m)
  BY <1>1, <1>3 DEF Occurrences
<1> QED
  BY <1>2, <1>4 DEF FindPattern, FirstOccurrence

\* A string scan finds the first place of the module where the string stands,
\* for any string, any module and any contents of the target: the signature
\* written for it (stringToSignature) is read as its very bytes (patternToMask).
THEOREM StringsAreFound ==
  ASSUME NEW str \in Seq(Int), NEW m
  PROVE  FindPattern(m, Items("BYTE_PATTERN", StringToSignature(str))) = FirstOccurrence(str, m)
BY MaskOfSignature, SameSearch DEF Items
=============================================================================
