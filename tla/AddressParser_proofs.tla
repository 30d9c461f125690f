-------------------------- MODULE AddressParser_proofs ------------------------
(***************************************************************************)
(* Proofs about AddressParser and CachedRead, for words of any size and    *)
(* texts of any length.                                                    *)
(***************************************************************************)
EXTENDS AddressParser, Recursion

-----------------------------------------------------------------------------
(***************************************************************************)
(* Words                                                                   *)
(***************************************************************************)

\* A number that is a word already is left alone by the wrapping.
LEMMA WordItself ==
  ASSUME NEW x \in Words
  PROVE  x % W = x
BY WordAssumption DEF Words

LEMMA WordSums ==
  ASSUME NEW a \in Int, NEW b \in Int
  PROVE  Plus(a, b) \in Words /\ Minus(a, b) \in Words
BY WordAssumption DEF Plus, Minus, Words

\* Quotient and remainder, and that there is no other remainder.
LEMMA Division ==
  ASSUME NEW w \in Nat \ {0}, NEW x \in Int
  PROVE  x = w * (x \div w) + (x % w) /\ x \div w \in Int /\ x % w \in 0..(w - 1)
<1>1. x = w * (x \div w) + (x % w)
  BY Z3
<1>2. x \div w \in Int /\ x % w \in 0..(w - 1)
  OBVIOUS
<1> QED
  BY <1>1, <1>2

LEMMA OneRemainder ==
  ASSUME NEW w \in Nat \ {0}, NEW q \in Int, NEW r \in 0..(w - 1)
  PROVE  (w * q + r) % w = r
OBVIOUS

\* Wrapping in between changes no sum.
LEMMA SumWraps ==
  ASSUME NEW w \in Nat \ {0}, NEW x \in Int, NEW y \in Int
  PROVE  ((x % w) + y) % w = (x + y) % w
<1> DEFINE q == x \div w
           r == x % w
<1>1. x = w * q + r /\ q \in Int /\ r \in Int
  BY Division
<1> HIDE DEF q, r
<1> DEFINE p == (r + y) \div w
           s == (r + y) % w
<1>2. r + y = w * p + s /\ p \in Int /\ s \in 0..(w - 1)
  BY <1>1, Division
<1> HIDE DEF p, s
<1>3. x + y = w * (q + p) + s
  <2>1. w * (q + p) = w * q + w * p
    BY <1>1, <1>2
  <2> QED
    BY <1>1, <1>2, <2>1
<1>4. (w * (q + p) + s) % w = s
  BY <1>1, <1>2, OneRemainder
<1>5. (x + y) % w = s
  BY <1>3, <1>4
<1> QED
  BY <1>5 DEF r, s

LEMMA SumsWrap ==
  ASSUME NEW x \in Int, NEW y \in Int
  PROVE  Plus(x % W, y) = (x + y) % W /\ Minus(x % W, y) = (x - y) % W
<1>1. -y \in Int /\ x - y = x + (-y) /\ (x % W) - y = (x % W) + (-y)
  BY WordAssumption
<1> QED
  BY <1>1, SumWraps, WordAssumption DEF Plus, Minus

\* What mem::read copies lies in the snapshot, for every snapshot and every read
\* but one sort: a read that runs over the top of the address space, of more bytes
\* than there are below the snapshot.  The first two conditions alone would let
\* more of those through, as a + n may wrap.
THEOREM ServedInside ==
  ASSUME NEW start \in Words, NEW len \in Nat, NEW a \in Words, NEW n \in Words,
         Serves(start, len, a, n)
  PROVE  Inside(start, len, a, n) \/ (n > start /\ a + n >= W)
<1> USE WordAssumption
<1>1. a >= start /\ Plus(Minus(a, start), n) <= len
  BY DEF Serves
<1>2. a - start \in Words
  BY <1>1 DEF Words
<1>3. Minus(a, start) = a - start
  BY <1>2, WordItself DEF Minus
<1>4. CASE a - start + n < W
  <2>1. a - start + n \in Words
    BY <1>1, <1>4 DEF Words
  <2>2. Plus(a - start, n) = a - start + n
    BY <2>1, WordItself DEF Plus
  <2> QED
    BY <1>1, <1>3, <2>2 DEF Inside, Words
<1>5. CASE a - start + n >= W
  BY <1>5 DEF Words
<1> QED
  BY <1>2, <1>4, <1>5 DEF Words

-----------------------------------------------------------------------------
(***************************************************************************)
(* The text, cut at its operators                                          *)
(***************************************************************************)

\* What a text may be cut into: there is always a token.
Cuts(E) == {c \in [tokens : Seq(Seq(E)), operators : Seq(E)] : Len(c.tokens) # 0}

NoCut == [tokens |-> << <<>> >>, operators |-> <<>>]

LEMMA NoCutType ==
  ASSUME NEW E
  PROVE  NoCut \in Cuts(E)
<1>1. <<>> \in Seq(E) /\ << <<>> >> \in Seq(Seq(E)) /\ Len(<< <<>> >>) = 1
  BY EmptySeq
<1> QED
  BY <1>1 DEF NoCut, Cuts

LEMMA TakePieceType ==
  ASSUME NEW E, NEW c \in Cuts(E), NEW piece \in E
  PROVE  TakePiece(c, piece) \in Cuts(E)
<1>1. /\ c = [tokens |-> c.tokens, operators |-> c.operators]
      /\ c.tokens \in Seq(Seq(E)) /\ c.operators \in Seq(E)
      /\ Len(c.tokens) \in Nat /\ Len(c.tokens) # 0
  BY LenProperties DEF Cuts
<1>2. CASE piece \in Operators
  <2>1. Append(c.operators, piece) \in Seq(E)
    BY <1>1, AppendProperties
  <2>2. /\ Append(c.tokens, <<>>) \in Seq(Seq(E))
        /\ Len(Append(c.tokens, <<>>)) = Len(c.tokens) + 1
    BY <1>1, EmptySeq, AppendProperties
  <2> QED
    BY <1>1, <1>2, <2>1, <2>2 DEF TakePiece, Cuts
<1>3. CASE piece \notin Operators
  <2> DEFINE last == Len(c.tokens)
             t    == [c.tokens EXCEPT ![last] = Append(@, piece)]
  <2>1. last \in 1..Len(c.tokens) /\ c.tokens \in [1..Len(c.tokens) -> Seq(E)]
    BY <1>1, LenProperties
  <2>2. Append(c.tokens[last], piece) \in Seq(E)
    BY <2>1, AppendProperties
  <2>3. t \in [1..Len(c.tokens) -> Seq(E)]
    BY <2>1, <2>2
  <2>4. t \in Seq(Seq(E)) /\ Len(t) = Len(c.tokens)
    <3> HIDE DEF t
    <3> QED
      BY <1>1, <2>3, FunctionIsSequence
  <2>5. TakePiece(c, piece) = [tokens |-> t, operators |-> c.operators]
    BY <1>1, <1>3 DEF TakePiece
  <2> HIDE DEF t
  <2> QED
    BY <1>1, <2>4, <2>5 DEF Cuts
<1> QED
  BY <1>2, <1>3

\* The text cut up to each of its pieces.
CutTo(text) ==
  LET cut[k \in 0..Len(text)] ==
        IF k = 0 THEN [tokens |-> << <<>> >>, operators |-> <<>>]
                 ELSE TakePiece(cut[k - 1], text[k])
  IN  cut

LEMMA CutToDef ==
  ASSUME NEW E, NEW text \in Seq(E)
  PROVE  /\ CutTo(text)[0] = NoCut /\ CutTo(text)[Len(text)] = Cut(text)
         /\ \A k \in 0..Len(text) : CutTo(text)[k] \in Cuts(E)
         /\ \A k \in 1..Len(text) : CutTo(text)[k] = TakePiece(CutTo(text)[k - 1], text[k])
<1> DEFINE Is(g) == g = [k \in 0..Len(text) |-> IF k = 0 THEN NoCut ELSE TakePiece(g[k - 1], text[k])]
           step  == [x \in Cuts(E) \X (1..Len(text)) |-> TakePiece(x[1], text[x[2]])]
<1>1. Len(text) \in Nat /\ \A k \in 1..Len(text) : text[k] \in E
  BY LenProperties, ElementOfSeq
<1>2. step \in Steps(Cuts(E), Len(text)) /\ NoCut \in Cuts(E)
  <2>1. \A u \in Cuts(E), k \in 1..Len(text) : TakePiece(u, text[k]) \in Cuts(E)
    BY <1>1, TakePieceType
  <2> QED
    BY <2>1, NoCutType DEF Steps
<1>3. PICK g : Iterates(g, Cuts(E), Len(text), NoCut, step)
  <2> HIDE DEF step
  <2> QED
    BY <1>1, <1>2, RecursionExists, Zenon
<1>4. /\ g \in [0..Len(text) -> Cuts(E)] /\ g[0] = NoCut
      /\ \A k \in 1..Len(text) : g[k] = TakePiece(g[k - 1], text[k])
  <2>1. /\ g \in [0..Len(text) -> Cuts(E)] /\ g[0] = NoCut
        /\ \A k \in 1..Len(text) : g[k] = step[<<g[k - 1], k>>]
    BY <1>3, Zenon DEF Iterates
  <2>2. ASSUME NEW k \in 1..Len(text) PROVE step[<<g[k - 1], k>>] = TakePiece(g[k - 1], text[k])
    <3>1. k - 1 \in 0..Len(text)
      BY <1>1
    <3>2. g[k - 1] \in Cuts(E)
      BY <2>1, <3>1
    <3> QED
      BY <1>1, <3>2
  <2> HIDE DEF step
  <2> QED
    BY <2>1, <2>2
<1>5. Is(g)
  BY <1>1, <1>4
<1>6. Is(CutTo(text))
  BY <1>5, Zenon DEF CutTo, NoCut
<1>7. CutTo(text)[0] = NoCut
  BY <1>1, <1>6
<1>8. ASSUME NEW k \in 1..Len(text)
      PROVE  CutTo(text)[k] = TakePiece(CutTo(text)[k - 1], text[k])
  BY <1>1, <1>6
<1>9. \A k \in 0..Len(text) : CutTo(text)[k] \in Cuts(E)
  <2>1. ASSUME NEW k \in 1..Len(text), CutTo(text)[k - 1] \in Cuts(E) PROVE CutTo(text)[k] \in Cuts(E)
    BY <1>1, <1>8, <2>1, TakePieceType
  <2>2. Keeps(CutTo(text), Cuts(E), Len(text))
    BY <1>7, <2>1, NoCutType DEF Keeps
  <2> QED
    BY <1>1, <2>2, RecursionType DEF Within
<1>10. CutTo(text)[Len(text)] = Cut(text)
  BY DEF CutTo, Cut
<1> QED
  BY <1>7, <1>8, <1>9, <1>10

LEMMA CutType ==
  ASSUME NEW E, NEW text \in Seq(E)
  PROVE  Cut(text) \in Cuts(E) /\ Len(Cut(text).tokens) \in Nat \ {0}
<1>1. Len(text) \in 0..Len(text)
  BY LenProperties
<1>2. Cut(text) \in Cuts(E)
  BY <1>1, CutToDef
<1> QED
  BY <1>2, LenProperties DEF Cuts

-----------------------------------------------------------------------------
(***************************************************************************)
(* The value of a text                                                     *)
(***************************************************************************)

\* A list of modules, the bases of which are words.
ModuleList(modules) ==
  /\ modules \in Seq({modules[i] : i \in DOMAIN modules})
  /\ \A i \in DOMAIN modules : modules[i].base \in Words

\* The first module of a name.
LEMMA FirstModule ==
  ASSUME NEW modules, NEW D, modules \in Seq(D), NEW name,
         \E i \in DOMAIN modules : modules[i].name = name
  PROVE  /\ SelectInSeq(modules, LAMBDA m : m.name = name) \in DOMAIN modules
         /\ modules[SelectInSeq(modules, LAMBDA m : m.name = name)].name = name
<1> DEFINE I == {i \in 1..Len(modules) : modules[i].name = name}
<1>1. DOMAIN modules = 1..Len(modules) /\ Len(modules) \in Nat
  BY LenProperties
<1>2. I # {} /\ I \subseteq Nat
  BY <1>1
<1>3. SelectInSeq(modules, LAMBDA m : m.name = name) = Min(I)
  BY <1>2 DEF SelectInSeq
<1> HIDE DEF I
<1>4. Min(I) \in I
  BY <1>2, LeastNumber DEF Min
<1> QED
  BY <1>1, <1>3, <1>4 DEF I

LEMMA ValueType ==
  ASSUME NEW token, NEW modules, ModuleList(modules)
  PROVE  Value(token, modules) \in Words
<1>1. 0 \in Words
  BY WordAssumption DEF Words
<1>2. ASSUME \E i \in DOMAIN modules : modules[i].name = token
      PROVE  ModuleBase(token, modules) \in Words
  BY <1>2, FirstModule DEF ModuleBase, ModuleList
<1>3. ASSUME IsValidHex(token) PROVE ToAddress(token) \in Words
  <2>1. Literals[Head(token)] \in Nat
    BY <1>3, LiteralsAssumption DEF IsValidHex
  <2> QED
    BY <2>1, WordAssumption DEF ToAddress, Words
<1> QED
  BY <1>1, <1>2, <1>3 DEF Value, ParseExport

\* What the tokens of a cut text add up to, after each of them.
Sums(cut, modules) ==
  LET sum[n \in 1..Len(cut.tokens)] ==
        LET value == Value(Trim(cut.tokens[n]), modules)
        IN  IF n = 1 THEN value ELSE Combine(cut, n, sum[n - 1], value)
  IN  sum

LEMMA SumsDef ==
  ASSUME NEW cut, Len(cut.tokens) \in Nat \ {0}, NEW modules, ModuleList(modules)
  PROVE  /\ SumOf(cut, modules) = Sums(cut, modules)[Len(cut.tokens)]
         /\ \A n \in 1..Len(cut.tokens) :
              /\ Sums(cut, modules)[n] \in Words
              /\ Sums(cut, modules)[n] =
                   IF n = 1 THEN Value(Trim(cut.tokens[n]), modules)
                   ELSE Combine(cut, n, Sums(cut, modules)[n - 1], Value(Trim(cut.tokens[n]), modules))
<1> DEFINE N     == Len(cut.tokens)
           val(n) == Value(Trim(cut.tokens[n]), modules)
           Is(g) == g = [n \in 1..N |-> IF n = 1 THEN val(n) ELSE Combine(cut, n, g[n - 1], val(n))]
           step  == [x \in Words \X (1..(N - 1)) |-> Combine(cut, x[2] + 1, x[1], val(x[2] + 1))]
<1>1. N \in Nat \ {0} /\ N - 1 \in Nat
  OBVIOUS
<1>2. \A n \in Nat : val(n) \in Words
  BY ValueType
<1> HIDE DEF val, N
<1>3. \A n \in Nat, sum \in Words : Combine(cut, n, sum, val(n)) \in Words
  <2>1. \A x \in Words : x \in Int
    BY DEF Words
  <2> QED
    BY <1>2, <2>1, WordSums DEF Combine
<1>4. step \in Steps(Words, N - 1)
  BY <1>1, <1>3 DEF Steps
<1>5. PICK h : Iterates(h, Words, N - 1, val(1), step)
  <2>1. val(1) \in Words
    BY <1>2
  <2> HIDE DEF step
  <2> QED
    BY <1>1, <1>4, <2>1, RecursionExists, Zenon
<1> DEFINE g == [n \in 1..N |-> h[n - 1]]
<1>6. /\ h \in [0..(N - 1) -> Words] /\ h[0] = val(1)
      /\ \A k \in 1..(N - 1) : h[k] = step[<<h[k - 1], k>>]
  BY <1>5 DEF Iterates
<1>7. ASSUME NEW k \in 1..(N - 1) PROVE h[k] = Combine(cut, k + 1, h[k - 1], val(k + 1))
  <2>1. k - 1 \in 0..(N - 1)
    BY <1>1
  <2>2. h[k - 1] \in Words
    BY <1>6, <2>1
  <2> QED
    BY <1>6, <2>2
<1> HIDE DEF step
<1>8. ASSUME NEW n \in 1..N
      PROVE  g[n] = IF n = 1 THEN val(n) ELSE Combine(cut, n, g[n - 1], val(n))
  <2>1. CASE n = 1
    <3>1. g[n] = h[0]
      BY <1>1, <2>1
    <3> QED
      BY <1>6, <2>1, <3>1
  <2>2. CASE n # 1
    <3>1. n - 1 \in 1..(N - 1) /\ n - 1 \in 1..N /\ (n - 1) + 1 = n
      BY <1>1, <2>2
    <3>2. g[n] = h[n - 1] /\ g[n - 1] = h[(n - 1) - 1]
      BY <3>1
    <3> HIDE DEF g
    <3> QED
      BY <1>7, <2>2, <3>1, <3>2
  <2> QED
    BY <2>1, <2>2
<1>9. Is(g)
  BY <1>8
<1> DEFINE sum == Sums(cut, modules)
<1>10. Is(sum)
  <2> DEFINE f == CHOOSE u : Is(u)
  <2>1. Is(f)
    <3> HIDE DEF Is, g
    <3> QED
      BY <1>9, Zenon
  <2>2. sum = f
    BY DEF Sums, N, val
  <2> HIDE DEF f, sum, Is
  <2> QED
    BY <2>1, <2>2
<1>11. SumOf(cut, modules) = sum[N]
  BY DEF SumOf, Sums, N
<1> HIDE DEF sum
<1>12. \A n \in 1..N : sum[n] = IF n = 1 THEN val(n) ELSE Combine(cut, n, sum[n - 1], val(n))
  BY <1>10
<1> DEFINE s == [k \in 0..(N - 1) |-> sum[k + 1]]
<1>13. Keeps(s, Words, N - 1)
  <2>1. s[0] = val(1)
    BY <1>1, <1>12
  <2>2. ASSUME NEW k \in 1..(N - 1), s[k - 1] \in Words PROVE s[k] \in Words
    <3>1. k + 1 \in 1..N /\ k + 1 # 1 /\ (k + 1) - 1 = k /\ k - 1 \in 0..(N - 1)
          /\ (k - 1) + 1 = k /\ k + 1 \in Nat /\ k \in 0..(N - 1)
      BY <1>1
    <3>2. s[k] = Combine(cut, k + 1, sum[(k + 1) - 1], val(k + 1)) /\ s[k - 1] = sum[k]
      BY <1>12, <3>1
    <3> HIDE DEF s
    <3> QED
      BY <1>3, <2>2, <3>1, <3>2
  <2> HIDE DEF s
  <2> QED
    BY <1>2, <2>1, <2>2 DEF Keeps
<1>14. ASSUME NEW n \in 1..N PROVE sum[n] \in Words
  <2>1. n - 1 \in 0..(N - 1) /\ (n - 1) + 1 = n
    BY <1>1
  <2>2. s[n - 1] \in Words
    <3> HIDE DEF s
    <3> QED
      BY <1>1, <1>13, <2>1, RecursionType DEF Within
  <2> QED
    BY <2>1, <2>2
<1> QED
  BY <1>11, <1>12, <1>14 DEF sum, N, val

\* Whatever is typed, the address bar makes a word of it (parseInput).
LEMMA ParseInputType ==
  ASSUME NEW E, NEW text \in Seq(E), NEW modules, ModuleList(modules)
  PROVE  ParseInput(text, modules) \in Words
<1>1. Len(Cut(text).tokens) \in Nat \ {0}
  BY CutType
<1>2. Len(Cut(text).tokens) \in 1..Len(Cut(text).tokens)
  BY <1>1
<1> QED
  BY <1>1, <1>2, SumsDef DEF ParseInput
-----------------------------------------------------------------------------
(***************************************************************************)
(* Blanks around a token                                                   *)
(***************************************************************************)

\* A token is trimmed to what lies between two places that are no blanks, if no
\* place outside them is one.
LEMMA TrimDef ==
  ASSUME NEW E, NEW token \in Seq(E)
  PROVE  /\ (\A i \in 1..Len(token) : token[i] = Blank) => Trim(token) = <<>>
         /\ \A a, b \in 1..Len(token) :
              /\ token[a] # Blank /\ token[b] # Blank
              /\ \A i \in 1..Len(token) : token[i] # Blank => a <= i /\ i <= b
              => Trim(token) = SubSeq(token, a, b)
<1> DEFINE I == {i \in 1..Len(token) : token[i] # Blank}
<1>1. DOMAIN token = 1..Len(token) /\ Len(token) \in Nat
  BY LenProperties
<1>2. ASSUME \A i \in 1..Len(token) : token[i] = Blank PROVE Trim(token) = <<>>
  BY <1>1, <1>2 DEF Trim
<1>3. ASSUME NEW a \in I, NEW b \in I, \A i \in I : a <= i /\ i <= b
      PROVE  Trim(token) = SubSeq(token, a, b)
  <2>1. Min(I) = a /\ Max(I) = b
    <3>1. I \subseteq Nat
      BY <1>1
    <3> HIDE DEF I
    <3>2. \A x, y \in I : x <= y /\ y <= x => x = y
      BY <3>1
    <3>3. Min(I) \in I /\ \A i \in I : Min(I) <= i
      BY <1>3 DEF Min
    <3>4. Max(I) \in I /\ \A i \in I : Max(I) >= i
      BY <1>3, <3>1 DEF Max
    <3> QED
      BY <1>3, <3>1, <3>2, <3>3, <3>4
  <2>2. I # {} /\ \E i \in DOMAIN token : token[i] # Blank
    BY <1>1, <1>3
  <2>3. SelectInSeq(token, LAMBDA c : c # Blank) = Min(I)
    BY <2>2 DEF SelectInSeq
  <2>4. SelectLastInSeq(token, LAMBDA c : c # Blank) = Max(I)
    BY <2>2 DEF SelectLastInSeq
  <2>5. Trim(token) = SubSeq(token, Min(I), Max(I))
    <3> HIDE DEF I
    <3> QED
      BY <2>2, <2>3, <2>4 DEF Trim
  <2> QED
    BY <2>1, <2>5
<1> QED
  BY <1>2, <1>3

\* A token that is not all blank has a first and a last place that is none.
LEMMA ShownEnds ==
  ASSUME NEW E, NEW token \in Seq(E), \E i \in 1..Len(token) : token[i] # Blank
  PROVE  \E a, b \in 1..Len(token) :
           /\ token[a] # Blank /\ token[b] # Blank
           /\ \A i \in 1..Len(token) : token[i] # Blank => a <= i /\ i <= b
<1> DEFINE n == Len(token)
           I == {i \in 1..n : token[i] # Blank}
           J == {n - i : i \in I}
<1>1. n \in Nat
  BY LenProperties
<1> HIDE DEF n
<1>2. I \subseteq Nat /\ I # {} /\ J \subseteq Nat /\ J # {}
  BY <1>1 DEF n
<1> HIDE DEF J
<1>3. PICK a \in I : \A i \in I : a <= i
  <2> HIDE DEF I
  <2> QED
    BY <1>2, LeastNumber
<1>4. PICK d \in J : \A j \in J : d <= j
  BY <1>2, LeastNumber
<1>5. PICK b \in I : d = n - b
  BY DEF J
<1>6. ASSUME NEW i \in I PROVE i <= b
  <2>1. n - i \in J
    BY DEF J
  <2> QED
    BY <1>1, <1>4, <1>5, <2>1
<1> QED
  BY <1>3, <1>5, <1>6 DEF n

\* What a user puts around an operator.
Gaps == Seq({Blank})

LEMMA GapType ==
  ASSUME NEW E, Blank \in E, NEW gap \in Gaps
  PROVE  /\ gap \in Seq(E) /\ Len(gap) \in Nat
         /\ \A i \in 1..Len(gap) : gap[i] = Blank
BY SeqMonotonic, LenProperties, ElementOfSeq DEF Gaps

\* Blanks behind a token do not count, and those before a word do not either.
LEMMA TrimBlanks ==
  ASSUME NEW E, Blank \in E, NEW token \in Seq(E), NEW gap \in Gaps
  PROVE  Trim(token \o gap) = Trim(token)
<1> DEFINE s == token \o gap
<1>1. gap \in Seq(E) /\ Len(gap) \in Nat /\ Len(token) \in Nat
      /\ \A i \in 1..Len(gap) : gap[i] = Blank
  BY GapType, LenProperties
<1>2. /\ s \in Seq(E) /\ Len(s) = Len(token) + Len(gap)
      /\ \A i \in 1..Len(s) : s[i] = IF i <= Len(token) THEN token[i] ELSE gap[i - Len(token)]
  BY <1>1, ConcatProperties
<1> HIDE DEF s
<1>3. /\ \A i \in 1..Len(token) : i \in 1..Len(s) /\ s[i] = token[i]
      /\ \A i \in 1..Len(s) : s[i] # Blank => i \in 1..Len(token)
  <2>1. ASSUME NEW i \in 1..Len(s), ~(i <= Len(token)) PROVE s[i] = Blank
    <3>1. i - Len(token) \in 1..Len(gap)
      BY <1>1, <1>2, <2>1
    <3> QED
      BY <1>1, <1>2, <2>1, <3>1
  <2> QED
    BY <1>1, <1>2, <2>1
<1>4. CASE \A i \in 1..Len(token) : token[i] = Blank
  <2>1. \A i \in 1..Len(s) : s[i] = Blank
    BY <1>3, <1>4
  <2> QED
    BY <1>2, <1>4, <2>1, TrimDef DEF s
<1>5. CASE \E i \in 1..Len(token) : token[i] # Blank
  <2>1. PICK a, b \in 1..Len(token) :
          /\ token[a] # Blank /\ token[b] # Blank
          /\ \A i \in 1..Len(token) : token[i] # Blank => a <= i /\ i <= b
    BY <1>5, ShownEnds
  <2>2. Trim(token) = SubSeq(token, a, b)
    BY <2>1, TrimDef
  <2>3. Trim(s) = SubSeq(s, a, b)
    <3>1. /\ a \in 1..Len(s) /\ b \in 1..Len(s) /\ s[a] # Blank /\ s[b] # Blank
          /\ \A i \in 1..Len(s) : s[i] # Blank => a <= i /\ i <= b
      BY <1>3, <2>1
    <3> QED
      BY <1>2, <3>1, TrimDef
  <2>4. SubSeq(s, a, b) = SubSeq(token, a, b)
    BY <1>1, SubSeqOfConcat1 DEF s
  <2> QED
    BY <2>2, <2>3, <2>4 DEF s
<1> QED
  BY <1>4, <1>5

\* What is no blank at its ends: a word of a term.
IsWord(E, word) ==
  /\ word \in Seq(E) /\ Len(word) # 0
  /\ word[1] # Blank /\ word[Len(word)] # Blank

LEMMA TrimWord ==
  ASSUME NEW E, Blank \in E, NEW gap \in Gaps, NEW word, IsWord(E, word)
  PROVE  Trim(gap \o word) = word
<1> DEFINE s == gap \o word
           m == Len(gap)
           n == Len(word)
           a == m + 1
           b == m + n
<1>1. gap \in Seq(E) /\ m \in Nat /\ \A i \in 1..m : gap[i] = Blank
  BY GapType
<1>2. word \in Seq(E) /\ n \in Nat \ {0} /\ word[1] # Blank /\ word[n] # Blank
  BY LenProperties DEF IsWord
<1>3. /\ s \in Seq(E) /\ Len(s) = m + n
      /\ \A i \in 1..Len(s) : s[i] = IF i <= m THEN gap[i] ELSE word[i - m]
  BY <1>1, <1>2, ConcatProperties
<1>4. SubSeq(s, a, b) = word
  <2>1. a \in (m + 1)..(m + n) /\ b \in (m + 1)..(m + n) /\ a - m = 1 /\ b - m = n
    BY <1>1, <1>2
  <2>2. SubSeq(s, a, b) = SubSeq(word, a - m, b - m)
    <3> HIDE DEF a, b
    <3> QED
      BY <1>1, <1>2, <2>1, SubSeqOfConcat2
  <2>3. SubSeq(word, 1, n) = word
    BY <1>2, SubSeqFull
  <2> QED
    BY <2>1, <2>2, <2>3
<1> HIDE DEF s, m, n
<1>5. a \in 1..Len(s) /\ b \in 1..Len(s) /\ ~(a <= m) /\ ~(b <= m) /\ a - m = 1 /\ b - m = n
  BY <1>1, <1>2, <1>3
<1>6. s[a] # Blank /\ s[b] # Blank
  BY <1>2, <1>3, <1>5
<1>7. \A i \in 1..Len(s) : s[i] # Blank => a <= i /\ i <= b
  BY <1>1, <1>2, <1>3
<1> HIDE DEF a, b
<1>8. Trim(s) = SubSeq(s, a, b)
  BY <1>3, <1>5, <1>6, <1>7, TrimDef
<1> QED
  BY <1>4, <1>8 DEF s

-----------------------------------------------------------------------------
(***************************************************************************)
(* What a term adds to a cut text                                          *)
(***************************************************************************)

\* A cut text with its last token t.
CutOf(F, t, O) == [tokens |-> Append(F, t), operators |-> O]

LEMMA TakeShape ==
  ASSUME NEW E, NEW F \in Seq(Seq(E)), NEW t \in Seq(E), NEW O \in Seq(E), NEW p \in E
  PROVE  /\ p \in Operators =>
              TakePiece(CutOf(F, t, O), p) = CutOf(Append(F, t), <<>>, Append(O, p))
         /\ p \notin Operators => TakePiece(CutOf(F, t, O), p) = CutOf(F, Append(t, p), O)
<1> DEFINE c == CutOf(F, t, O)
           n == Len(F) + 1
           s == Append(F, t)
           u == Append(t, p)
<1>1. c = [tokens |-> s, operators |-> O] /\ c.tokens = s /\ c.operators = O
  BY DEF CutOf
<1>2. u \in Seq(E) /\ Len(F) \in Nat
  BY AppendProperties, LenProperties
<1>3. s \in Seq(Seq(E)) /\ Len(s) = n /\ s[n] = t /\ \A i \in 1..Len(F) : s[i] = F[i]
  BY AppendProperties
<1> HIDE DEF c, s
<1>4. ASSUME p \in Operators
      PROVE  TakePiece(c, p) = CutOf(s, <<>>, Append(O, p))
  BY <1>1, <1>4 DEF TakePiece, CutOf
<1>5. ASSUME p \notin Operators PROVE TakePiece(c, p) = CutOf(F, u, O)
  <2> DEFINE r == [s EXCEPT ![n] = u]
             v == Append(F, u)
  <2>1. n \in 1..Len(s)
    BY <1>2, <1>3
  <2>2. r \in Seq(Seq(E)) /\ Len(r) = n /\ \A j \in 1..n : r[j] = IF j = n THEN u ELSE s[j]
    <3> HIDE DEF n, u
    <3> QED
      BY <1>2, <1>3, <2>1, ExceptSeq
  <2>3. v \in Seq(Seq(E)) /\ Len(v) = n /\ v[n] = u /\ \A i \in 1..Len(F) : v[i] = F[i]
    <3> HIDE DEF u
    <3> QED
      BY <1>2, AppendProperties
  <2>4. TakePiece(c, p) = [tokens |-> r, operators |-> O]
    BY <1>1, <1>3, <1>5 DEF TakePiece
  <2> HIDE DEF r, v, u
  <2>5. ASSUME NEW j \in 1..n PROVE r[j] = v[j]
    <3>1. CASE j = n
      BY <2>2, <2>3, <3>1
    <3>2. CASE j # n
      <4>1. j \in 1..Len(F)
        BY <1>2, <3>2
      <4> QED
        BY <1>3, <2>2, <2>3, <3>2, <4>1
    <3> QED
      BY <3>1, <3>2
  <2>6. r = v
    BY <2>2, <2>3, <2>5, SeqEqual
  <2> QED
    BY <2>4, <2>6 DEF CutOf, v
<1> QED
  BY <1>4, <1>5 DEF c, s, u

LEMMA CutAppend ==
  ASSUME NEW E, NEW text \in Seq(E), NEW p \in E
  PROVE  Cut(Append(text, p)) = TakePiece(Cut(text), p)
<1> DEFINE s == Append(text, p)
           n == Len(text)
           f == CutTo(s)
           g == CutTo(text)
<1>1. n \in Nat
  BY LenProperties
<1>2. s \in Seq(E) /\ Len(s) = n + 1 /\ s[n + 1] = p /\ \A i \in 1..n : s[i] = text[i]
  BY AppendProperties
<1> HIDE DEF s
<1>3. /\ f[0] = NoCut /\ f[Len(s)] = Cut(s)
      /\ \A k \in 1..Len(s) : f[k] = TakePiece(f[k - 1], s[k])
  BY <1>2, CutToDef
<1>4. /\ g[0] = NoCut /\ g[n] = Cut(text)
      /\ \A k \in 1..n : g[k] = TakePiece(g[k - 1], text[k])
  BY CutToDef
<1> HIDE DEF f, g, n
<1>5. StepAlike(f, g, n)
  <2>1. ASSUME NEW k \in 1..n, f[k - 1] = g[k - 1] PROVE f[k] = g[k]
    <3>1. k \in 1..Len(s)
      BY <1>1, <1>2
    <3> QED
      BY <1>2, <1>3, <1>4, <2>1, <3>1
  <2> QED
    BY <1>3, <1>4, <2>1 DEF StepAlike
<1>6. f[n] = g[n]
  <2>1. n \in 0..n
    BY <1>1
  <2> QED
    BY <1>1, <1>5, <2>1, RecursionSame DEF Alike
<1>7. n + 1 \in 1..Len(s) /\ (n + 1) - 1 = n
  BY <1>1, <1>2
<1>8. f[n + 1] = TakePiece(f[n], p)
  BY <1>2, <1>3, <1>7
<1> QED
  BY <1>2, <1>3, <1>4, <1>6, <1>8 DEF s

\* An element appended to the second of two sequences.
LEMMA ConcatAppend ==
  ASSUME NEW E, NEW s \in Seq(E), NEW t \in Seq(E), NEW e \in E
  PROVE  s \o Append(t, e) = Append(s \o t, e)
<1> DEFINE u == <<e>>
           v == s \o t
<1>1. u \in Seq(E) /\ v \in Seq(E)
  BY ConcatProperties
<1>2. Append(t, e) = t \o u /\ Append(v, e) = v \o u
  <2> HIDE DEF v
  <2> QED
    BY <1>1, AppendIsConcat
<1>3. v \o u = s \o (t \o u)
  <2> HIDE DEF u
  <2> QED
    BY <1>1, ConcatAssociative
<1> HIDE DEF u
<1> QED
  BY <1>2, <1>3

\* text, over E, is cut into the tokens F, the last token t and the operators O.
IsCut(E, text, F, t, O) ==
  /\ text \in Seq(E) /\ F \in Seq(Seq(E)) /\ t \in Seq(E) /\ O \in Seq(E)
  /\ Cut(text) = CutOf(F, t, O)

LEMMA CutOperator ==
  ASSUME NEW E, NEW text, NEW F, NEW t, NEW O, IsCut(E, text, F, t, O),
         NEW op \in E, op \in Operators
  PROVE  IsCut(E, Append(text, op), Append(F, t), <<>>, Append(O, op))
<1>1. /\ text \in Seq(E) /\ F \in Seq(Seq(E)) /\ t \in Seq(E) /\ O \in Seq(E)
      /\ Cut(text) = CutOf(F, t, O)
  BY DEF IsCut
<1>2. Cut(Append(text, op)) = TakePiece(Cut(text), op)
  BY <1>1, CutAppend
<1>3. TakePiece(CutOf(F, t, O), op) = CutOf(Append(F, t), <<>>, Append(O, op))
  BY <1>1, TakeShape
<1>4. Append(text, op) \in Seq(E) /\ Append(O, op) \in Seq(E)
  BY <1>1, AppendProperties
<1>5. Append(F, t) \in Seq(Seq(E)) /\ <<>> \in Seq(E)
  BY <1>1, AppendProperties, EmptySeq
<1> QED
  BY <1>1, <1>2, <1>3, <1>4, <1>5 DEF IsCut

LEMMA CutOther ==
  ASSUME NEW E, NEW text, NEW F, NEW t, NEW O, IsCut(E, text, F, t, O),
         NEW p \in E, p \notin Operators
  PROVE  IsCut(E, Append(text, p), F, Append(t, p), O)
<1>1. /\ text \in Seq(E) /\ F \in Seq(Seq(E)) /\ t \in Seq(E) /\ O \in Seq(E)
      /\ Cut(text) = CutOf(F, t, O)
  BY DEF IsCut
<1>2. Cut(Append(text, p)) = TakePiece(Cut(text), p)
  BY <1>1, CutAppend
<1>3. TakePiece(CutOf(F, t, O), p) = CutOf(F, Append(t, p), O)
  BY <1>1, TakeShape
<1>4. Append(text, p) \in Seq(E) /\ Append(t, p) \in Seq(E)
  BY <1>1, AppendProperties
<1> QED
  BY <1>1, <1>2, <1>3, <1>4 DEF IsCut

\* A run of pieces that are no operators makes the token at hand longer.
LEMMA CutRun ==
  ASSUME NEW E, NEW text, NEW F, NEW t, NEW O, IsCut(E, text, F, t, O),
         NEW run \in Seq(E \ Operators)
  PROVE  IsCut(E, text \o run, F, t \o run, O)
<1> DEFINE D == E \ Operators
           S == {g \in Seq(D) : IsCut(E, text \o g, F, t \o g, O)}
<1>1. text \in Seq(E) /\ t \in Seq(E)
  BY DEF IsCut
<1>2. <<>> \in S
  <2>1. text \o <<>> = text /\ t \o <<>> = t
    BY <1>1, ConcatEmptySeq
  <2>2. <<>> \in Seq(D)
    BY EmptySeq
  <2> QED
    BY <2>1, <2>2
<1>3. ASSUME NEW g \in Seq(D), NEW e \in D, g \in S
      PROVE  Append(g, e) \in S
  <2>1. e \in E /\ e \notin Operators /\ D \subseteq E
    OBVIOUS
  <2> HIDE DEF D
  <2>2. g \in Seq(E)
    BY <2>1, SeqMonotonic
  <2>3. Append(g, e) \in Seq(D)
    BY AppendProperties
  <2>4. text \o Append(g, e) = Append(text \o g, e) /\ t \o Append(g, e) = Append(t \o g, e)
    BY <1>1, <2>1, <2>2, ConcatAppend
  <2>5. IsCut(E, text \o g, F, t \o g, O)
    BY <1>3
  <2>6. IsCut(E, Append(text \o g, e), F, Append(t \o g, e), O)
    BY <2>1, <2>5, CutOther, Zenon
  <2> QED
    BY <2>3, <2>4, <2>6
<1>4. Seq(D) \subseteq S
  <2> HIDE DEF S, D
  <2> QED
    BY <1>2, <1>3, SequenceInduction
<1> QED
  BY <1>4

LEMMA GapIsRun ==
  ASSUME NEW E, Blank \in E, NEW gap \in Gaps
  PROVE  gap \in Seq(E \ Operators)
<1>1. Blank \notin Operators
  BY Zenon DEF Blank, Operators
<1> DEFINE D == E \ Operators
<1>2. Blank \in D
  BY <1>1
<1> HIDE DEF D
<1>3. gap \in Seq(D)
  BY <1>2, GapType
<1> QED
  BY <1>3 DEF D

\* A text and a term, put down piece by piece.
WithTerm(text, gap, op, word) == (Append(text \o gap, op) \o gap) \o word

LEMMA TermJoined ==
  ASSUME NEW E, NEW text \in Seq(E), NEW gap \in Seq(E), NEW op \in E, NEW word \in Seq(E)
  PROVE  text \o (gap \o <<op>> \o gap \o word) = WithTerm(text, gap, op, word)
<1> DEFINE A == Append(gap, op)
           B == A \o gap
           T1 == text \o gap
           T2 == Append(T1, op)
           T3 == T2 \o gap
<1>1. A \in Seq(E) /\ gap \o <<op>> = A
  BY AppendProperties, AppendIsConcat
<1>2. text \o A = T2
  BY ConcatAppend
<1> HIDE DEF T2, A
<1>3. B \in Seq(E)
  BY <1>1, ConcatProperties
<1>4. text \o B = T3
  <2>1. (text \o A) \o gap = text \o (A \o gap)
    BY <1>1, ConcatAssociative
  <2> QED
    BY <1>2, <2>1
<1> HIDE DEF B, T3
<1>5. text \o (B \o word) = T3 \o word
  <2>1. (text \o B) \o word = text \o (B \o word)
    BY <1>3, ConcatAssociative
  <2> QED
    BY <1>4, <2>1
<1>6. gap \o <<op>> \o gap \o word = B \o word
  BY <1>1 DEF B
<1> QED
  BY <1>5, <1>6 DEF T1, T2, T3, WithTerm

\* An operator and a word, with blanks around the operator, end the token at
\* hand and begin the next one.
LEMMA CutTerm ==
  ASSUME NEW E, Blank \in E, NEW text, NEW F, NEW t, NEW O, IsCut(E, text, F, t, O),
         NEW gap \in Gaps, NEW op \in E, op \in Operators, NEW word \in Seq(E \ Operators)
  PROVE  IsCut(E, WithTerm(text, gap, op, word),
               Append(F, t \o gap), gap \o word, Append(O, op))
<1> DEFINE T2 == Append(text \o gap, op)
           G == Append(F, t \o gap)
           Q == Append(O, op)
<1>0. gap \in Seq(E \ Operators)
  BY GapIsRun
<1>1. IsCut(E, text \o gap, F, t \o gap, O)
  BY <1>0, CutRun, Zenon
<1>2. IsCut(E, T2, G, <<>>, Q)
  BY <1>1, CutOperator, Zenon
<1> HIDE DEF T2, G, Q
<1>3. IsCut(E, T2 \o gap, G, <<>> \o gap, Q)
  BY <1>0, <1>2, CutRun, Zenon
<1>4. <<>> \o gap = gap
  BY GapType, ConcatEmptySeq
<1>5. IsCut(E, (T2 \o gap) \o word, G, gap \o word, Q)
  BY <1>3, <1>4, CutRun, Zenon
<1> QED
  BY <1>5 DEF T2, G, Q, WithTerm

-----------------------------------------------------------------------------
(***************************************************************************)
(* What a term adds to the sum                                             *)
(***************************************************************************)

\* Two cut texts that agree on the first m tokens and the operators between.
AgreeTo(c, d, m) ==
  /\ \A n \in 1..m : Trim(c.tokens[n]) = Trim(d.tokens[n])
  /\ \A n \in 1..(m - 1) : c.operators[n] = d.operators[n]

LEMMA SumsAgree ==
  ASSUME NEW c, Len(c.tokens) \in Nat \ {0}, NEW d, Len(d.tokens) \in Nat \ {0},
         NEW m \in 1..Len(c.tokens), m <= Len(d.tokens), AgreeTo(c, d, m),
         NEW modules, ModuleList(modules)
  PROVE  Sums(c, modules)[m] = Sums(d, modules)[m]
<1> DEFINE f == Sums(c, modules)
           g == Sums(d, modules)
           S == {k \in Nat : k + 1 \in 1..m => f[k + 1] = g[k + 1]}
<1>1. m \in Nat /\ \A n \in 1..m : n \in 1..Len(c.tokens) /\ n \in 1..Len(d.tokens)
  OBVIOUS
<1>2. ASSUME NEW n \in 1..m
      PROVE  /\ f[n] = IF n = 1 THEN Value(Trim(c.tokens[n]), modules)
                       ELSE Combine(c, n, f[n - 1], Value(Trim(c.tokens[n]), modules))
             /\ g[n] = IF n = 1 THEN Value(Trim(d.tokens[n]), modules)
                       ELSE Combine(d, n, g[n - 1], Value(Trim(d.tokens[n]), modules))
  BY <1>1, SumsDef
<1> HIDE DEF f, g
<1>3. 0 \in S
  <2>1. 1 \in 1..m => f[1] = g[1]
    BY <1>2 DEF AgreeTo
  <2> QED
    BY <2>1
<1>4. ASSUME NEW k \in Nat, k \in S PROVE k + 1 \in S
  <2> DEFINE n == (k + 1) + 1
  <2> SUFFICES ASSUME n \in 1..m PROVE f[n] = g[n]
    OBVIOUS
  <2>1. k + 1 \in 1..m /\ n # 1 /\ n - 1 = k + 1 /\ n - 1 \in 1..(m - 1)
    BY <1>1
  <2>2. f[k + 1] = g[k + 1]
    BY <1>4, <2>1
  <2> HIDE DEF n
  <2>3. Trim(c.tokens[n]) = Trim(d.tokens[n]) /\ c.operators[n - 1] = d.operators[n - 1]
    BY <2>1 DEF AgreeTo
  <2>4. Combine(c, n, f[n - 1], Value(Trim(c.tokens[n]), modules))
          = Combine(d, n, g[n - 1], Value(Trim(d.tokens[n]), modules))
    BY <2>1, <2>2, <2>3 DEF Combine
  <2> QED
    BY <1>2, <2>1, <2>4
<1>5. m - 1 \in S
  <2>1. m - 1 \in Nat
    BY <1>1
  <2> HIDE DEF S
  <2> QED
    BY <1>3, <1>4, <2>1, SetInduction
<1>6. (m - 1) + 1 = m /\ m \in 1..m
  BY <1>1
<1> QED
  BY <1>5, <1>6 DEF f, g

LEMMA SumFirst ==
  ASSUME NEW c, Len(c.tokens) = 1, NEW modules, ModuleList(modules)
  PROVE  SumOf(c, modules) = Value(Trim(c.tokens[1]), modules)
<1>1. Len(c.tokens) \in Nat \ {0} /\ 1 \in 1..Len(c.tokens)
  OBVIOUS
<1> QED
  BY <1>1, SumsDef

LEMMA SumTerm ==
  ASSUME NEW E, NEW text, NEW F, NEW t, NEW O, IsCut(E, text, F, t, O), Len(O) = Len(F),
         NEW s \in Seq(E), Trim(s) = Trim(t), NEW u \in Seq(E), NEW op \in E,
         NEW modules, ModuleList(modules)
  PROVE  SumOf(CutOf(Append(F, s), u, Append(O, op)), modules)
           = IF op = "+" THEN Plus(SumOf(Cut(text), modules), Value(Trim(u), modules))
                         ELSE Minus(SumOf(Cut(text), modules), Value(Trim(u), modules))
<1> DEFINE c == CutOf(F, t, O)
           G == Append(F, s)
           Q == Append(O, op)
           d == CutOf(G, u, Q)
           n == Len(F) + 1
<1>1. /\ F \in Seq(Seq(E)) /\ t \in Seq(E) /\ O \in Seq(E) /\ Cut(text) = c
  BY DEF IsCut
<1>2. Len(F) \in Nat /\ Len(O) = Len(F)
  BY <1>1, LenProperties
<1>3. /\ c.tokens = Append(F, t) /\ c.operators = O
      /\ d.tokens = Append(G, u) /\ d.operators = Q
  BY DEF CutOf
<1>4. /\ Len(c.tokens) = n /\ c.tokens[n] = t
      /\ \A i \in 1..Len(F) : c.tokens[i] = F[i]
  BY <1>1, <1>3, AppendProperties
<1>5. G \in Seq(Seq(E)) /\ Len(G) = n /\ G[n] = s /\ \A i \in 1..Len(F) : G[i] = F[i]
  BY <1>1, AppendProperties
<1>6. Q[n] = op /\ \A i \in 1..Len(F) : Q[i] = O[i]
  BY <1>1, <1>2, AppendProperties
<1> HIDE DEF G, Q, c
<1>7. /\ Len(d.tokens) = n + 1 /\ d.tokens[n + 1] = u
      /\ \A i \in 1..n : d.tokens[i] = G[i]
  BY <1>3, <1>5, AppendProperties
<1> HIDE DEF d
<1>8. AgreeTo(c, d, n)
  <2>1. ASSUME NEW i \in 1..n PROVE Trim(c.tokens[i]) = Trim(d.tokens[i])
    <3>1. CASE i = n
      BY <1>4, <1>5, <1>7, <3>1
    <3>2. CASE i # n
      <4>1. i \in 1..Len(F)
        BY <1>2, <3>2
      <4> QED
        BY <1>4, <1>5, <1>7, <4>1
    <3> QED
      BY <3>1, <3>2
  <2>2. ASSUME NEW i \in 1..(n - 1) PROVE c.operators[i] = d.operators[i]
    <3>1. i \in 1..Len(F)
      BY <1>2
    <3> QED
      BY <1>3, <1>6, <3>1
  <2> QED
    BY <2>1, <2>2 DEF AgreeTo
<1>9. n \in 1..Len(c.tokens) /\ n <= Len(d.tokens) /\ n + 1 \in 1..Len(d.tokens)
      /\ Len(c.tokens) \in Nat \ {0} /\ Len(d.tokens) \in Nat \ {0}
      /\ (n + 1) - 1 = n /\ n + 1 # 1
  BY <1>2, <1>4, <1>7
<1> HIDE DEF n
<1>10. Sums(c, modules)[n] = Sums(d, modules)[n]
  BY <1>8, <1>9, SumsAgree
<1>11. SumOf(c, modules) = Sums(c, modules)[n]
  BY <1>4, <1>9, SumsDef
<1>12. SumOf(d, modules) = Combine(d, n + 1, Sums(d, modules)[n], Value(Trim(u), modules))
  <2> DEFINE k == n + 1
  <2>1. k \in 1..Len(d.tokens) /\ k # 1 /\ k - 1 = n /\ k = Len(d.tokens) /\ d.tokens[k] = u
    BY <1>7, <1>9
  <2> HIDE DEF k
  <2>2. SumOf(d, modules) = Sums(d, modules)[k]
    BY <1>9, <2>1, SumsDef
  <2>3. Sums(d, modules)[k] = Combine(d, k, Sums(d, modules)[k - 1], Value(Trim(u), modules))
    BY <1>9, <2>1, SumsDef
  <2> QED
    BY <2>1, <2>2, <2>3 DEF k
<1> QED
  BY <1>1, <1>3, <1>6, <1>9, <1>10, <1>11, <1>12 DEF Combine, d, G, Q

-----------------------------------------------------------------------------
(***************************************************************************)
(* What words stand for                                                    *)
(***************************************************************************)

\* The words of terms: numbers that fit a word, and names that can be told.
TermWords == Numbers \cup {name \in Names : Readable(name)}

\* What a text is made of.
Pieces == Operators \cup {Blank} \cup STRING \cup DOMAIN Literals

LEMMA NumberShape ==
  ASSUME NEW word \in Numbers
  PROVE  \E v \in DOMAIN Literals :
           /\ word = <<v>> /\ Len(word) = 1 /\ DOMAIN word = {1} /\ 1..Len(word) = {1}
           /\ word[1] = v /\ Head(word) = v /\ Literals[v] < W /\ Literals[v] \in Nat
           /\ v \notin LibraryWords /\ v \notin Operators /\ v # Blank /\ v # "!"
<1>1. PICK v \in DOMAIN Literals : word = <<v>> /\ Literals[v] < W
  BY DEF Numbers
<1>2. Literals[v] \in Nat
  BY LiteralsAssumption
<1>3. v \notin LibraryWords /\ v \notin Operators /\ v # Blank /\ v # "!"
  BY SpellingAssumption, Zenon DEF Operators
<1>4. /\ Len(word) = 1 /\ DOMAIN word = {1} /\ 1..Len(word) = {1}
      /\ word[1] = v /\ Head(word) = v
  BY <1>1
<1> QED
  BY <1>1, <1>2, <1>3, <1>4

LEMMA NameShape ==
  ASSUME NEW word \in Names, Readable(word)
  PROVE  /\ word \in Seq(STRING) /\ Len(word) \in Nat \ {0} /\ DOMAIN word = 1..Len(word)
         /\ \E i \in 1..Len(word) : word[i] \in LibraryWords
         /\ \A i \in 1..Len(word) : word[i] \notin Operators /\ word[i] # "!"
         /\ word[1] # Blank /\ word[Len(word)] # Blank
<1>1. word \in Seq(STRING)
  BY NamesAssumption
<1>2. Len(word) \in Nat /\ DOMAIN word = 1..Len(word)
  BY <1>1, LenProperties
<1> QED
  BY <1>1, <1>2 DEF Readable

\* No operator is in a word, and no blank is at its ends.
LEMMA TermWordShape ==
  ASSUME NEW word \in TermWords
  PROVE  word \in Seq(Pieces \ Operators) /\ word \in Seq(Pieces) /\ IsWord(Pieces, word)
<1> DEFINE D == Pieces \ Operators
<1>0. D \subseteq Pieces
  OBVIOUS
<1>1. CASE word \in Numbers
  <2>1. PICK v \in DOMAIN Literals :
          word = <<v>> /\ Len(word) = 1 /\ word[1] = v /\ v \notin Operators /\ v # Blank
    BY <1>1, NumberShape
  <2>2. v \in D
    BY <2>1 DEF Pieces
  <2> HIDE DEF D
  <2>3. word \in Seq(D)
    BY <2>1, <2>2
  <2>4. word \in Seq(Pieces)
    BY <1>0, <2>3, SeqMonotonic
  <2>5. IsWord(Pieces, word)
    BY <2>1, <2>4 DEF IsWord
  <2> QED
    BY <2>3, <2>4, <2>5 DEF D
<1>2. CASE word \in Names /\ Readable(word)
  <2>1. /\ word \in Seq(STRING) /\ Len(word) \in Nat \ {0}
        /\ \A i \in 1..Len(word) : word[i] \notin Operators
        /\ word[1] # Blank /\ word[Len(word)] # Blank
    BY <1>2, NameShape
  <2>2. word \in [1..Len(word) -> STRING]
    BY <2>1, LenProperties
  <2>3. word \in [1..Len(word) -> D]
    BY <2>1, <2>2 DEF Pieces
  <2> HIDE DEF D
  <2>4. word \in Seq(D)
    BY <2>1, <2>3, FunctionIsSequence
  <2>5. word \in Seq(Pieces)
    BY <1>0, <2>4, SeqMonotonic
  <2>6. IsWord(Pieces, word)
    BY <2>1, <2>5 DEF IsWord
  <2> QED
    BY <2>4, <2>5, <2>6 DEF D
<1> QED
  BY <1>1, <1>2 DEF TermWords

LEMMA WordMeaning ==
  ASSUME NEW word \in TermWords, NEW modules, ModuleList(modules)
  PROVE  Value(word, modules) = Meaning(word, modules) /\ Meaning(word, modules) \in Words
<1>1. 0 \in Words
  BY WordAssumption DEF Words
<1>2. CASE word \in Numbers
  <2>1. PICK v \in DOMAIN Literals :
          /\ Len(word) = 1 /\ DOMAIN word = {1} /\ 1..Len(word) = {1}
          /\ word[1] = v /\ Head(word) = v /\ Literals[v] < W /\ Literals[v] \in Nat
          /\ v \notin LibraryWords /\ v # "!"
    BY <1>2, NumberShape
  <2>2. ~Contains(word, "!")
    BY <2>1 DEF Contains
  <2>3. ~\E i \in DOMAIN word : word[i] \in LibraryWords
    BY <2>1
  <2>4. IsValidHex(word) /\ ToAddress(word) = Literals[v]
    BY <2>1 DEF IsValidHex, ToAddress
  <2>5. Meaning(word, modules) = Literals[v] /\ Literals[v] \in Words
    BY <1>2, <2>1, WordAssumption DEF Meaning, Words
  <2> QED
    BY <2>2, <2>3, <2>4, <2>5 DEF Value
<1>3. CASE word \in Names /\ Readable(word)
  <2>1. /\ Len(word) \in Nat \ {0} /\ DOMAIN word = 1..Len(word)
        /\ \E i \in 1..Len(word) : word[i] \in LibraryWords
        /\ \A i \in 1..Len(word) : word[i] # "!"
    BY <1>3, NameShape
  <2>2. ~Contains(word, "!")
    BY <2>1 DEF Contains
  <2>3. word \notin Numbers
    BY <2>1, NumberShape
  <2>4. ~IsValidHex(word)
    <3> SUFFICES ASSUME Len(word) = 1, word[1] \in DOMAIN Literals PROVE FALSE
      <4>1. word \in Seq(STRING)
        BY <1>3, NameShape
      <4> QED
        BY <2>1, <4>1 DEF IsValidHex
    <3>1. word[1] \in LibraryWords
      BY <2>1
    <3> QED
      BY <3>1, SpellingAssumption
  <2>5. (\E i \in DOMAIN modules : modules[i].name = word) => ModuleBase(word, modules) \in Words
    BY FirstModule DEF ModuleBase, ModuleList
  <2> QED
    BY <1>1, <2>1, <2>2, <2>3, <2>4, <2>5 DEF Value, Meaning
<1> QED
  BY <1>2, <1>3 DEF TermWords

LEMMA NothingMeansNothing ==
  ASSUME NEW modules
  PROVE  Value(<<>>, modules) = 0
<1> DEFINE token == <<>>
<1>1. Len(token) = 0 /\ DOMAIN token = {} /\ 1..Len(token) = {}
  OBVIOUS
<1> HIDE DEF token
<1>2. ~Contains(token, "!")
  BY <1>1 DEF Contains
<1>3. ~IsValidHex(token)
  BY <1>1 DEF IsValidHex
<1>4. Value(token, modules) = 0
  BY <1>1, <1>2, <1>3 DEF Value
<1> QED
  BY <1>4 DEF token

-----------------------------------------------------------------------------
(***************************************************************************)
(* An expression is parsed to the sum of its terms                         *)
(***************************************************************************)

\* The sum with one term more, and all those of an expression.
After(x, term, modules) ==
  LET meaning == Meaning(term.word, modules)
  IN  IF term.sign = "+" THEN x + meaning ELSE x - meaning

Totals(terms, modules) ==
  LET total[k \in 0..Len(terms)] ==
        IF k = 0 THEN 0
        ELSE LET meaning == Meaning(terms[k].word, modules)
             IN  IF terms[k].sign = "+" THEN total[k - 1] + meaning ELSE total[k - 1] - meaning
  IN  total

LEMMA TermType ==
  ASSUME NEW term \in Terms, NEW modules, ModuleList(modules)
  PROVE  /\ term.sign \in Operators /\ term.word \in TermWords
         /\ term.sign \in Pieces
         /\ term.word \in Seq(Pieces \ Operators) /\ term.word \in Seq(Pieces)
         /\ IsWord(Pieces, term.word)
         /\ Meaning(term.word, modules) \in Int
         /\ \A x \in Int : After(x, term, modules) \in Int
<1>1. term.sign \in Operators /\ term.word \in TermWords
  BY DEF Terms, TermWords
<1>2. /\ term.word \in Seq(Pieces \ Operators) /\ term.word \in Seq(Pieces)
      /\ IsWord(Pieces, term.word)
  BY <1>1, TermWordShape
<1>3. Meaning(term.word, modules) \in Int
  <2>1. \A v \in Words : v \in Int
    BY DEF Words
  <2>2. Meaning(term.word, modules) \in Words
    BY <1>1, WordMeaning
  <2> QED
    BY <2>1, <2>2
<1>4. \A x \in Int : After(x, term, modules) \in Int
  BY <1>3 DEF After
<1> QED
  BY <1>1, <1>2, <1>3, <1>4 DEF Pieces

LEMMA TotalsDef ==
  ASSUME NEW terms \in Seq(Terms), NEW modules, ModuleList(modules)
  PROVE  /\ Totals(terms, modules)[0] = 0
         /\ Totals(terms, modules)[Len(terms)] % W = Sum(terms, modules)
         /\ \A k \in 0..Len(terms) : Totals(terms, modules)[k] \in Int
         /\ \A k \in 1..Len(terms) :
              Totals(terms, modules)[k] = After(Totals(terms, modules)[k - 1], terms[k], modules)
<1> DEFINE n == Len(terms)
           Is(g) == g = [k \in 0..n |-> IF k = 0 THEN 0 ELSE After(g[k - 1], terms[k], modules)]
           step == [x \in Int \X (1..n) |-> After(x[1], terms[x[2]], modules)]
<1>1. n \in Nat /\ \A k \in 1..n : terms[k] \in Terms
  BY LenProperties, ElementOfSeq
<1>2. step \in Steps(Int, n)
  <2>1. \A x \in Int, k \in 1..n : After(x, terms[k], modules) \in Int
    BY <1>1, TermType
  <2> QED
    BY <2>1 DEF Steps
<1>3. PICK g : Iterates(g, Int, n, 0, step)
  <2>1. 0 \in Int
    OBVIOUS
  <2> HIDE DEF step
  <2> QED
    BY <1>1, <1>2, <2>1, RecursionExists, Zenon
<1>4. /\ g \in [0..n -> Int] /\ g[0] = 0
      /\ \A k \in 1..n : g[k] = After(g[k - 1], terms[k], modules)
  <2>1. /\ g \in [0..n -> Int] /\ g[0] = 0
        /\ \A k \in 1..n : g[k] = step[<<g[k - 1], k>>]
    BY <1>3, Zenon DEF Iterates
  <2>2. ASSUME NEW k \in 1..n PROVE step[<<g[k - 1], k>>] = After(g[k - 1], terms[k], modules)
    <3>1. k - 1 \in 0..n
      BY <1>1
    <3>2. g[k - 1] \in Int
      BY <2>1, <3>1
    <3> QED
      BY <1>1, <3>2
  <2> HIDE DEF step
  <2> QED
    BY <2>1, <2>2
<1>5. Is(g)
  BY <1>1, <1>4
<1> DEFINE T == Totals(terms, modules)
<1>6. Is(T)
  <2> DEFINE f == CHOOSE u : Is(u)
  <2>1. Is(f)
    <3> HIDE DEF Is
    <3> QED
      BY <1>5, Zenon
  <2>2. T = f
    BY DEF Totals, After
  <2> HIDE DEF f, T, Is
  <2> QED
    BY <2>1, <2>2
<1>7. T[n] % W = Sum(terms, modules)
  BY DEF Sum, Totals
<1> HIDE DEF T
<1>8. T[0] = 0
  BY <1>1, <1>6
<1>9. \A k \in 1..n : T[k] = After(T[k - 1], terms[k], modules)
  BY <1>1, <1>6
<1>10. \A k \in 0..n : T[k] \in Int
  <2>1. ASSUME NEW k \in 1..n, T[k - 1] \in Int PROVE T[k] \in Int
    BY <1>1, <1>9, <2>1, TermType
  <2>2. Keeps(T, Int, n)
    BY <1>8, <2>1 DEF Keeps
  <2> QED
    BY <1>1, <2>2, RecursionType DEF Within
<1> QED
  BY <1>7, <1>8, <1>9, <1>10 DEF T

\* text is cut properly, and the sum of its tokens is x as a word.
Parsed(text, x, modules) ==
  \E F, t, O : /\ IsCut(Pieces, text, F, t, O) /\ Len(O) = Len(F)
               /\ SumOf(Cut(text), modules) = x % W

LEMMA NothingParsed ==
  ASSUME NEW modules, ModuleList(modules)
  PROVE  Parsed(<<>>, 0, modules)
<1> DEFINE e == <<>>
<1>1. e \in Seq(Pieces) /\ e \in Seq(Seq(Pieces)) /\ Len(e) = 0
  BY EmptySeq
<1>2. Cut(e) = NoCut
  <2>1. CutTo(e)[0] = NoCut /\ CutTo(e)[Len(e)] = Cut(e)
    <3> HIDE DEF e
    <3> QED
      BY <1>1, CutToDef
  <2> QED
    BY <1>1, <2>1
<1>3. NoCut = CutOf(e, e, e) /\ NoCut.tokens[1] = e /\ Len(NoCut.tokens) = 1
  BY DEF NoCut, CutOf
<1>4. Trim(e) = e
  <2>1. e \in Gaps /\ Blank \in Pieces
    BY EmptySeq DEF Gaps, Pieces
  <2>2. \A i \in 1..Len(e) : e[i] = Blank
    BY <1>1
  <2> HIDE DEF e
  <2> QED
    BY <1>1, <2>2, TrimDef DEF e
<1>5. SumOf(NoCut, modules) = 0
  BY <1>3, <1>4, SumFirst, NothingMeansNothing
<1>6. 0 % W = 0
  BY WordAssumption
<1> HIDE DEF e
<1>7. IsCut(Pieces, e, e, e, e)
  BY <1>1, <1>2, <1>3 DEF IsCut
<1> QED
  BY <1>2, <1>5, <1>6, <1>7 DEF Parsed, e

LEMMA TermParsed ==
  ASSUME NEW text, NEW x \in Int, NEW term \in Terms, NEW gap \in Gaps,
         NEW modules, ModuleList(modules), Parsed(text, x, modules)
  PROVE  Parsed(text \o Typed(term, FALSE, gap), After(x, term, modules), modules)
<1> DEFINE op   == term.sign
           word == term.word
           y    == Meaning(word, modules)
<1>1. PICK F, t, O : /\ IsCut(Pieces, text, F, t, O) /\ Len(O) = Len(F)
                     /\ SumOf(Cut(text), modules) = x % W
  BY DEF Parsed
<1>2. /\ op \in Pieces /\ op \in Operators /\ word \in Seq(Pieces \ Operators)
      /\ word \in Seq(Pieces) /\ IsWord(Pieces, word) /\ word \in TermWords
      /\ Blank \in Pieces /\ y \in Int
  BY TermType DEF Pieces
<1> HIDE DEF op, word, y
<1> DEFINE s == t \o gap
           u == gap \o word
           G == Append(F, s)
           Q == Append(O, op)
           new == WithTerm(text, gap, op, word)
<1>3. IsCut(Pieces, new, G, u, Q)
  BY <1>1, <1>2, CutTerm
<1>4. text \in Seq(Pieces) /\ t \in Seq(Pieces) /\ F \in Seq(Seq(Pieces)) /\ O \in Seq(Pieces)
  BY <1>1 DEF IsCut
<1>5. gap \in Seq(Pieces)
  BY <1>2, GapType
<1>6. text \o Typed(term, FALSE, gap) = new
  <2>1. Typed(term, FALSE, gap) = gap \o <<op>> \o gap \o word
    BY DEF Typed, op, word
  <2> HIDE DEF new
  <2>2. text \o (gap \o <<op>> \o gap \o word) = WithTerm(text, gap, op, word)
    BY <1>2, <1>4, <1>5, TermJoined
  <2> QED
    BY <2>1, <2>2 DEF new
<1> HIDE DEF new
<1>7. Trim(s) = Trim(t) /\ Trim(u) = word
  BY <1>2, <1>4, TrimBlanks, TrimWord
<1>8. s \in Seq(Pieces) /\ u \in Seq(Pieces)
  BY <1>2, <1>4, <1>5, ConcatProperties
<1>9. Len(Q) = Len(G)
  BY <1>1, <1>2, <1>4, <1>8, AppendProperties
<1> HIDE DEF s, u
<1>10. Value(Trim(u), modules) = y
  BY <1>2, <1>7, WordMeaning DEF y
<1>11. SumOf(CutOf(G, u, Q), modules) = IF op = "+" THEN Plus(x % W, y) ELSE Minus(x % W, y)
  BY <1>1, <1>2, <1>7, <1>8, <1>10, SumTerm
<1> HIDE DEF G, Q
<1>12. Cut(new) = CutOf(G, u, Q)
  BY <1>3 DEF IsCut
<1>13. SumOf(Cut(new), modules) = After(x, term, modules) % W
  <2>1. After(x, term, modules) = IF op = "+" THEN x + y ELSE x - y
    BY DEF After, op, y, word
  <2> QED
    BY <1>2, <1>11, <1>12, <2>1, SumsWrap
<1> QED
  BY <1>3, <1>6, <1>9, <1>13 DEF Parsed

\* A "+" before the first term is not written.
LEMMA FirstParsed ==
  ASSUME NEW term \in Terms, NEW gap \in Gaps, NEW modules, ModuleList(modules)
  PROVE  /\ Parsed(Typed(term, TRUE, gap), After(0, term, modules), modules)
         /\ Typed(term, TRUE, gap) \in Seq(Pieces)
<1> DEFINE op   == term.sign
           word == term.word
           y    == Meaning(word, modules)
<1>1. /\ op \in Pieces /\ op \in Operators /\ word \in Seq(Pieces \ Operators)
      /\ word \in Seq(Pieces) /\ IsWord(Pieces, word) /\ word \in TermWords
      /\ Blank \in Pieces /\ y \in Words
  BY TermType, WordMeaning DEF Pieces
<1> HIDE DEF y
<1>2. CASE op = "+"
  <2> DEFINE e == <<>>
             text == word
  <2>1. Typed(term, TRUE, gap) = text /\ text = e \o word
    BY <1>1, <1>2, ConcatEmptySeq DEF Typed
  <2>2. e \in Seq(Pieces) /\ Len(e) = 0 /\ e \in Seq(Seq(Pieces)) /\ e \in Gaps
    BY EmptySeq DEF Gaps
  <2>3. Cut(e) = CutOf(e, e, e)
    <3>1. CutTo(e)[0] = NoCut /\ CutTo(e)[Len(e)] = Cut(e)
      <4> HIDE DEF e
      <4> QED
        BY <2>2, CutToDef
    <3> QED
      BY <2>2, <3>1 DEF NoCut, CutOf
  <2> HIDE DEF e, text, op, word
  <2>4. IsCut(Pieces, e, e, e, e)
    BY <2>2, <2>3 DEF IsCut
  <2>5. IsCut(Pieces, text, e, text, e)
    <3>1. IsCut(Pieces, e \o word, e, e \o word, e)
      BY <1>1, <2>4, CutRun
    <3> QED
      BY <2>1, <3>1
  <2>6. SumOf(Cut(text), modules) = Value(Trim(text), modules)
    <3> DEFINE c == CutOf(e, text, e)
    <3>1. Cut(text) = c /\ text \in Seq(Pieces)
      BY <2>5 DEF IsCut
    <3>2. c.tokens = Append(e, text) /\ Len(c.tokens) = 1 /\ c.tokens[1] = text
      <4>1. c.tokens = Append(e, text)
        BY DEF CutOf
      <4> HIDE DEF c
      <4> QED
        BY <2>2, <3>1, <4>1, AppendProperties
    <3> HIDE DEF c
    <3> QED
      BY <3>1, <3>2, SumFirst
  <2>7. Trim(text) = word
    <3>1. Trim(e \o word) = word
      BY <1>1, <2>2, TrimWord
    <3> QED
      BY <2>1, <3>1
  <2>8. Value(Trim(text), modules) = y
    BY <1>1, <2>7, WordMeaning DEF y
  <2>9. y % W = y /\ After(0, term, modules) = y
    <3>1. After(0, term, modules) = 0 + y
      BY <1>2 DEF After, y, op, word
    <3>2. y \in Int
      BY <1>1 DEF Words
    <3> QED
      BY <1>1, <3>1, <3>2, WordItself
  <2>10. Len(e) = Len(e) /\ text \in Seq(Pieces)
    BY <2>5 DEF IsCut
  <2> QED
    BY <2>1, <2>5, <2>6, <2>8, <2>9, <2>10 DEF Parsed
<1>3. CASE op # "+"
  <2> DEFINE p == Typed(term, FALSE, gap)
  <2>1. Typed(term, TRUE, gap) = p /\ p = gap \o <<op>> \o gap \o word
    BY <1>3 DEF Typed
  <2>2. p \in Seq(Pieces)
    <3> HIDE DEF p, op, word
    <3>1. gap \in Seq(Pieces) /\ <<op>> \in Seq(Pieces) /\ word \in Seq(Pieces)
      BY <1>1, GapType
    <3> QED
      BY <2>1, <3>1, ConcatProperties
  <2> HIDE DEF p
  <2>3. Parsed(<<>> \o p, After(0, term, modules), modules)
    <3>1. Parsed(<<>>, 0, modules) /\ 0 \in Int
      BY NothingParsed
    <3> QED
      BY <3>1, TermParsed DEF p
  <2>4. <<>> \o p = p
    BY <2>2, ConcatEmptySeq
  <2> QED
    BY <2>1, <2>2, <2>3, <2>4
<1> QED
  BY <1>2, <1>3

\* Whatever numbers of a word and names that Readable admits a user adds and
\* subtracts, with or without blanks around the operators, the address bar computes
\* their sum as a word: for any number of terms, words of any width and any list of
\* modules, those with names it cannot tell included (addressParser::parseInput).
THEOREM ExpressionsAreSums ==
  ASSUME NEW terms \in Seq(Terms), NEW gap \in Gaps, NEW modules, ModuleList(modules)
  PROVE  ParseInput(Render(terms, gap), modules) = Sum(terms, modules)
<1> DEFINE n == Len(terms)
           pieces == [i \in DOMAIN terms |-> Typed(terms[i], i = 1, gap)]
           T == Totals(terms, modules)
<1>1. n \in Nat /\ DOMAIN terms = 1..n /\ \A i \in 1..n : terms[i] \in Terms
  BY LenProperties, ElementOfSeq
<1>2. ASSUME NEW i \in 1..n PROVE Typed(terms[i], i = 1, gap) \in Seq(Pieces)
  <2> DEFINE term == terms[i]
  <2>1. term \in Terms
    BY <1>1
  <2> HIDE DEF term
  <2>2. Typed(term, TRUE, gap) \in Seq(Pieces)
    BY <2>1, FirstParsed
  <2>3. Typed(term, FALSE, gap) \in Seq(Pieces)
    <3> DEFINE a == <<term.sign>>
               b == term.word
    <3>1. a \in Seq(Pieces) /\ b \in Seq(Pieces)
      BY <2>1, TermType
    <3>2. gap \in Seq(Pieces)
      BY GapType DEF Pieces
    <3>3. Typed(term, FALSE, gap) = gap \o a \o gap \o b
      BY DEF Typed
    <3> HIDE DEF a, b
    <3>4. gap \o a \in Seq(Pieces)
      BY <3>1, <3>2, ConcatProperties
    <3>5. gap \o a \o gap \in Seq(Pieces)
      BY <3>2, <3>4, ConcatProperties
    <3>6. gap \o a \o gap \o b \in Seq(Pieces)
      BY <3>1, <3>5, ConcatProperties
    <3> QED
      BY <3>3, <3>6
  <2> QED
    BY <2>2, <2>3 DEF term
<1>3. pieces \in Seq(Seq(Pieces)) /\ Len(pieces) = n
  <2>1. pieces \in [1..n -> Seq(Pieces)]
    BY <1>1, <1>2
  <2> HIDE DEF pieces, n
  <2> QED
    BY <1>1, <2>1, FunctionIsSequence
<1>4. ASSUME NEW i \in 1..n PROVE pieces[i] = Typed(terms[i], i = 1, gap)
  BY <1>1
<1> HIDE DEF pieces
<1>5. PICK g : Flattens(g, pieces, Pieces)
  BY <1>3, FlattenStepwise
<1>6. /\ g[0] = <<>> /\ g[n] = FlattenSeq(pieces)
      /\ \A k \in 1..n : g[k] = g[k - 1] \o Typed(terms[k], k = 1, gap)
  <2>1. /\ g[0] = <<>> /\ g[Len(pieces)] = FlattenSeq(pieces)
        /\ \A k \in 1..Len(pieces) : g[k] = g[k - 1] \o pieces[k]
    BY <1>5 DEF Flattens
  <2> HIDE DEF n
  <2> QED
    BY <1>3, <1>4, <2>1
<1>7. /\ T[0] = 0 /\ T[n] % W = Sum(terms, modules)
      /\ \A k \in 0..n : T[k] \in Int
      /\ \A k \in 1..n : T[k] = After(T[k - 1], terms[k], modules)
  BY TotalsDef
<1> HIDE DEF n, T
<1> DEFINE S == {k \in Nat : k \in 0..n => Parsed(g[k], T[k], modules)}
<1>8. 0 \in S
  BY <1>6, <1>7, NothingParsed
<1>9. ASSUME NEW k \in Nat, k \in S PROVE k + 1 \in S
  <2> DEFINE m == k + 1
  <2> SUFFICES ASSUME m \in 0..n PROVE Parsed(g[m], T[m], modules)
    OBVIOUS
  <2>1. m \in 1..n /\ m - 1 = k /\ k \in 0..n /\ (m = 1 <=> k = 0)
    BY <1>1
  <2>2. Parsed(g[k], T[k], modules) /\ T[k] \in Int
    BY <1>7, <1>9, <2>1
  <2> HIDE DEF m
  <2> DEFINE term == terms[m]
  <2>3. /\ term \in Terms /\ g[m] = g[k] \o Typed(term, m = 1, gap)
        /\ T[m] = After(T[k], term, modules)
    BY <1>1, <1>6, <1>7, <2>1
  <2> HIDE DEF term
  <2>4. CASE m = 1
    <3>1. Parsed(Typed(term, TRUE, gap), After(0, term, modules), modules)
          /\ Typed(term, TRUE, gap) \in Seq(Pieces)
      BY <2>3, FirstParsed
    <3>2. <<>> \o Typed(term, TRUE, gap) = Typed(term, TRUE, gap)
      BY <3>1, ConcatEmptySeq
    <3>3. g[k] = <<>> /\ T[k] = 0
      BY <1>6, <1>7, <2>1, <2>4
    <3>4. g[m] = Typed(term, TRUE, gap)
      BY <2>3, <2>4, <3>2, <3>3
    <3> QED
      BY <2>3, <3>1, <3>3, <3>4
  <2>5. CASE m # 1
    <3>1. Parsed(g[k] \o Typed(term, FALSE, gap), After(T[k], term, modules), modules)
      BY <2>2, <2>3, TermParsed
    <3> QED
      BY <2>3, <2>5, <3>1
  <2> QED
    BY <2>4, <2>5
<1>10. Parsed(g[n], T[n], modules)
  <2>1. n \in S
    <3> HIDE DEF S
    <3> QED
      BY <1>1, <1>8, <1>9, SetInduction
  <2> QED
    BY <1>1, <2>1
<1>11. Render(terms, gap) = g[n]
  BY <1>6 DEF Render, pieces
<1> QED
  BY <1>7, <1>10, <1>11 DEF Parsed, ParseInput
=============================================================================
