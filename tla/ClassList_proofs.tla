-------------------------- MODULE ClassList_proofs --------------------------
(***************************************************************************)
(* Proofs about ClassList, for any number of classes, words of any size    *)
(* and whatever the user types.                                            *)
(***************************************************************************)
EXTENDS ClassList, AddressParser_proofs, Patterns_proofs, FiniteSetTheorems

\* A class is a record with its four fields.
IsClass(c) == c = [address |-> c.address, size |-> c.size, data |-> c.data, bare |-> c.bare]

\* A list of classes.
IsList(list) == (\E S : list \in Seq(S)) /\ \A i \in 1..Len(list) : IsClass(list[i])

\* A list of classes and a preview that together own the blocks blk, each its
\* own; a bare class owns none.
Owners(list, pv, blk) ==
  /\ IsList(list)
  /\ blk = {pv.data} \cup {list[i].data : i \in {k \in 1..Len(list) : ~list[k].bare}}
  /\ \A i \in 1..Len(list) : ~list[i].bare => list[i].data # pv.data
  /\ \A i, j \in 1..Len(list) :
       i # j /\ ~list[i].bare /\ ~list[j].bare => list[i].data # list[j].data

LEMMA ListLength ==
  ASSUME NEW list, IsList(list)
  PROVE  /\ Len(list) \in Nat /\ DOMAIN list = 1..Len(list)
         /\ list = <<>> <=> Len(list) = 0
<1>1. PICK S : list \in Seq(S)
  BY DEF IsList
<1> QED
  BY <1>1, LenProperties, EmptySeq

\* A new class with a block nobody owns.
LEMMA OwnersAppend ==
  ASSUME NEW list, NEW pv, NEW blk, Owners(list, pv, blk),
         NEW a, NEW size, NEW b, b \notin blk
  PROVE  /\ Owners(Append(list, Fresh(a, size, b)), pv, blk \cup {b})
         /\ Len(Append(list, Fresh(a, size, b))) = Len(list) + 1
<1> DEFINE c == Fresh(a, size, b)
           new == Append(list, c)
           has(s, x) == \E i \in 1..Len(s) : ~s[i].bare /\ s[i].data = x
<1>1. PICK S : list \in Seq(S)
  BY DEF Owners, IsList
<1>2. list \in Seq(S \cup {c}) /\ Len(list) \in Nat
  <2>1. Len(list) \in Nat /\ list \in [1..Len(list) -> S]
    BY <1>1, LenProperties
  <2>2. list \in [1..Len(list) -> S \cup {c}]
    BY <2>1
  <2> QED
    BY <2>1, <2>2
<1>3. /\ new \in Seq(S \cup {c}) /\ Len(new) = Len(list) + 1
      /\ \A i \in 1..Len(list) : new[i] = list[i]
      /\ new[Len(list) + 1] = c
  BY <1>2, AppendProperties
<1>4. IsClass(c) /\ c.data = b /\ c.bare = FALSE
  BY DEF IsClass, Fresh
<1>5. \A i \in 1..Len(new) : i \in 1..Len(list) \/ i = Len(list) + 1
  BY <1>2, <1>3
<1>6. /\ \A i \in 1..Len(list) : i \in 1..Len(new)
      /\ \A i \in 1..Len(list) : ~list[i].bare => list[i].data \in blk /\ list[i].data # b
  BY <1>2, <1>3 DEF Owners
<1>7. Len(list) + 1 \in 1..Len(new)
  BY <1>2, <1>3
<1> HIDE DEF c, new
<1>8. blk \cup {b} = {pv.data} \cup {new[i].data : i \in {k \in 1..Len(new) : ~new[k].bare}}
  <2>1. \A x : x \in blk <=> x = pv.data \/ has(list, x)
    BY DEF Owners
  <2>2. \A x : has(new, x) <=> has(list, x) \/ x = b
    BY <1>3, <1>4, <1>5, <1>6, <1>7
  <2> QED
    BY <2>1, <2>2
<1>9. IsList(new)
  <2>1. \A i \in 1..Len(list) : IsClass(list[i])
    BY DEF Owners, IsList
  <2> QED
    BY <1>3, <1>4, <1>5, <2>1 DEF IsList
<1>10. /\ \A i \in 1..Len(new) : ~new[i].bare => new[i].data # pv.data
       /\ \A i, j \in 1..Len(new) :
            i # j /\ ~new[i].bare /\ ~new[j].bare => new[i].data # new[j].data
  <2>1. pv.data # b
    BY DEF Owners
  <2> QED
    BY <1>3, <1>4, <1>5, <1>6, <2>1 DEF Owners
<1> QED
  BY <1>3, <1>8, <1>9, <1>10 DEF Owners, new, c

\* The classes after a deleted one move up.
LEMMA ListRemove ==
  ASSUME NEW list, IsList(list), NEW k \in 1..Len(list)
  PROVE  /\ IsList(RemoveAt(list, k)) /\ Len(RemoveAt(list, k)) = Len(list) - 1
         /\ \A i \in 1..Len(RemoveAt(list, k)) :
              LET j == IF i < k THEN i ELSE i + 1
              IN  j \in 1..Len(list) /\ j # k /\ RemoveAt(list, k)[i] = list[j]
<1> DEFINE new == RemoveAt(list, k)
           old(i) == IF i < k THEN i ELSE i + 1
<1>1. PICK S : list \in Seq(S)
  BY DEF IsList
<1>2. Len(list) \in Nat /\ \A i \in 1..Len(list) : list[i] \in S
  BY <1>1, LenProperties
<1> DEFINE low  == SubSeq(list, 1, k - 1)
           high == SubSeq(list, k + 1, Len(list))
<1>3. /\ low \in Seq(S) /\ Len(low) = k - 1
      /\ \A i \in 1..(k - 1) : low[i] = list[i]
  BY <1>2, SubSeqProperties
<1>4. /\ high \in Seq(S) /\ Len(high) = Len(list) - k
      /\ \A i \in 1..(Len(list) - k) : high[i] = list[k + i]
  BY <1>2, SubSeqProperties
<1>5. /\ new \in Seq(S) /\ Len(new) = Len(list) - 1
      /\ \A i \in 1..(Len(list) - 1) : new[i] = list[old(i)]
  <2>0. new = low \o high
    BY DEF RemoveAt
  <2> HIDE DEF new, low, high
  <2>1. /\ new \in Seq(S) /\ Len(new) = Len(low) + Len(high)
        /\ \A i \in 1..(Len(low) + Len(high)) :
             new[i] = IF i <= Len(low) THEN low[i] ELSE high[i - Len(low)]
    BY <1>3, <1>4, <2>0, ConcatProperties
  <2>2. Len(low) + Len(high) = Len(list) - 1
    BY <1>2, <1>3, <1>4
  <2>3. ASSUME NEW i \in 1..(Len(list) - 1)
        PROVE  new[i] = list[old(i)]
    <3>1. CASE i < k
      <4>1. i <= Len(low) /\ i \in 1..(k - 1)
        BY <1>2, <1>3, <3>1
      <4> QED
        BY <1>3, <2>1, <2>2, <3>1, <4>1
    <3>2. CASE i >= k
      <4>1. /\ i - Len(low) \in 1..(Len(list) - k) /\ k + (i - Len(low)) = i + 1
            /\ ~(i <= Len(low))
        BY <1>2, <1>3, <3>2
      <4>2. new[i] = high[i - Len(low)]
        BY <2>1, <2>2, <4>1
      <4>3. high[i - Len(low)] = list[i + 1]
        BY <1>4, <4>1
      <4> QED
        BY <3>2, <4>2, <4>3
    <3> QED
      BY <1>2, <3>1, <3>2
  <2> QED
    BY <2>1, <2>2, <2>3
<1>6. \A i \in 1..Len(new) : old(i) \in 1..Len(list) /\ old(i) # k
  BY <1>2, <1>5
<1>7. \A i \in 1..Len(new) : new[i] = list[old(i)]
  BY <1>5
<1>8. IsList(new)
  <2>1. \A i \in 1..Len(list) : IsClass(list[i])
    BY DEF IsList
  <2> HIDE DEF new, old
  <2> QED
    BY <1>5, <1>6, <1>7, <2>1 DEF IsList
<1> QED
  BY <1>5, <1>6, <1>7, <1>8

\* A deleted class that is not bare gives its block back.
LEMMA OwnersRemove ==
  ASSUME NEW list, NEW pv, NEW blk, Owners(list, pv, blk), NEW k \in 1..Len(list), ~list[k].bare
  PROVE  Owners(RemoveAt(list, k), pv, blk \ {list[k].data})
<1> DEFINE new == RemoveAt(list, k)
           old(i) == IF i < k THEN i ELSE i + 1
<1>1. IsList(list)
  BY DEF Owners
<1>2. Len(list) \in Nat
  BY <1>1, ListLength
<1>3. /\ IsList(new) /\ Len(new) = Len(list) - 1
      /\ \A i \in 1..Len(new) : old(i) \in 1..Len(list) /\ old(i) # k /\ new[i] = list[old(i)]
  BY <1>1, ListRemove
<1>4. \A i, j \in 1..Len(new) : i # j => old(i) # old(j)
  BY <1>2, <1>3
<1>5. ASSUME NEW j \in 1..Len(list), j # k
      PROVE  \E i \in 1..Len(new) : old(i) = j
  <2>1. CASE j < k
    <3>1. j \in 1..Len(new) /\ old(j) = j
      BY <1>2, <1>3, <2>1
    <3> QED
      BY <3>1
  <2>2. CASE j > k
    <3>1. j - 1 \in 1..Len(new) /\ old(j - 1) = j
      BY <1>2, <1>3, <2>2
    <3> QED
      BY <3>1
  <2> QED
    BY <1>2, <1>5, <2>1, <2>2
<1> HIDE DEF new, old
<1>6. /\ \A i \in 1..Len(new) : ~new[i].bare => new[i].data # pv.data
      /\ \A i, j \in 1..Len(new) :
           i # j /\ ~new[i].bare /\ ~new[j].bare => new[i].data # new[j].data
  <2>1. ASSUME NEW i \in 1..Len(new), NEW j \in 1..Len(new), i # j, ~new[i].bare, ~new[j].bare
        PROVE  new[i].data # new[j].data
    <3>1. /\ old(i) \in 1..Len(list) /\ old(j) \in 1..Len(list) /\ old(i) # old(j)
          /\ new[i] = list[old(i)] /\ new[j] = list[old(j)]
      BY <1>3, <1>4, <2>1
    <3> QED
      BY <2>1, <3>1 DEF Owners
  <2> QED
    BY <1>3, <2>1 DEF Owners
<1>7. blk \ {list[k].data}
        = {pv.data} \cup {new[i].data : i \in {j \in 1..Len(new) : ~new[j].bare}}
  <2>1. ASSUME NEW x \in blk \ {list[k].data}
        PROVE  x = pv.data \/ \E i \in 1..Len(new) : ~new[i].bare /\ new[i].data = x
    <3>1. CASE x # pv.data
      <4>1. PICK j \in 1..Len(list) : ~list[j].bare /\ x = list[j].data
        BY <3>1 DEF Owners
      <4>2. PICK i \in 1..Len(new) : old(i) = j
        BY <1>5, <2>1, <4>1
      <4> QED
        BY <1>3, <4>1, <4>2
    <3> QED
      BY <3>1
  <2>2. ASSUME NEW i \in 1..Len(new), ~new[i].bare
        PROVE  new[i].data \in blk \ {list[k].data}
    <3>1. old(i) \in 1..Len(list) /\ old(i) # k /\ ~list[old(i)].bare /\ new[i] = list[old(i)]
      BY <1>3, <2>2
    <3> QED
      BY <3>1 DEF Owners
  <2>3. pv.data \in blk \ {list[k].data}
    BY DEF Owners
  <2> QED
    BY <2>1, <2>2, <2>3
<1> QED
  BY <1>3, <1>6, <1>7 DEF Owners, new

\* A class is replaced by one with the same block.
LEMMA ListReplace ==
  ASSUME NEW list, IsList(list), NEW k \in 1..Len(list), NEW c, IsClass(c)
  PROVE  /\ IsList([list EXCEPT ![k] = c]) /\ Len([list EXCEPT ![k] = c]) = Len(list)
         /\ \A i \in 1..Len(list) : [list EXCEPT ![k] = c][i] = IF i = k THEN c ELSE list[i]
<1>1. PICK S : list \in Seq(S)
  BY DEF IsList
<1> DEFINE new == [list EXCEPT ![k] = c]
<1>2. Len(list) \in Nat /\ list \in [1..Len(list) -> S]
  BY <1>1, LenProperties
<1>3. /\ DOMAIN new = 1..Len(list)
      /\ \A i \in 1..Len(list) : new[i] = IF i = k THEN c ELSE list[i]
      /\ new \in [1..Len(list) -> S \cup {c}]
  BY <1>2
<1> HIDE DEF new
<1>4. new \in Seq(S \cup {c}) /\ Len(new) = Len(list)
  BY <1>2, <1>3, LenProperties
<1>5. IsList(new)
  BY <1>3, <1>4 DEF IsList
<1> QED
  BY <1>3, <1>4, <1>5 DEF new

LEMMA OwnersReplace ==
  ASSUME NEW list, NEW pv, NEW blk, Owners(list, pv, blk), NEW k \in 1..Len(list),
         NEW c, IsClass(c), c.data = list[k].data, c.bare = list[k].bare
  PROVE  Owners([list EXCEPT ![k] = c], pv, blk) /\ Len([list EXCEPT ![k] = c]) = Len(list)
<1> DEFINE new == [list EXCEPT ![k] = c]
<1>1. /\ IsList(new) /\ Len(new) = Len(list)
      /\ \A i \in 1..Len(list) : new[i] = IF i = k THEN c ELSE list[i]
  BY ListReplace DEF Owners
<1> HIDE DEF new
<1>2. \A i \in 1..Len(list) : new[i].data = list[i].data /\ new[i].bare = list[i].bare
  BY <1>1
<1>3. {new[i].data : i \in {j \in 1..Len(new) : ~new[j].bare}}
        = {list[i].data : i \in {j \in 1..Len(list) : ~list[j].bare}}
  BY <1>1, <1>2
<1>4. Owners(new, pv, blk)
  BY <1>1, <1>2, <1>3 DEF Owners
<1> QED
  BY <1>1, <1>4 DEF new

\* A class that moves, or changes its size, keeps its block.
LEMMA OwnersMove ==
  ASSUME NEW list, NEW pv, NEW blk, Owners(list, pv, blk), NEW k \in 1..Len(list), NEW a
  PROVE  /\ Owners([list EXCEPT ![k].address = a], pv, blk)
         /\ Len([list EXCEPT ![k].address = a]) = Len(list)
<1>1. IsClass(list[k])
  BY DEF Owners, IsList
<1>2. PICK c : c = [list[k] EXCEPT !.address = a]
  OBVIOUS
<1>3. c = [address |-> a, size |-> list[k].size, data |-> list[k].data, bare |-> list[k].bare]
  BY <1>1, <1>2 DEF IsClass
<1>4. IsClass(c) /\ c.data = list[k].data /\ c.bare = list[k].bare
  BY <1>3 DEF IsClass
<1>5. [list EXCEPT ![k].address = a] = [list EXCEPT ![k] = c]
  BY <1>2
<1> QED
  BY <1>4, <1>5, OwnersReplace

LEMMA OwnersResize ==
  ASSUME NEW list, NEW pv, NEW blk, Owners(list, pv, blk), NEW k \in 1..Len(list), NEW size
  PROVE  /\ Owners([list EXCEPT ![k].size = size], pv, blk)
         /\ Len([list EXCEPT ![k].size = size]) = Len(list)
<1>1. IsClass(list[k])
  BY DEF Owners, IsList
<1>2. PICK c : c = [list[k] EXCEPT !.size = size]
  OBVIOUS
<1>3. c = [address |-> list[k].address, size |-> size, data |-> list[k].data, bare |-> list[k].bare]
  BY <1>1, <1>2 DEF IsClass
<1>4. IsClass(c) /\ c.data = list[k].data /\ c.bare = list[k].bare
  BY <1>3 DEF IsClass
<1>5. [list EXCEPT ![k].size = size] = [list EXCEPT ![k] = c]
  BY <1>2
<1> QED
  BY <1>4, <1>5, OwnersReplace

\* A class that loses all its nodes gives its block back and keeps its place.
LEMMA OwnersEmpty ==
  ASSUME NEW list, NEW pv, NEW blk, Owners(list, pv, blk), NEW k \in 1..Len(list), ~list[k].bare
  PROVE  /\ Owners([list EXCEPT ![k].bare = TRUE], pv, blk \ {list[k].data})
         /\ Len([list EXCEPT ![k].bare = TRUE]) = Len(list)
<1>1. IsClass(list[k])
  BY DEF Owners, IsList
<1>2. PICK c : c = [list[k] EXCEPT !.bare = TRUE]
  OBVIOUS
<1>3. c = [address |-> list[k].address, size |-> list[k].size, data |-> list[k].data, bare |-> TRUE]
  BY <1>1, <1>2 DEF IsClass
<1>4. IsClass(c) /\ c.bare = TRUE
  BY <1>3 DEF IsClass
<1>5. [list EXCEPT ![k].bare = TRUE] = [list EXCEPT ![k] = c]
  BY <1>2
<1> DEFINE new == [list EXCEPT ![k] = c]
<1>6. /\ IsList(new) /\ Len(new) = Len(list)
      /\ \A i \in 1..Len(list) : new[i] = IF i = k THEN c ELSE list[i]
  BY <1>4, ListReplace DEF Owners
<1> HIDE DEF new
<1>7. \A i \in 1..Len(new) : ~new[i].bare <=> i # k /\ ~list[i].bare
  BY <1>4, <1>6
<1>8. blk \ {list[k].data}
        = {pv.data} \cup {new[i].data : i \in {j \in 1..Len(new) : ~new[j].bare}}
  <2>1. ASSUME NEW x \in blk \ {list[k].data}, x # pv.data
        PROVE  \E i \in 1..Len(new) : ~new[i].bare /\ new[i].data = x
    <3>1. PICK j \in 1..Len(list) : ~list[j].bare /\ x = list[j].data
      BY <2>1 DEF Owners
    <3>2. j # k
      BY <2>1, <3>1
    <3> QED
      BY <1>6, <1>7, <3>1, <3>2
  <2>2. ASSUME NEW i \in 1..Len(new), ~new[i].bare
        PROVE  new[i].data \in blk \ {list[k].data}
    <3>1. i \in 1..Len(list) /\ i # k /\ ~list[i].bare /\ new[i] = list[i]
      BY <1>6, <1>7, <2>2
    <3> QED
      BY <3>1 DEF Owners
  <2>3. pv.data \in blk \ {list[k].data}
    BY DEF Owners
  <2> QED
    BY <2>1, <2>2, <2>3
<1>9. Owners(new, pv, blk \ {list[k].data})
  BY <1>6, <1>7, <1>8 DEF Owners
<1> QED
  BY <1>5, <1>6, <1>9 DEF new

\* The preview gets a block of its own for the one it gives back.
LEMMA OwnersPreview ==
  ASSUME NEW list, NEW pv, NEW blk, Owners(list, pv, blk),
         NEW size, NEW b, b \notin blk \ {pv.data}
  PROVE  Owners(list, Fresh(0, size, b), (blk \ {pv.data}) \cup {b})
<1>1. /\ blk = {pv.data} \cup {list[i].data : i \in {k \in 1..Len(list) : ~list[k].bare}}
      /\ \A i \in 1..Len(list) : ~list[i].bare => list[i].data # pv.data
  BY DEF Owners
<1>2. blk \ {pv.data} = {list[i].data : i \in {k \in 1..Len(list) : ~list[k].bare}}
  BY <1>1
<1>3. \A i \in 1..Len(list) : ~list[i].bare => list[i].data # b
  BY <1>2
<1>4. Fresh(0, size, b).data = b
  BY DEF Fresh
<1> QED
  BY <1>2, <1>3, <1>4 DEF Owners

\* The preview that shows another place keeps its block.
LEMMA OwnersShow ==
  ASSUME NEW list, NEW pv, NEW blk, Owners(list, pv, blk), NEW a, NEW size
  PROVE  Owners(list, Fresh(a, size, pv.data), blk)
<1>1. Fresh(a, size, pv.data).data = pv.data
  BY DEF Fresh
<1> QED
  BY <1>1 DEF Owners

\* The blocks in use are one more than the classes that have nodes.
LEMMA OwnersCount ==
  ASSUME NEW list, NEW pv, NEW blk, Owners(list, pv, blk)
  PROVE  Cardinality(blk) = Cardinality({k \in 1..Len(list) : ~list[k].bare}) + 1
<1> DEFINE kept == {k \in 1..Len(list) : ~list[k].bare}
           owned == {list[i].data : i \in kept}
           f == [i \in kept |-> list[i].data]
<1>1. Len(list) \in Nat
  BY ListLength DEF Owners
<1>2. IsFiniteSet(kept)
  <2>1. IsFiniteSet(1..Len(list))
    BY <1>1, FS_Interval
  <2> QED
    BY <2>1, FS_Subset
<1>3. f \in Bijection(kept, owned)
  <2>1. f \in [kept -> owned]
    OBVIOUS
  <2>2. \A i, j \in kept : f[i] = f[j] => i = j
    BY DEF Owners
  <2>3. \A x \in owned : \E i \in kept : f[i] = x
    OBVIOUS
  <2> QED
    BY <2>1, <2>2, <2>3 DEF Bijection, Injection, Surjection, IsInjective
<1> HIDE DEF f
<1>4. IsFiniteSet(owned) /\ Cardinality(owned) = Cardinality(kept)
  <2>1. ExistsBijection(kept, owned)
    BY <1>3 DEF ExistsBijection
  <2> HIDE DEF kept, owned
  <2> QED
    BY <1>2, <2>1, FS_Bijection
<1>5. blk = owned \cup {pv.data} /\ pv.data \notin owned
  BY DEF Owners
<1> HIDE DEF kept, owned
<1>6. Cardinality(blk) = Cardinality(owned) + 1
  BY <1>4, <1>5, FS_AddElement, Zenon
<1> QED
  BY <1>4, <1>6, Zenon DEF kept

-----------------------------------------------------------------------------
(* The list, the selection and the blocks *)

\* The phases in which the selected class is used.
InFrame == upc \in {"address", "nodes"} => classes # <<>>

\* Once a block was given back twice, nothing is said of the blocks.
ListInv ==
  /\ IsList(classes) /\ (misused \/ Owners(classes, preview, blocks))
  /\ selected \in Nat /\ SelectedExists /\ InFrame

LEMMA ListInit == Init => ListInv
<1> SUFFICES ASSUME Init PROVE ListInv
  OBVIOUS
<1>1. PICK b \in Blocks, c \in Blocks :
        /\ b # c /\ blocks = {b, c}
        /\ preview = Fresh(0, PreviewSize, b)
        /\ classes = <<Fresh(0, FreshSize, c)>>
  BY DEF Init
<1> DEFINE k == Fresh(0, FreshSize, c)
<1>2. Len(classes) = 1 /\ classes[1] = k /\ DOMAIN classes = 1..1 /\ classes \in Seq({k})
  BY <1>1
<1>3. /\ IsClass(k) /\ k.data = c /\ k.bare = FALSE
      /\ preview.data = b
  BY <1>1 DEF IsClass, Fresh
<1>4. \A i \in 1..Len(classes) : i = 1
  BY <1>2
<1>5. IsList(classes)
  BY <1>2, <1>3, <1>4 DEF IsList
<1>6. {classes[i].data : i \in {j \in 1..Len(classes) : ~classes[j].bare}} = {c}
  BY <1>2, <1>3, <1>4
<1>7. Owners(classes, preview, blocks)
  BY <1>1, <1>2, <1>3, <1>4, <1>5, <1>6 DEF Owners
<1>8. selected = 0 /\ classes # <<>>
  BY <1>2 DEF Init
<1> QED
  BY <1>2, <1>5, <1>7, <1>8 DEF ListInv, SelectedExists, Chosen, InFrame

\* What a step has to show: who owns what, and where the selection is.
LEMMA ListKept ==
  ASSUME Owners(classes', preview', blocks') \/ (IsList(classes') /\ misused'),
         selected' \in Nat,
         IF Len(classes') = 0 THEN selected' = 0 ELSE selected' + 1 \in 1..Len(classes'),
         upc' \in {"address", "nodes"} => Len(classes') # 0
  PROVE  ListInv'
<1>1. IsList(classes')
  BY DEF Owners
<1>2. /\ Len(classes') \in Nat /\ DOMAIN classes' = 1..Len(classes')
      /\ classes' = <<>> <=> Len(classes') = 0
  BY <1>1, ListLength
<1> QED
  BY <1>1, <1>2 DEF ListInv, SelectedExists, Chosen, InFrame

\* The selection in numbers.
LEMMA Selection ==
  ASSUME ListInv
  PROVE  /\ Len(classes) \in Nat /\ DOMAIN classes = 1..Len(classes)
         /\ classes = <<>> <=> Len(classes) = 0
         /\ selected \in Nat
         /\ IF Len(classes) = 0 THEN selected = 0 ELSE selected + 1 \in 1..Len(classes)
         /\ upc \in {"address", "nodes"} => Len(classes) # 0
<1>1. /\ Len(classes) \in Nat /\ DOMAIN classes = 1..Len(classes)
      /\ classes = <<>> <=> Len(classes) = 0
  BY ListLength DEF ListInv
<1>2. IF Len(classes) = 0 THEN selected = 0 ELSE selected + 1 \in 1..Len(classes)
  BY <1>1 DEF ListInv, SelectedExists, Chosen
<1> QED
  BY <1>1, <1>2 DEF ListInv, InFrame

\* The list on the left: looking, selecting, a new class, a deleted or exported one.
LEMMA ListWindow ==
  ASSUME ListInv, ~misused,
         \/ LookAtList \/ NewClass
         \/ \E i \in 1..MaxClasses : Select(i) \/ Delete(i) \/ ExportBare(i)
  PROVE  ListInv'
<1>0. Owners(classes, preview, blocks) /\ IsList(classes)
  BY DEF ListInv
<1>1. CASE LookAtList
  BY <1>0, <1>1, Selection, ListKept DEF LookAtList, AfterList, listVars, viewVars, heapVars
<1>2. CASE NewClass
  <2>1. PICK b \in Blocks \ blocks :
          /\ blocks' = blocks \cup {b}
          /\ classes' = Append(classes, Fresh(0, FreshSize, b))
    BY <1>2 DEF NewClass, Malloc, Restructure
  <2>2. Owners(classes', preview', blocks') /\ Len(classes') = Len(classes) + 1
    BY <1>0, <1>2, <2>1, OwnersAppend DEF NewClass, viewVars
  <2> QED
    BY <1>2, <2>2, Selection, ListKept DEF NewClass
<1>3. ASSUME NEW i \in 1..MaxClasses, Select(i)
      PROVE  ListInv'
  <2>1. /\ UNCHANGED <<classes, preview, blocks>> /\ i \in 1..Len(classes) /\ selected' = i - 1
        /\ upc' = IF classes' = <<>> THEN "tools" ELSE "address"
    BY <1>3, Selection DEF Select, AfterList, viewVars, heapVars
  <2> QED
    BY <1>0, <2>1, Selection, ListKept
<1>4. ASSUME NEW i \in 1..MaxClasses, Delete(i)
      PROVE  ListInv'
  <2>1. /\ i \in 1..Len(classes) /\ UNCHANGED preview
        /\ blocks' = blocks \ {classes[i].data} /\ classes' = RemoveAt(classes, i)
        /\ misused' = (misused \/ classes[i].bare)
        /\ upc' = IF classes' = <<>> THEN "tools" ELSE "address"
        /\ selected' = IF selected > 0 /\ selected > Len(classes) - 2 THEN selected - 1 ELSE selected
    BY <1>4, Selection DEF Delete, GiveBack, Restructure, AfterList, SelectedAfterDelete, viewVars
  <2>2. IsList(classes') /\ Len(classes') = Len(classes) - 1
    BY <1>0, <2>1, ListRemove
  <2>3. Owners(classes', preview', blocks') \/ misused'
    BY <1>0, <2>1, OwnersRemove
  <2>4. classes' = <<>> <=> Len(classes') = 0
    BY <2>2, ListLength
  <2>5. /\ selected' \in Nat
        /\ IF Len(classes') = 0 THEN selected' = 0 ELSE selected' + 1 \in 1..Len(classes')
    BY <2>1, <2>2, Selection
  <2> QED
    BY <2>1, <2>2, <2>3, <2>4, <2>5, ListKept
<1>5. ASSUME NEW i \in 1..MaxClasses, ExportBare(i)
      PROVE  ListInv'
  <2>1. /\ UNCHANGED <<classes, selected>> /\ misused'
        /\ upc' = IF classes' = <<>> THEN "tools" ELSE "address"
    BY <1>5 DEF ExportBare, GiveBack, AfterList, listVars
  <2> QED
    BY <1>0, <2>1, Selection, ListKept
<1> QED
  BY <1>1, <1>2, <1>3, <1>4, <1>5

\* The end of drawNodes leaves the list alone.
LEMMA PreviewReset ==
  ASSUME NEW list, NEW blk, Owners(list, preview, blk), ResetPreview(blk)
  PROVE  Owners(list, preview', blocks')
BY OwnersPreview DEF ResetPreview

\* The selected class: the address bar, the menus of its nodes, its pointers.
LEMMA SelectedWindow ==
  ASSUME ListInv, ~misused,
         \/ LeaveAddress \/ LookAtNodes \/ DeleteAllNodes \/ DrawBare
         \/ \E text \in Texts : EnterAddress(text)
         \/ \E size \in Sizes : Edit(size)
         \/ \E num \in Contents : HoverPointer(num) \/ OpenPointer(num)
  PROVE  ListInv'
<1>0. Owners(classes, preview, blocks)
  BY DEF ListInv
<1>1. CASE LeaveAddress \/ DrawBare
  BY <1>0, <1>1, Selection, ListKept DEF LeaveAddress, DrawBare, listVars, viewVars, heapVars
<1>2. CASE LookAtNodes
  <2>1. UNCHANGED <<classes, selected>> /\ upc' = "tools" /\ Owners(classes', preview', blocks')
    BY <1>0, <1>2, PreviewReset DEF LookAtNodes, listVars
  <2> QED
    BY <2>1, Selection, ListKept
<1>3. ASSUME NEW text \in Texts, EnterAddress(text)
      PROVE  ListInv'
  <2> DEFINE a == ParseInput(text, Modules)
  <2>1. /\ Chosen \in 1..Len(classes) /\ UNCHANGED <<selected, preview, blocks>>
        /\ classes' = classes \/ classes' = [classes EXCEPT ![Chosen].address = a]
    BY <1>3, Selection DEF EnterAddress, UpdateAddress, viewVars, heapVars
  <2> HIDE DEF a
  <2>2. Owners(classes', preview', blocks') /\ Len(classes') = Len(classes)
    <3>1. CASE classes' = [classes EXCEPT ![Chosen].address = a]
      <4>1. Owners(classes', preview, blocks) /\ Len(classes') = Len(classes)
        BY <1>0, <2>1, <3>1, OwnersMove
      <4> QED
        BY <2>1, <4>1
    <3>2. CASE classes' = classes
      BY <1>0, <2>1, <3>2
    <3> QED
      BY <2>1, <3>1, <3>2
  <2> QED
    BY <2>1, <2>2, Selection, ListKept
<1>4. ASSUME NEW size \in Sizes, Edit(size)
      PROVE  ListInv'
  <2>1. /\ Chosen \in 1..Len(classes) /\ UNCHANGED selected /\ upc' = "tools"
        /\ classes' = [classes EXCEPT ![Chosen].size = size]
    BY <1>4, Selection DEF Edit, Chosen
  <2>2. Owners(classes, preview', blocks')
    BY <1>0, <1>4, PreviewReset DEF Edit
  <2>3. Owners(classes', preview', blocks') /\ Len(classes') = Len(classes)
    BY <2>1, <2>2, OwnersResize
  <2> QED
    BY <2>1, <2>3, Selection, ListKept
<1>5. CASE DeleteAllNodes
  <2> DEFINE new == [classes EXCEPT ![Chosen].bare = TRUE]
             rest == blocks \ {classes[Chosen].data}
  <2>1. /\ Chosen \in 1..Len(classes) /\ UNCHANGED selected /\ upc' = "tools"
        /\ ~classes[Chosen].bare /\ classes' = new /\ ResetPreview(rest)
    BY <1>5, Selection DEF DeleteAllNodes, HasNodes, Chosen
  <2>2. Owners(new, preview, rest) /\ Len(new) = Len(classes)
    BY <1>0, <2>1, OwnersEmpty
  <2> HIDE DEF new, rest
  <2>3. Owners(new, preview', blocks')
    BY <2>1, <2>2, PreviewReset
  <2> QED
    BY <2>1, <2>2, <2>3, Selection, ListKept
<1>6. ASSUME NEW num \in Contents, Hover(num)
      PROVE  Owners(classes, preview', blocks)
  BY <1>0, <1>6, OwnersShow DEF Hover
<1>7. ASSUME NEW num \in Contents, HoverPointer(num)
      PROVE  ListInv'
  <2>1. UNCHANGED <<classes, selected, blocks>> /\ upc' = "tools" /\ Owners(classes', preview', blocks')
    BY <1>6, <1>7 DEF HoverPointer, listVars, heapVars
  <2> QED
    BY <2>1, Selection, ListKept
<1>8. ASSUME NEW num \in Contents, OpenPointer(num)
      PROVE  ListInv'
  <2>1. upc' = "tools" /\ Owners(classes, preview', blocks)
    BY <1>6, <1>8 DEF OpenPointer
  <2>2. CASE ClassesAt(num) # {}
    <3>1. UNCHANGED <<classes, blocks>> /\ selected' = Min(ClassesAt(num)) - 1
      BY <1>8, <2>2 DEF OpenPointer
    <3>2. ClassesAt(num) \subseteq 1..Len(classes) /\ Min(ClassesAt(num)) \in 1..Len(classes)
      <4>1. ClassesAt(num) \subseteq 1..Len(classes)
        BY Selection DEF ClassesAt
      <4>2. ClassesAt(num) \subseteq Nat
        BY <4>1, Selection
      <4> QED
        BY <2>2, <4>1, <4>2, LeastExists
    <3> HIDE DEF ClassesAt
    <3> QED
      BY <2>1, <3>1, <3>2, Selection, ListKept
  <2>3. CASE ClassesAt(num) = {}
    <3>1. PICK b \in Blocks \ blocks :
            /\ blocks' = blocks \cup {b}
            /\ classes' = Append(classes, Fresh(num, FreshSize, b))
      BY <1>8, <2>3 DEF OpenPointer, Malloc, Restructure
    <3>2. selected' = Len(classes)
      BY <1>8, <2>3 DEF OpenPointer
    <3>3. Owners(classes', preview', blocks') /\ Len(classes') = Len(classes) + 1
      BY <2>1, <3>1, OwnersAppend
    <3> QED
      BY <2>1, <3>2, <3>3, Selection, ListKept
  <2> QED
    BY <2>2, <2>3
<1> QED
  BY <1>1, <1>2, <1>3, <1>4, <1>5, <1>7, <1>8

\* The tool windows, the memory thread and the server thread.
LEMMA OtherThreads ==
  ASSUME ListInv, ~misused,
         \/ NoTool \/ CloseResults \/ ClickMatch \/ ClickMatchWithoutClass
         \/ \E str \in Strings, answered \in BOOLEAN : ScanString(str, answered)
         \/ \E text \in Signatures, answered \in BOOLEAN : ScanSignature(text, answered)
         \/ \E text \in Signatures : ScanBadSignature(text)
         \/ StartWalk \/ MemoryStep \/ FailRead \/ EndTornWalk \/ InitClasses
  PROVE  ListInv'
<1>0. Owners(classes, preview, blocks)
  BY DEF ListInv
<1>1. ASSUME UNCHANGED <<classes, selected, preview, blocks>>, upc' \in {"list", "tools", upc}
      PROVE  ListInv'
  BY <1>0, <1>1, Selection, ListKept
<1>2. CASE \/ NoTool \/ CloseResults \/ ClickMatchWithoutClass
           \/ \E str \in Strings, answered \in BOOLEAN : ScanString(str, answered)
           \/ \E text \in Signatures, answered \in BOOLEAN : ScanSignature(text, answered)
           \/ \E text \in Signatures : ScanBadSignature(text)
  BY <1>1, <1>2
  DEF NoTool, CloseResults, ClickMatchWithoutClass, ScanString, ScanSignature, ScanBadSignature,
      listVars, viewVars, heapVars
<1>3. CASE StartWalk \/ MemoryStep \/ FailRead \/ EndTornWalk
  BY <1>1, <1>3
  DEF StartWalk, MemoryStep, WalkOn, EndWalk, Read, FailRead, EndTornWalk, vars, listVars, viewVars,
      heapVars
<1>4. CASE ClickMatch
  <2>1. /\ Chosen \in 1..Len(classes) /\ UNCHANGED <<selected, preview, blocks>> /\ upc' = "list"
        /\ classes' = classes \/ classes' = [classes EXCEPT ![Chosen].address = scan.found]
    BY <1>4, Selection DEF ClickMatch, UpdateAddress, viewVars, heapVars
  <2>2. CASE classes' = classes
    BY <1>1, <2>1, <2>2
  <2>3. CASE classes' = [classes EXCEPT ![Chosen].address = scan.found]
    <3>1. Owners(classes', preview, blocks) /\ Len(classes') = Len(classes)
      BY <1>0, <2>1, <2>3, OwnersMove
    <3> QED
      BY <2>1, <3>1, Selection, ListKept
  <2> QED
    BY <2>1, <2>2, <2>3
<1>5. CASE InitClasses
  <2>1. PICK b \in Blocks \ blocks :
          /\ blocks' = blocks \cup {b}
          /\ classes' = <<Fresh(0, FreshSize, b)>>
    BY <1>5 DEF InitClasses, Malloc, Restructure
  <2>2. classes' = Append(classes, Fresh(0, FreshSize, b)) /\ classes = <<>>
    BY <1>5, <2>1 DEF InitClasses
  <2>3. blocks' = blocks \cup {b} /\ b \notin blocks
    BY <2>1
  <2>4. Owners(classes', preview, blocks') /\ Len(classes') = Len(classes) + 1
    <3> DEFINE new == Append(classes, Fresh(0, FreshSize, b))
    <3>1. Owners(new, preview, blocks \cup {b}) /\ Len(new) = Len(classes) + 1
      BY <1>0, <2>3, OwnersAppend
    <3> HIDE DEF new
    <3>2. classes' = new
      BY <2>2 DEF new
    <3> QED
      BY <2>3, <3>1, <3>2
  <2>5. UNCHANGED <<selected, preview, upc>>
    BY <1>5 DEF InitClasses, viewVars
  <2> QED
    BY <2>2, <2>4, <2>5, Selection, ListKept
<1> QED
  BY <1>2, <1>3, <1>4, <1>5

LEMMA ListStep ==
  ASSUME ListInv, [Next]_vars
  PROVE  ListInv'
<1>1. CASE UNCHANGED vars
  BY <1>1 DEF vars, listVars, viewVars, heapVars, ListInv, SelectedExists, Chosen, InFrame
<1>2. CASE Next /\ ~Over
  <2>1. ~misused
    BY <1>2 DEF Over
  <2> QED
    BY <1>2, <2>1, ListWindow, SelectedWindow, OtherThreads DEF Next, UiStep, UiFault, Halted
<1> QED
  BY <1>1, <1>2 DEF Next, Halted

LEMMA ListAlways == Spec => []ListInv
BY ListInit, ListStep, PTL DEF Spec

\* However classes are made, deleted, opened and replaced, by two threads: the
\* selection is an index of the list as long as the list has a class.
THEOREM SelectionValid == Spec => []SelectedExists
<1>1. ListInv => SelectedExists
  BY DEF ListInv
<1> QED
  BY <1>1, ListAlways, PTL

\* Each class that has nodes, and the preview, own a block of their own, and no
\* block is lost, for any number of classes, some of them emptied: the copies
\* uClass makes of itself never share one.  It ends where an emptied class is
\* deleted or exported, which gives back a block that is not its own.
THEOREM BlocksOwned == Spec => []OwnBlocks
<1>1. ListInv => OwnBlocks
  <2> SUFFICES ASSUME ListInv, ~misused
               PROVE  /\ blocks = {preview.data} \cup {classes[i].data : i \in Kept}
                      /\ Cardinality(blocks) = Cardinality(Kept) + 1
    BY DEF OwnBlocks
  <2>1. Owners(classes, preview, blocks)
    BY DEF ListInv
  <2>2. Kept = {k \in 1..Len(classes) : ~classes[k].bare}
    BY Selection DEF Kept
  <2>3. Cardinality(blocks) = Cardinality(Kept) + 1
    BY <2>1, <2>2, OwnersCount, Zenon
  <2> QED
    BY <2>1, <2>2, <2>3 DEF Owners
<1> QED
  BY <1>1, ListAlways, PTL

-----------------------------------------------------------------------------
(* The cache of snapshots *)

\* An address somebody shows.
Shown(a) == a = preview.address \/ \E i \in DOMAIN classes : classes[i].address = a

AskedFor == {requests[k].address : k \in 1..Len(requests)}

\* In a cycle nobody disturbs only what is shown is asked for, and once the
\* sweep is done only that has a snapshot.
CacheInv ==
  /\ \E S : requests \in Seq(S)
  /\ steady => \A a \in AskedFor : Shown(a)
  /\ steady /\ mpc = "reading" => \A a \in Words : snapshots[a] # 0 => Shown(a)

LEMMA AskAppends ==
  ASSUME NEW S, NEW list \in Seq(S), NEW c
  PROVE  /\ \E T : Ask(list, c) \in Seq(T)
         /\ DOMAIN Ask(list, c) = 1..Len(Ask(list, c))
         /\ {Ask(list, c)[k].address : k \in 1..Len(Ask(list, c))}
              \subseteq {list[k].address : k \in 1..Len(list)} \cup {c.address}
<1>1. Len(list) \in Nat /\ DOMAIN list = 1..Len(list) /\ list \in [1..Len(list) -> S]
  BY LenProperties
<1>2. CASE c.address = 0
  <2>1. Ask(list, c) = list
    BY <1>2 DEF Ask
  <2> QED
    BY <1>1, <2>1
<1>3. CASE c.address # 0
  <2> DEFINE r == RequestOf(c)
             new == Append(list, r)
  <2>0. Ask(list, c) = new /\ r.address = c.address
    BY <1>3 DEF Ask, RequestOf
  <2> HIDE DEF r
  <2>1. list \in [1..Len(list) -> S \cup {r}]
    BY <1>1
  <2>2. list \in Seq(S \cup {r})
    BY <1>1, <2>1
  <2>3. /\ new \in Seq(S \cup {r}) /\ Len(new) = Len(list) + 1
        /\ \A k \in 1..Len(list) : new[k] = list[k]
        /\ new[Len(list) + 1] = r
    BY <2>2, AppendProperties
  <2>4. \A k \in 1..Len(new) : k \in 1..Len(list) \/ k = Len(list) + 1
    BY <1>1, <2>3
  <2>5. DOMAIN new = 1..Len(new)
    BY <2>3, LenProperties
  <2> HIDE DEF new
  <2> QED
    BY <2>0, <2>3, <2>4, <2>5
<1> QED
  BY <1>2, <1>3

\* The steps of the other threads, and of the memory thread between two cycles.
LEMMA CacheOthers ==
  ASSUME CacheInv, UNCHANGED <<snapshots, mpc, requests>>,
         steady' => steady /\ UNCHANGED <<classes, preview>>
  PROVE  CacheInv'
BY DEF CacheInv, AskedFor, Shown

LEMMA CacheStep ==
  ASSUME CacheInv, [Next]_vars
  PROVE  CacheInv'
<1>1. CASE (UiStep \/ InitClasses \/ UiFault) /\ KeepSteady
  <2>1. UNCHANGED memoryVars
    BY <1>1
    DEF UiStep, UiFault, InitClasses, LookAtList, NewClass, Select, Delete, ExportBare, LookAtNodes, DeleteAllNodes, DrawBare,
        EnterAddress, LeaveAddress, Edit, HoverPointer, OpenPointer, NoTool, CloseResults,
        ClickMatch, ClickMatchWithoutClass, ScanString, ScanSignature, ScanBadSignature
  <2> QED
    BY <1>1, <2>1, CacheOthers DEF memoryVars, KeepSteady, Disturbs
<1>2. CASE StartWalk /\ steady' = TRUE
  <2>1. requests = <<>> /\ UNCHANGED requests /\ mpc' = "walking"
    BY <1>2 DEF StartWalk
  <2>2. AskedFor' = {}
    BY <2>1 DEF AskedFor
  <2>3. requests' \in Seq({})
    BY <2>1, EmptySeq
  <2> QED
    BY <2>1, <2>2, <2>3 DEF CacheInv
<1>3. CASE WalkOn /\ UNCHANGED steady
  <2>1. PICK S : requests \in Seq(S)
    BY DEF CacheInv
  <2>2. /\ UNCHANGED <<classes, preview>> /\ mpc' = "walking" /\ mnext \in DOMAIN classes
        /\ requests' = Ask(requests, classes[mnext])
    BY <1>3 DEF WalkOn, listVars, viewVars
  <2>3. /\ \E T : requests' \in Seq(T)
        /\ AskedFor' \subseteq AskedFor \cup {classes[mnext].address}
    <3> DEFINE new == Ask(requests, classes[mnext])
    <3>1. /\ \E T : new \in Seq(T)
          /\ {new[k].address : k \in 1..Len(new)} \subseteq AskedFor \cup {classes[mnext].address}
      BY <2>1, AskAppends DEF AskedFor
    <3> HIDE DEF new
    <3>2. requests' = new
      BY <2>2 DEF new
    <3> QED
      BY <3>1, <3>2 DEF AskedFor
  <2> QED
    BY <1>3, <2>2, <2>3 DEF CacheInv, Shown
<1>4. CASE EndWalk /\ UNCHANGED steady
  <2>1. PICK S : requests \in Seq(S)
    BY DEF CacheInv
  <2>2. /\ UNCHANGED <<classes, preview>>
        /\ requests' = Ask(requests, preview) /\ Sweep(requests')
    BY <1>4 DEF EndWalk, listVars, viewVars
  <2>3. /\ \E T : requests' \in Seq(T)
        /\ DOMAIN requests' = 1..Len(requests')
        /\ AskedFor' \subseteq AskedFor \cup {preview.address}
    <3> DEFINE new == Ask(requests, preview)
    <3>1. /\ \E T : new \in Seq(T)
          /\ DOMAIN new = 1..Len(new)
          /\ {new[k].address : k \in 1..Len(new)} \subseteq AskedFor \cup {preview.address}
      BY <2>1, AskAppends DEF AskedFor
    <3> HIDE DEF new
    <3>2. requests' = new
      BY <2>2 DEF new
    <3> QED
      BY <3>1, <3>2 DEF AskedFor
  <2>4. \A a \in Words : snapshots'[a] # 0 => a \in AskedFor'
    BY <2>2, <2>3 DEF Sweep, AskedFor
  <2>5. steady' => \A a \in AskedFor' : Shown(a)'
    BY <1>4, <2>2, <2>3 DEF CacheInv, Shown
  <2> QED
    BY <2>3, <2>4, <2>5 DEF CacheInv
<1>5. CASE Read /\ UNCHANGED steady
  <2>1. PICK S : requests \in Seq(S)
    BY DEF CacheInv
  <2>2. /\ UNCHANGED <<classes, preview, mpc>> /\ mpc = "reading" /\ requests # <<>>
        /\ requests' = Tail(requests)
        /\ \A a \in Words : snapshots'[a] = snapshots[a] \/ a = Head(requests).address
    BY <1>5 DEF Read, listVars, viewVars
  <2>3. Head(requests).address \in AskedFor /\ AskedFor' \subseteq AskedFor
    <3>1. /\ Len(requests) \in Nat /\ Len(requests) >= 1 /\ Head(requests) = requests[1]
          /\ Len(requests') = Len(requests) - 1
          /\ \A k \in 1..Len(requests') : requests'[k] = requests[k + 1]
      BY <2>1, <2>2, HeadTailProperties, LenProperties, EmptySeq
    <3>2. \A k \in 1..Len(requests') : k + 1 \in 1..Len(requests)
      BY <3>1
    <3> QED
      BY <3>1, <3>2 DEF AskedFor
  <2>4. requests' \in Seq(S)
    BY <2>1, <2>2, HeadTailProperties
  <2> QED
    BY <1>5, <2>2, <2>3, <2>4 DEF CacheInv, Shown
<1>6. CASE (FailRead \/ EndTornWalk) /\ steady' = FALSE
  <2>1. \E S : requests' \in Seq(S)
    <3>1. PICK S : requests \in Seq(S)
      BY DEF CacheInv
    <3>2. CASE FailRead
      BY <3>1, <3>2, HeadTailProperties DEF FailRead
    <3>3. CASE EndTornWalk
      <4>1. \/ requests' = requests \/ requests' = <<>>
            \/ \E a \in Contents \ {0}, size \in Sizes :
                 requests' = <<[address |-> a, size |-> size]>>
        BY <3>3 DEF EndTornWalk
      <4>2. ASSUME NEW r, requests' = <<r>> PROVE requests' \in Seq({r})
        BY <4>2
      <4>3. <<>> \in Seq({})
        BY EmptySeq
      <4> QED
        BY <3>1, <4>1, <4>2, <4>3
    <3> QED
      BY <1>6, <3>2, <3>3
  <2> QED
    BY <1>6, <2>1 DEF CacheInv
<1>7. CASE UNCHANGED vars
  BY <1>7, CacheOthers DEF vars, listVars, viewVars, heapVars, memoryVars
<1> QED
  BY <1>1, <1>2, <1>3, <1>4, <1>5, <1>6, <1>7 DEF Next, MemoryStep, Halted

LEMMA CacheInit == Init => CacheInv
<1> SUFFICES ASSUME Init PROVE CacheInv
  OBVIOUS
<1>1. requests = <<>> /\ steady = FALSE
  BY DEF Init
<1> QED
  BY <1>1, EmptySeq DEF CacheInv

\* An undisturbed cycle of the memory thread leaves no snapshot of an address
\* that is not shown, for any list and any contents of the cache before it.
THEOREM CacheSwept == Spec => []CycleDropsTheRest
<1>1. CacheInv => CycleDropsTheRest
  BY DEF CacheInv, CycleDropsTheRest, Shown
<1> QED
  BY <1>1, CacheInit, CacheStep, PTL DEF Spec

-----------------------------------------------------------------------------
(* Types *)

\* The list, the preview and what they own.
ListType ==
  /\ classes \in Seq(Class) /\ Len(classes) <= MaxClasses
  /\ preview \in Class /\ blocks \subseteq Blocks

\* What the memory thread works on.
MemoryType ==
  /\ snapshots \in [Words -> 0..MaxSize]
  /\ mpc \in {"walking", "reading"}
  /\ mnext \in Nat /\ requests \in Seq(Requests)

Flags ==
  /\ torn \in BOOLEAN /\ steady \in BOOLEAN /\ crashed \in BOOLEAN
  /\ hovering \in BOOLEAN /\ misused \in BOOLEAN

\* A match may become the address of a class.
TypeInv == ListType /\ MemoryType /\ Flags /\ upc \in Phases /\ scan.found \in Words

LEMMA ZeroIsWord == 0 \in Words
BY WordAssumption DEF Words

LEMMA FreshType ==
  ASSUME NEW a \in Words, NEW size \in Sizes, NEW b \in Blocks
  PROVE  Fresh(a, size, b) \in Class
BY DEF Fresh, Class

LEMMA ModulesAreModules ==
  /\ ModuleList(Modules)
  /\ \A i \in DOMAIN Modules : IsModule(Modules[i], W)
<1>1. \A x \in Words : x \in Nat
  BY DEF Words
<1> QED
  BY <1>1, ModulesAssumption DEF ModuleList, IsModule

\* The place of the first module of the name in the list of modules.
LEMMA TargetFirst ==
  ASSUME Targets # {}
  PROVE  SelectInSeq(Modules, LAMBDA m : m.name = Target) \in Targets
<1> DEFINE I == {i \in 1..Len(Modules) : Modules[i].name = Target}
           k == SelectInSeq(Modules, LAMBDA m : m.name = Target)
<1>1. PICK D : Modules \in Seq(D)
  BY ModulesAssumption
<1>2. DOMAIN Modules = 1..Len(Modules) /\ Len(Modules) \in Nat
  BY <1>1, LenProperties
<1>3. I = Targets /\ I # {} /\ I \subseteq Nat
  BY <1>2 DEF Targets
<1>4. k = Min(I)
  BY <1>3 DEF SelectInSeq
<1> HIDE DEF I
<1>5. Min(I) \in I
  BY <1>3, LeastExists
<1> HIDE DEF k
<1>6. k \in Targets
  BY <1>3, <1>4, <1>5
<1> QED
  BY <1>6 DEF k

\* A scan finds a word, whatever is scanned for.
LEMMA ScanPatternType ==
  ASSUME NEW E, NEW text \in Seq(E), NEW type
  PROVE  ScanPattern(type, text, Target, Modules) \in Words
<1> DEFINE k == SelectInSeq(Modules, LAMBDA m : m.name = Target)
<1>1. CASE Targets # {}
  <2>1. k \in DOMAIN Modules
    BY <1>1, TargetFirst DEF Targets
  <2>2. ScanPattern(type, text, Target, Modules) = FindPattern(Modules[k], Items(type, text))
    BY <1>1 DEF ScanPattern, Targets
  <2> HIDE DEF k
  <2>3. IsModule(Modules[k], W) /\ Items(type, text) \in Seq(Int) /\ W \in Nat
    BY <2>1, ModulesAreModules, ItemsType, WordAssumption
  <2>4. FindPattern(Modules[k], Items(type, text))
          \in {0} \cup {a \in Modules[k].base .. (Modules[k].base + Modules[k].size) : a < W}
    BY <2>3, FindPatternType
  <2>5. \A a \in Modules[k].base .. (Modules[k].base + Modules[k].size) : a < W => a \in Words
    BY <2>3 DEF IsModule, Words
  <2> QED
    BY <2>2, <2>4, <2>5, ZeroIsWord
<1>2. CASE Targets = {}
  BY <1>2, ZeroIsWord DEF ScanPattern, Targets
<1> QED
  BY <1>1, <1>2

LEMMA TypeInit == Init => TypeInv
<1> SUFFICES ASSUME Init PROVE TypeInv
  OBVIOUS
<1>1. PICK b \in Blocks, c \in Blocks :
        /\ b # c /\ blocks = {b, c}
        /\ preview = Fresh(0, PreviewSize, b)
        /\ classes = <<Fresh(0, FreshSize, c)>>
  BY DEF Init
<1>2. Fresh(0, PreviewSize, b) \in Class /\ Fresh(0, FreshSize, c) \in Class
  BY ZeroIsWord, ListAssumption, FreshType
<1>3. classes \in Seq(Class) /\ Len(classes) = 1 /\ 1 <= MaxClasses
  BY <1>1, <1>2, ListAssumption
<1>4. ListType
  BY <1>1, <1>2, <1>3 DEF ListType
<1>5. snapshots \in [Words -> 0..MaxSize]
  BY ListAssumption DEF Init
<1>6. MemoryType
  BY <1>5, EmptySeq DEF Init, MemoryType
<1>7. Flags
  BY DEF Init, Flags
<1>8. upc \in Phases /\ scan.found \in Words
  BY ZeroIsWord DEF Init, Phases, NoScan
<1> QED
  BY <1>4, <1>6, <1>7, <1>8 DEF TypeInv

\* The flags stay flags.
LEMMA FlagsStep ==
  ASSUME Flags, [Next]_vars
  PROVE  Flags'
<1>1. torn' \in BOOLEAN
  <2>1. torn' \in {torn, torn \/ mpc = "walking", FALSE}
    BY Zenon
    DEF Next, UiStep, UiFault, MemoryStep, Halted, vars, Restructure,
        LookAtList, NewClass, Select, Delete, ExportBare, LookAtNodes, DeleteAllNodes, DrawBare,
        EnterAddress, LeaveAddress, Edit, HoverPointer, OpenPointer, NoTool, CloseResults,
        ClickMatch, ClickMatchWithoutClass, ScanString, ScanSignature, ScanBadSignature,
        StartWalk, WalkOn, EndWalk, EndTornWalk, Read, FailRead, InitClasses
  <2> QED
    BY <2>1, Zenon DEF Flags
<1>2. steady' \in BOOLEAN
  <2>1. steady' \in {steady, steady /\ ~Disturbs, TRUE, FALSE}
    BY Zenon DEF Next, KeepSteady, Halted, vars
  <2> QED
    BY <2>1, Zenon DEF Flags
<1>3. crashed' \in BOOLEAN
  <2>1. crashed' \in {crashed, Chosen \notin DOMAIN classes, TRUE} \cup BOOLEAN
    BY Zenon
    DEF Next, UiFault, Halted, vars, LeaveAddress, DrawBare, ClickMatchWithoutClass, ScanBadSignature, EndTornWalk
  <2> QED
    BY <2>1, Zenon DEF Flags
<1>4. hovering' \in BOOLEAN
  <2>1. hovering' \in {hovering, TRUE, FALSE}
    BY Zenon
    DEF Next, UiStep, UiFault, MemoryStep, Halted, vars, viewVars, ResetPreview, Hover,
        LookAtList, NewClass, Select, Delete, ExportBare, LookAtNodes, DeleteAllNodes, DrawBare,
        EnterAddress, LeaveAddress, Edit, HoverPointer, OpenPointer, NoTool, CloseResults,
        ClickMatch, ClickMatchWithoutClass, ScanString, ScanSignature, ScanBadSignature,
        StartWalk, WalkOn, EndWalk, EndTornWalk, Read, FailRead, InitClasses
  <2> QED
    BY <2>1, Zenon DEF Flags
<1>5. misused' \in BOOLEAN
  <2>1. \/ misused' = misused
        \/ \E i \in 1..MaxClasses : misused' = (misused \/ classes[i].bare)
    BY Zenon
    DEF Next, UiStep, UiFault, MemoryStep, Halted, vars, heapVars, GiveBack,
        LookAtList, NewClass, Select, Delete, ExportBare, LookAtNodes, DeleteAllNodes, DrawBare,
        EnterAddress, LeaveAddress, Edit, HoverPointer, OpenPointer, NoTool, CloseResults,
        ClickMatch, ClickMatchWithoutClass, ScanString, ScanSignature, ScanBadSignature,
        StartWalk, WalkOn, EndWalk, EndTornWalk, Read, FailRead, InitClasses
  <2> QED
    BY <2>1, Zenon DEF Flags
<1> QED
  BY <1>1, <1>2, <1>3, <1>4, <1>5 DEF Flags

LEMMA PhaseStep ==
  ASSUME upc \in Phases, [Next]_vars
  PROVE  upc' \in Phases
<1>1. upc' \in {upc, "list", "address", "nodes", "tools"}
  BY Zenon
  DEF Next, UiStep, UiFault, MemoryStep, Halted, vars, AfterList,
      LookAtList, NewClass, Select, Delete, ExportBare, LookAtNodes, DeleteAllNodes, DrawBare,
      EnterAddress, LeaveAddress, Edit, HoverPointer, OpenPointer, NoTool, CloseResults,
      ClickMatch, ClickMatchWithoutClass, ScanString, ScanSignature, ScanBadSignature,
      StartWalk, WalkOn, EndWalk, EndTornWalk, Read, FailRead, InitClasses
<1> QED
  BY <1>1 DEF Phases

\* What the UI thread and the server thread leave alone.
LEMMA MemoryLeft ==
  ASSUME UiStep \/ InitClasses \/ UiFault
  PROVE  UNCHANGED memoryVars
BY DEF UiStep, UiFault, InitClasses, LookAtList, NewClass, Select, Delete, ExportBare, LookAtNodes, DeleteAllNodes, DrawBare,
       EnterAddress, LeaveAddress, Edit, HoverPointer, OpenPointer, NoTool, CloseResults,
       ClickMatch, ClickMatchWithoutClass, ScanString, ScanSignature, ScanBadSignature

\* What the memory thread leaves alone.
LEMMA ListLeft ==
  ASSUME StartWalk \/ MemoryStep \/ FailRead \/ EndTornWalk
  PROVE  UNCHANGED <<classes, selected, preview, blocks, hovering, scan, upc>>
BY DEF StartWalk, MemoryStep, WalkOn, EndWalk, Read, FailRead, EndTornWalk, listVars, viewVars,
       heapVars

LEMMA AskType ==
  ASSUME NEW list \in Seq(Requests), NEW c \in Class
  PROVE  Ask(list, c) \in Seq(Requests)
<1>1. c.address \in Words /\ c.size \in Sizes
  BY DEF Class
<1>2. CASE c.address = 0
  BY <1>2 DEF Ask
<1>3. CASE c.address # 0
  <2>1. RequestOf(c) \in Requests
    BY <1>1, <1>3 DEF RequestOf, Requests
  <2> QED
    BY <1>3, <2>1, AppendProperties DEF Ask
<1> QED
  BY <1>2, <1>3

LEMMA SweepType ==
  ASSUME snapshots \in [Words -> 0..MaxSize], NEW list, Sweep(list)
  PROVE  snapshots' \in [Words -> 0..MaxSize]
<1>1. 0 \in 0..MaxSize
  BY ListAssumption
<1> QED
  BY <1>1 DEF Sweep

LEMMA MemoryTypeStep ==
  ASSUME ListType, MemoryType, [Next]_vars
  PROVE  MemoryType'
<1>1. CASE UNCHANGED memoryVars
  BY <1>1 DEF MemoryType, memoryVars
<1>2. CASE StartWalk
  BY <1>2 DEF StartWalk, MemoryType
<1>3. CASE WalkOn
  <2>1. /\ requests' = Ask(requests, classes[mnext]) /\ mnext' = mnext + 1
        /\ UNCHANGED <<snapshots, mpc>> /\ mnext \in DOMAIN classes
    BY <1>3 DEF WalkOn
  <2>2. classes[mnext] \in Class
    <3>1. mnext \in 1..Len(classes)
      BY <2>1, LenProperties DEF ListType
    <3> QED
      BY <3>1, ElementOfSeq DEF ListType
  <2>3. requests' \in Seq(Requests)
    BY <2>1, <2>2, AskType DEF MemoryType
  <2> QED
    BY <2>1, <2>3 DEF MemoryType
<1>4. CASE EndWalk
  <2>1. /\ requests' = Ask(requests, preview) /\ mnext' = 1 /\ mpc' = "reading"
        /\ Sweep(requests')
    BY <1>4 DEF EndWalk
  <2>2. requests' \in Seq(Requests)
    BY <2>1, AskType DEF MemoryType, ListType
  <2>3. snapshots' \in [Words -> 0..MaxSize]
    BY <2>1, SweepType DEF MemoryType
  <2> QED
    BY <2>1, <2>2, <2>3 DEF MemoryType
<1>5. CASE EndTornWalk
  <2>1. /\ mnext' = 1 /\ mpc' \in {mpc, "reading"}
        /\ UNCHANGED <<snapshots, requests>> \/ Sweep(requests')
    BY <1>5 DEF EndTornWalk
  <2>2. requests' \in Seq(Requests)
    <3>1. \/ requests' = requests \/ requests' = <<>>
          \/ \E a \in Contents \ {0}, size \in Sizes :
               requests' = <<[address |-> a, size |-> size]>>
      BY <1>5 DEF EndTornWalk
    <3>2. \A a \in Contents \ {0}, size \in Sizes : [address |-> a, size |-> size] \in Requests
      BY ContentsAssumption DEF Requests
    <3>3. \A r \in Requests : <<r>> \in Seq(Requests)
      OBVIOUS
    <3>4. <<>> \in Seq(Requests) /\ requests \in Seq(Requests)
      BY EmptySeq DEF MemoryType
    <3> HIDE DEF Requests
    <3> QED
      BY <3>1, <3>2, <3>3, <3>4
  <2>3. snapshots' \in [Words -> 0..MaxSize]
    BY <2>1, SweepType DEF MemoryType
  <2> QED
    BY <2>1, <2>2, <2>3 DEF MemoryType
<1>6. CASE Read \/ FailRead
  <2>1. /\ requests # <<>> /\ requests' = Tail(requests) /\ UNCHANGED <<mpc, mnext>>
        /\ \/ UNCHANGED snapshots
           \/ snapshots' = [snapshots EXCEPT ![Head(requests).address] = Head(requests).size]
    BY <1>6 DEF Read, FailRead
  <2>2. Head(requests) \in Requests /\ requests' \in Seq(Requests)
    BY <2>1, HeadTailProperties DEF MemoryType
  <2>3. Head(requests).size \in 0..MaxSize
    BY <2>2, ListAssumption DEF Requests, Sizes
  <2>4. snapshots' \in [Words -> 0..MaxSize]
    BY <2>1, <2>3 DEF MemoryType
  <2> QED
    BY <2>1, <2>2, <2>4 DEF MemoryType
<1>7. CASE UNCHANGED vars
  BY <1>1, <1>7 DEF vars
<1> QED
  BY <1>1, <1>2, <1>3, <1>4, <1>5, <1>6, <1>7, MemoryLeft DEF Next, MemoryStep, Halted

\* What may happen to the list and the preview.
LEMMA ListGrows ==
  ASSUME ListType, Len(classes) < MaxClasses, NEW a \in Words, NEW b \in Blocks
  PROVE  /\ Append(classes, Fresh(a, FreshSize, b)) \in Seq(Class)
         /\ Len(Append(classes, Fresh(a, FreshSize, b))) <= MaxClasses
<1>1. Fresh(a, FreshSize, b) \in Class
  BY FreshType, ListAssumption
<1>2. classes \in Seq(Class) /\ Len(classes) \in Nat /\ MaxClasses \in Nat
  BY LenProperties, ListAssumption DEF ListType
<1>3. Append(classes, Fresh(a, FreshSize, b)) \in Seq(Class)
      /\ Len(Append(classes, Fresh(a, FreshSize, b))) = Len(classes) + 1
  BY <1>1, <1>2, AppendProperties
<1> QED
  BY <1>2, <1>3

LEMMA ListShrinks ==
  ASSUME ListType, NEW i \in DOMAIN classes
  PROVE  RemoveAt(classes, i) \in Seq(Class) /\ Len(RemoveAt(classes, i)) <= MaxClasses
<1> DEFINE n == Len(classes)
           low == SubSeq(classes, 1, i - 1)
           high == SubSeq(classes, i + 1, n)
<1>1. n \in Nat /\ i \in 1..n /\ (\A k \in 1..n : classes[k] \in Class) /\ n <= MaxClasses
      /\ MaxClasses \in Nat
  BY LenProperties, ElementOfSeq, ListAssumption DEF ListType
<1> HIDE DEF n
<1>2. low \in Seq(Class) /\ Len(low) = i - 1
  BY <1>1, SubSeqProperties
<1>3. high \in Seq(Class) /\ Len(high) = n - i
  BY <1>1, SubSeqProperties
<1>4. RemoveAt(classes, i) = low \o high
  BY DEF RemoveAt, n
<1> HIDE DEF low, high
<1>5. low \o high \in Seq(Class) /\ Len(low \o high) = Len(low) + Len(high)
  BY <1>2, <1>3, ConcatProperties
<1> QED
  BY <1>1, <1>2, <1>3, <1>4, <1>5

LEMMA ListMoves ==
  ASSUME ListType, NEW i \in 1..Len(classes), NEW a \in Words
  PROVE  /\ [classes EXCEPT ![i].address = a] \in Seq(Class)
         /\ Len([classes EXCEPT ![i].address = a]) <= MaxClasses
<1> DEFINE c == [classes[i] EXCEPT !.address = a]
<1>1. classes \in Seq(Class) /\ classes[i] \in Class /\ Len(classes) <= MaxClasses
  BY ElementOfSeq DEF ListType
<1>2. c \in Class
  BY <1>1 DEF Class
<1>3. [classes EXCEPT ![i].address = a] = [classes EXCEPT ![i] = c]
  OBVIOUS
<1> HIDE DEF c
<1> QED
  BY <1>1, <1>2, <1>3, ExceptSeq

LEMMA ListResizes ==
  ASSUME ListType, NEW i \in 1..Len(classes), NEW size \in Sizes
  PROVE  /\ [classes EXCEPT ![i].size = size] \in Seq(Class)
         /\ Len([classes EXCEPT ![i].size = size]) <= MaxClasses
<1> DEFINE c == [classes[i] EXCEPT !.size = size]
<1>1. classes \in Seq(Class) /\ classes[i] \in Class /\ Len(classes) <= MaxClasses
  BY ElementOfSeq DEF ListType
<1>2. c \in Class
  BY <1>1 DEF Class
<1>3. [classes EXCEPT ![i].size = size] = [classes EXCEPT ![i] = c]
  OBVIOUS
<1> HIDE DEF c
<1> QED
  BY <1>1, <1>2, <1>3, ExceptSeq

LEMMA ListEmpties ==
  ASSUME ListType, NEW i \in 1..Len(classes)
  PROVE  /\ [classes EXCEPT ![i].bare = TRUE] \in Seq(Class)
         /\ Len([classes EXCEPT ![i].bare = TRUE]) <= MaxClasses
<1> DEFINE c == [classes[i] EXCEPT !.bare = TRUE]
<1>1. classes \in Seq(Class) /\ classes[i] \in Class /\ Len(classes) <= MaxClasses
  BY ElementOfSeq DEF ListType
<1>2. c \in Class
  BY <1>1 DEF Class
<1>3. [classes EXCEPT ![i].bare = TRUE] = [classes EXCEPT ![i] = c]
  OBVIOUS
<1> HIDE DEF c
<1> DEFINE new == [classes EXCEPT ![i] = c]
<1>4. new \in Seq(Class) /\ Len(new) <= MaxClasses
  BY <1>1, <1>2, ExceptSeq
<1> HIDE DEF new
<1>5. [classes EXCEPT ![i].bare = TRUE] = new
  BY <1>3 DEF new
<1> QED
  BY <1>4, <1>5, Zenon

LEMMA PreviewResets ==
  ASSUME ListType, NEW used \in SUBSET Blocks, ResetPreview(used)
  PROVE  preview' \in Class /\ blocks' \subseteq Blocks
<1>1. CASE hovering
  <2>1. PICK b \in Blocks : /\ preview' = Fresh(0, PreviewSize, b)
                            /\ blocks' = (used \ {preview.data}) \cup {b}
    BY <1>1 DEF ResetPreview
  <2>2. Fresh(0, PreviewSize, b) \in Class
    BY ZeroIsWord, FreshType, ListAssumption
  <2> QED
    BY <2>1, <2>2 DEF ListType
<1>2. CASE ~hovering
  BY <1>2 DEF ResetPreview, ListType
<1> QED
  BY <1>1, <1>2

LEMMA PreviewShows ==
  ASSUME ListType, NEW num \in Contents, Hover(num)
  PROVE  preview' \in Class
<1>1. num \in Words /\ preview.data \in Blocks /\ preview \in Class
  BY ContentsAssumption DEF ListType, Class
<1>2. \A size \in Sizes : Fresh(num, size, preview.data) \in Class
  BY <1>1, FreshType
<1> QED
  BY <1>1, <1>2 DEF Hover

\* The list on the left, and the server thread.
LEMMA ListTypeList ==
  ASSUME ListType,
         \/ LookAtList \/ NewClass \/ InitClasses
         \/ \E i \in 1..MaxClasses : Select(i) \/ Delete(i) \/ ExportBare(i)
  PROVE  ListType'
<1>1. CASE LookAtList \/ \E i \in 1..MaxClasses : Select(i)
  BY <1>1 DEF LookAtList, Select, ListType, listVars, viewVars, heapVars
<1>2. CASE NewClass
  <2>1. PICK b \in Blocks : /\ blocks' = blocks \cup {b}
                            /\ classes' = Append(classes, Fresh(0, FreshSize, b))
    BY <1>2 DEF NewClass, Malloc, Restructure
  <2>2. Len(classes) < MaxClasses /\ UNCHANGED preview
    BY <1>2 DEF NewClass, viewVars
  <2> QED
    BY <2>1, <2>2, ZeroIsWord, ListGrows DEF ListType
<1>3. CASE InitClasses
  <2>1. PICK b \in Blocks : /\ blocks' = blocks \cup {b}
                            /\ classes' = <<Fresh(0, FreshSize, b)>>
    BY <1>3 DEF InitClasses, Malloc, Restructure
  <2>2. UNCHANGED preview
    BY <1>3 DEF InitClasses, viewVars
  <2>3. Fresh(0, FreshSize, b) \in Class /\ 1 <= MaxClasses
    BY FreshType, ZeroIsWord, ListAssumption
  <2>4. \A c \in Class : <<c>> \in Seq(Class) /\ Len(<<c>>) = 1
    OBVIOUS
  <2> QED
    BY <2>1, <2>2, <2>3, <2>4 DEF ListType
<1>4. ASSUME NEW i \in 1..MaxClasses, Delete(i)
      PROVE  ListType'
  <2>1. /\ i \in DOMAIN classes /\ classes' = RemoveAt(classes, i)
        /\ blocks' = blocks \ {classes[i].data} /\ UNCHANGED preview
    BY <1>4 DEF Delete, GiveBack, Restructure, viewVars
  <2> QED
    BY <2>1, ListShrinks DEF ListType
<1>5. CASE \E i \in 1..MaxClasses : ExportBare(i)
  BY <1>5 DEF ExportBare, GiveBack, ListType, listVars, viewVars
<1> QED
  BY <1>1, <1>2, <1>3, <1>4, <1>5

\* The address bar and the nodes of the selected class.
LEMMA ListTypeFrame ==
  ASSUME ListInv, ListType, scan.found \in Words,
         \/ \E text \in Texts : EnterAddress(text)
         \/ LeaveAddress \/ LookAtNodes \/ DeleteAllNodes \/ DrawBare
         \/ \E size \in Sizes : Edit(size)
         \/ \E num \in Contents : HoverPointer(num) \/ OpenPointer(num)
         \/ ClickMatch
  PROVE  ListType'
<1>1. ASSUME NEW a \in Words, Chosen \in DOMAIN classes, UpdateAddress(Chosen, a),
             UNCHANGED <<preview, blocks>>
      PROVE  ListType'
  <2>1. Chosen \in 1..Len(classes)
    BY <1>1, Selection
  <2>2. classes' = classes \/ classes' = [classes EXCEPT ![Chosen].address = a]
    BY <1>1 DEF UpdateAddress
  <2> QED
    BY <1>1, <2>1, <2>2, ListMoves DEF ListType
<1>2. CASE \E text \in Texts : EnterAddress(text)
  <2>1. PICK text \in Texts : EnterAddress(text)
    BY <1>2
  <2>2. ParseInput(text, Modules) \in Words
    BY TextsAssumption, ModulesAreModules, ParseInputType
  <2> QED
    BY <1>1, <2>1, <2>2 DEF EnterAddress, viewVars, heapVars
<1>3. CASE ClickMatch
  BY <1>1, <1>3 DEF ClickMatch, viewVars, heapVars
<1>4. CASE LeaveAddress \/ DrawBare
  BY <1>4 DEF LeaveAddress, DrawBare, ListType, listVars, viewVars, heapVars
<1>5. CASE LookAtNodes
  BY <1>5, PreviewResets DEF LookAtNodes, ListType, listVars
<1>6. ASSUME NEW size \in Sizes, Edit(size) PROVE ListType'
  <2>1. classes' = [classes EXCEPT ![Chosen].size = size] /\ ResetPreview(blocks) /\ upc = "nodes"
    BY <1>6 DEF Edit
  <2>2. Chosen \in 1..Len(classes)
    BY <2>1, Selection DEF Chosen
  <2> QED
    BY <2>1, <2>2, ListResizes, PreviewResets DEF ListType
<1>7. ASSUME NEW num \in Contents, HoverPointer(num) PROVE ListType'
  BY <1>7, PreviewShows DEF HoverPointer, ListType, listVars, heapVars
<1>8. ASSUME NEW num \in Contents, OpenPointer(num) PROVE ListType'
  <2>1. preview' \in Class
    BY <1>8, PreviewShows DEF OpenPointer
  <2>2. CASE UNCHANGED <<classes, blocks>>
    BY <2>1, <2>2 DEF ListType
  <2>3. CASE \E b \in Blocks : /\ blocks' = blocks \cup {b}
                               /\ classes' = Append(classes, Fresh(num, FreshSize, b))
    <3>1. Len(classes) < MaxClasses \/ UNCHANGED <<classes, blocks>>
      BY <1>8 DEF OpenPointer
    <3> QED
      BY <2>1, <2>2, <2>3, <3>1, ListGrows, ContentsAssumption DEF ListType
  <2> QED
    BY <1>8, <2>2, <2>3 DEF OpenPointer, Malloc, Restructure
<1>9. CASE DeleteAllNodes
  <2>1. /\ classes' = [classes EXCEPT ![Chosen].bare = TRUE] /\ upc = "nodes"
        /\ ResetPreview(blocks \ {classes[Chosen].data})
    BY <1>9 DEF DeleteAllNodes
  <2>2. Chosen \in 1..Len(classes)
    BY <2>1, Selection DEF Chosen
  <2>3. blocks \ {classes[Chosen].data} \in SUBSET Blocks
    BY DEF ListType
  <2> QED
    BY <2>1, <2>2, <2>3, ListEmpties, PreviewResets DEF ListType
<1> QED
  BY <1>2, <1>3, <1>4, <1>5, <1>6, <1>7, <1>8, <1>9

\* The other tool windows.
LEMMA ListTypeTools ==
  ASSUME ListType,
         \/ NoTool \/ CloseResults \/ ClickMatchWithoutClass
         \/ \E str \in Strings, answered \in BOOLEAN : ScanString(str, answered)
         \/ \E text \in Signatures, answered \in BOOLEAN : ScanSignature(text, answered)
         \/ \E text \in Signatures : ScanBadSignature(text)
  PROVE  ListType'
BY DEF ListType, NoTool, CloseResults, ClickMatchWithoutClass, ScanString, ScanSignature,
       ScanBadSignature, listVars, viewVars, heapVars

LEMMA ListTypeStep ==
  ASSUME ListInv, ListType, scan.found \in Words, [Next]_vars
  PROVE  ListType'
<1>1. CASE StartWalk \/ MemoryStep \/ FailRead \/ EndTornWalk
  BY <1>1, ListLeft DEF ListType
<1>2. CASE UNCHANGED vars
  BY <1>2 DEF ListType, vars, listVars, viewVars, heapVars
<1> QED
  BY <1>1, <1>2, ListTypeList, ListTypeFrame, ListTypeTools DEF Next, UiStep, UiFault, Halted

LEMMA StringType ==
  ASSUME NEW str \in Strings
  PROVE  str \in Seq(Int)
<1>1. str \in Seq(-128..127)
  BY TextsAssumption
<1>2. -128..127 \subseteq Int
  OBVIOUS
<1> QED
  BY <1>1, <1>2, SeqMonotonic

\* Only a scan makes results.
LEMMA ScanChanges ==
  ASSUME [Next]_vars
  PROVE  \/ scan' = scan \/ scan' = NoScan
         \/ \E str \in Strings, answered \in BOOLEAN : ScanString(str, answered)
         \/ \E text \in Signatures, answered \in BOOLEAN : ScanSignature(text, answered)
BY Zenon
DEF Next, UiStep, UiFault, MemoryStep, Halted, vars,
    LookAtList, NewClass, Select, Delete, ExportBare, LookAtNodes, DeleteAllNodes, DrawBare,
    EnterAddress, LeaveAddress, Edit, HoverPointer, OpenPointer, NoTool, CloseResults,
    ClickMatch, ClickMatchWithoutClass, ScanBadSignature,
    StartWalk, WalkOn, EndWalk, EndTornWalk, Read, FailRead, InitClasses

LEMMA ScanStep ==
  ASSUME scan.found \in Words, [Next]_vars
  PROVE  scan'.found \in Words
<1>1. NoScan.found \in Words
  BY ZeroIsWord DEF NoScan
<1>2. ASSUME NEW E, NEW text \in Seq(E), NEW by, NEW typed, NEW type, NEW answered,
             Answer(by, typed, type, text, answered)
      PROVE  scan'.found \in Words
  BY <1>1, <1>2, ScanPatternType DEF Answer
<1>3. ASSUME NEW str \in Strings, NEW answered, ScanString(str, answered)
      PROVE  scan'.found \in Words
  <2>1. StringToSignature(str) \in Seq(SignatureChars)
    BY StringType, SignatureDef
  <2> QED
    BY <1>2, <1>3, <2>1 DEF ScanString
<1>4. ASSUME NEW text \in Signatures, NEW answered, ScanSignature(text, answered)
      PROVE  scan'.found \in Words
  <2>1. text \in Seq(STRING)
    BY TextsAssumption
  <2> QED
    BY <1>2, <1>4, <2>1 DEF ScanSignature
<1> QED
  BY <1>1, <1>3, <1>4, ScanChanges

LEMMA TypeStep ==
  ASSUME ListInv, TypeInv, [Next]_vars
  PROVE  TypeInv'
<1>1. ListType'
  BY ListTypeStep DEF TypeInv
<1>2. MemoryType'
  BY MemoryTypeStep DEF TypeInv
<1>3. Flags' /\ upc' \in Phases
  BY FlagsStep, PhaseStep DEF TypeInv
<1>4. scan'.found \in Words
  BY ScanStep DEF TypeInv
<1> QED
  BY <1>1, <1>2, <1>3, <1>4 DEF TypeInv

LEMMA TypeAlways == Spec => []TypeInv
BY ListAlways, TypeInit, TypeStep, PTL DEF Spec

\* Every variable keeps its type, for any list, any text typed or scanned for
\* and any modules: the address bar and the scans always make an address.
THEOREM ListTypeCorrect == Spec => []TypeOK
<1>1. ListInv /\ TypeInv => TypeOK
  BY DEF ListInv, TypeInv, TypeOK, ListType, MemoryType, Flags
<1> QED
  BY <1>1, ListAlways, TypeAlways, PTL

-----------------------------------------------------------------------------
(* String scans *)

\* What is shown as found is what the scan for the string has found.
ScanInv ==
  scan.by = "string" =>
    /\ scan.typed \in Strings
    /\ scan.found = ScanPattern("BYTE_PATTERN", StringToSignature(scan.typed), Target, Modules)

LEMMA ScanInit == Init => ScanInv
BY DEF Init, ScanInv, NoScan

LEMMA ScanInvStep ==
  ASSUME ScanInv, [Next]_vars
  PROVE  ScanInv'
<1>1. CASE scan' = scan
  BY <1>1 DEF ScanInv
<1>2. CASE scan' = NoScan
  BY <1>2 DEF ScanInv, NoScan
<1>3. ASSUME NEW str \in Strings, NEW answered, ScanString(str, answered)
      PROVE  ScanInv'
  <2>1. \/ scan' = NoScan
        \/ scan' = [by |-> "string", typed |-> str,
                    found |-> ScanPattern("BYTE_PATTERN", StringToSignature(str), Target, Modules)]
    BY <1>3 DEF ScanString, Answer
  <2> QED
    BY <1>2, <2>1 DEF ScanInv
<1>4. ASSUME NEW text \in Signatures, NEW answered, ScanSignature(text, answered)
      PROVE  ScanInv'
  <2>1. \/ scan' = NoScan
        \/ \E type : scan' = [by |-> "signature", typed |-> text,
                              found |-> ScanPattern(type, text, Target, Modules)]
    BY <1>4 DEF ScanSignature, Answer
  <2>2. scan' = NoScan \/ scan'.by = "signature"
    BY <2>1
  <2> QED
    BY <1>2, <2>2 DEF ScanInv
<1> QED
  BY <1>1, <1>2, <1>3, <1>4, ScanChanges

\* Whatever string is scanned for, the scan finds its first place in the target.
LEMMA StringIsFound ==
  ASSUME NEW str \in Seq(Int)
  PROVE  FoundFirst(str, ScanPattern("BYTE_PATTERN", StringToSignature(str), Target, Modules))
<1> DEFINE k == SelectInSeq(Modules, LAMBDA m : m.name = Target)
           found == ScanPattern("BYTE_PATTERN", StringToSignature(str), Target, Modules)
<1>1. CASE Targets = {}
  BY <1>1 DEF Targets, ScanPattern, FoundFirst
<1>2. CASE Targets # {}
  <2>1. found = FindPattern(Modules[k], Items("BYTE_PATTERN", StringToSignature(str)))
    BY <1>2 DEF Targets, ScanPattern
  <2>2. k \in Targets
    BY <1>2, TargetFirst
  <2> HIDE DEF k, found
  <2>3. found = FirstOccurrence(str, Modules[k])
    BY <2>1, StringsAreFound
  <2> QED
    BY <1>2, <2>2, <2>3 DEF FoundFirst, found
<1> QED
  BY <1>1, <1>2

\* A string scan finds the first place of the module where the string stands
\* and nothing else, whatever the string, the modules and the target hold, and
\* whatever other scans, answers too late and clicks come before it.
THEOREM StringScansFind == Spec => []StringScanFinds
<1>1. ScanInv => StringScanFinds
  <2> SUFFICES ASSUME ScanInv, scan.by = "string" PROVE FoundFirst(scan.typed, scan.found)
    BY DEF StringScanFinds
  <2>1. /\ scan.typed \in Strings
        /\ scan.found = ScanPattern("BYTE_PATTERN", StringToSignature(scan.typed), Target, Modules)
    BY DEF ScanInv
  <2>2. scan.typed \in Seq(Int)
    BY <2>1, StringType
  <2> QED
    BY <2>1, <2>2, StringIsFound
<1> QED
  BY <1>1, ScanInit, ScanInvStep, PTL DEF Spec

-----------------------------------------------------------------------------
(* A cycle of the memory thread *)

InList(list, r) == \E k \in 1..Len(list) : list[k] = r

\* In a cycle nobody disturbs, the walk has asked for every class it has come
\* past and for nothing else; the reads have served each class that no other
\* one and not the preview can spoil, or are still to do it.
ServeInv ==
  /\ mnext >= 1 /\ (mpc = "reading" => mnext = 1)
  /\ steady /\ mpc = "walking" =>
       /\ \A i \in 1..Len(classes) :
            i < mnext /\ classes[i].address # 0 => InList(requests, RequestOf(classes[i]))
       /\ \A k \in 1..Len(requests) :
            \E i \in 1..Len(classes) : requests[k] = RequestOf(classes[i])
  /\ steady /\ mpc = "reading" =>
       /\ \A k \in 1..Len(requests) :
            \/ requests[k] = RequestOf(preview)
            \/ \E i \in 1..Len(classes) : requests[k] = RequestOf(classes[i])
       /\ \A i \in 1..Len(classes) :
            Unrivalled(classes[i]) =>
              \/ InList(requests, RequestOf(classes[i]))
              \/ snapshots[classes[i].address] = classes[i].size

LEMMA AskHas ==
  ASSUME NEW list \in Seq(Requests), NEW c \in Class
  PROVE  /\ \A r : InList(list, r) => InList(Ask(list, c), r)
         /\ c.address # 0 => InList(Ask(list, c), RequestOf(c))
         /\ \A k \in 1..Len(Ask(list, c)) :
              InList(list, Ask(list, c)[k]) \/ Ask(list, c)[k] = RequestOf(c)
<1>1. CASE c.address = 0
  <2>1. Ask(list, c) = list
    BY <1>1 DEF Ask
  <2> QED
    BY <1>1, <2>1 DEF InList
<1>2. CASE c.address # 0
  <2> DEFINE r == RequestOf(c)
             new == Append(list, r)
  <2>1. r \in Requests
    BY <1>2 DEF RequestOf, Requests, Class
  <2>2. Ask(list, c) = new
    BY <1>2 DEF Ask
  <2> HIDE DEF r
  <2>3. /\ Len(new) = Len(list) + 1 /\ Len(list) \in Nat
        /\ \A k \in 1..Len(list) : new[k] = list[k]
        /\ new[Len(list) + 1] = r
    BY <2>1, AppendProperties, LenProperties
  <2> HIDE DEF new
  <2>4. /\ \A k \in 1..Len(list) : k \in 1..Len(new)
        /\ Len(list) + 1 \in 1..Len(new)
        /\ \A k \in 1..Len(new) : k \in 1..Len(list) \/ k = Len(list) + 1
    BY <2>3
  <2> QED
    BY <2>2, <2>3, <2>4 DEF InList, r
<1> QED
  BY <1>1, <1>2

LEMMA ServeInit == Init => ServeInv
BY DEF Init, ServeInv

\* The steps of the other threads.
LEMMA ServeOthers ==
  ASSUME ServeInv, UNCHANGED <<snapshots, mpc, mnext, requests>>,
         steady' => steady /\ UNCHANGED <<classes, preview>>
  PROVE  ServeInv'
<1>1. CASE steady'
  <2>1. \A i : Unrivalled(classes[i])' <=> Unrivalled(classes[i])
    BY <1>1 DEF Unrivalled
  <2> QED
    BY <1>1, <2>1 DEF ServeInv, InList
<1>2. CASE ~steady'
  BY <1>2 DEF ServeInv
<1> QED
  BY <1>1, <1>2

\* The walk.
LEMMA ServeWalk ==
  ASSUME ServeInv, ListType, MemoryType,
         \/ StartWalk
         \/ (WalkOn \/ EndWalk) /\ UNCHANGED steady
  PROVE  ServeInv'
<1>0. /\ Len(classes) \in Nat /\ DOMAIN classes = 1..Len(classes) /\ mnext \in Nat
      /\ \A i \in 1..Len(classes) : classes[i] \in Class
      /\ requests \in Seq(Requests) /\ preview \in Class
  BY LenProperties, ElementOfSeq DEF ListType, MemoryType
<1>1. CASE StartWalk
  <2>1. mpc' = "walking" /\ mpc = "reading" /\ UNCHANGED <<mnext, requests, classes>> /\ requests = <<>>
    BY <1>1 DEF StartWalk, listVars
  <2>2. mnext = 1 /\ Len(requests') = 0
    BY <2>1 DEF ServeInv
  <2> QED
    BY <1>0, <2>1, <2>2 DEF ServeInv
<1>2. CASE WalkOn /\ UNCHANGED steady
  <2> DEFINE c == classes[mnext]
             new == Ask(requests, c)
  <2>1. /\ mpc = "walking" /\ UNCHANGED <<mpc, classes, preview>> /\ mnext \in 1..Len(classes)
        /\ requests' = new /\ mnext' = mnext + 1
    BY <1>0, <1>2 DEF WalkOn, listVars, viewVars
  <2>2. /\ \A r : InList(requests, r) => InList(new, r)
        /\ c.address # 0 => InList(new, RequestOf(c))
        /\ \A k \in 1..Len(new) : InList(requests, new[k]) \/ new[k] = RequestOf(c)
    BY <1>0, <2>1, AskHas
  <2> HIDE DEF new
  <2>3. \A i \in 1..Len(classes) : i < mnext + 1 => i < mnext \/ i = mnext
    BY <1>0
  <2>4. ASSUME steady PROVE
           /\ \A i \in 1..Len(classes) :
                i < mnext + 1 /\ classes[i].address # 0 => InList(new, RequestOf(classes[i]))
           /\ \A k \in 1..Len(new) : \E i \in 1..Len(classes) : new[k] = RequestOf(classes[i])
    <3>1. \A r : InList(requests, r) => \E i \in 1..Len(classes) : r = RequestOf(classes[i])
      BY <2>1, <2>4 DEF ServeInv, InList
    <3> QED
      BY <2>1, <2>2, <2>3, <2>4, <3>1 DEF ServeInv
  <2>5. mnext' >= 1
    BY <1>0, <2>1
  <2>6. \A i : InList(requests, RequestOf(classes[i]))' <=> InList(new, RequestOf(classes[i]))
    BY <2>1 DEF InList, RequestOf
  <2>7. \A i : RequestOf(classes[i])' = RequestOf(classes[i])
    BY <2>1 DEF RequestOf
  <2> QED
    BY <1>2, <2>1, <2>4, <2>5, <2>6, <2>7 DEF ServeInv
<1>3. CASE EndWalk /\ UNCHANGED steady
  <2> DEFINE new == Ask(requests, preview)
  <2>1. /\ mpc = "walking" /\ mpc' = "reading" /\ mnext' = 1
        /\ UNCHANGED <<classes, preview>> /\ mnext \notin 1..Len(classes)
        /\ requests' = new
    BY <1>0, <1>3 DEF EndWalk, listVars, viewVars
  <2>2. /\ \A r : InList(requests, r) => InList(new, r)
        /\ \A k \in 1..Len(new) : InList(requests, new[k]) \/ new[k] = RequestOf(preview)
    BY <1>0, AskHas
  <2> HIDE DEF new
  <2>3. \A i \in 1..Len(classes) : i < mnext
    BY <1>0, <2>1 DEF ServeInv
  <2>4. ASSUME steady PROVE
           /\ \A k \in 1..Len(new) : \/ new[k] = RequestOf(preview)
                                     \/ \E i \in 1..Len(classes) : new[k] = RequestOf(classes[i])
           /\ \A i \in 1..Len(classes) : Unrivalled(classes[i]) => InList(new, RequestOf(classes[i]))
    <3>1. \A r : InList(requests, r) => \E i \in 1..Len(classes) : r = RequestOf(classes[i])
      BY <2>1, <2>4 DEF ServeInv, InList
    <3> QED
      BY <2>1, <2>2, <2>3, <2>4, <3>1 DEF ServeInv, Unrivalled
  <2>5. \A i : InList(requests, RequestOf(classes[i]))' <=> InList(new, RequestOf(classes[i]))
    BY <2>1 DEF InList, RequestOf
  <2>6. /\ \A i : RequestOf(classes[i])' = RequestOf(classes[i])
        /\ RequestOf(preview)' = RequestOf(preview)
    BY <2>1 DEF RequestOf
  <2>7. \A i : Unrivalled(classes[i])' <=> Unrivalled(classes[i])
    BY <2>1 DEF Unrivalled
  <2> QED
    BY <1>3, <2>1, <2>4, <2>5, <2>6, <2>7 DEF ServeInv
<1> QED
  BY <1>1, <1>2, <1>3

\* The reads: a class alone at its address is served by its own read or one of
\* just its size, and no other read takes that away.
LEMMA ServeRead ==
  ASSUME ServeInv, ListType, MemoryType, Read, UNCHANGED steady
  PROVE  ServeInv'
<1> DEFINE head == Head(requests)
<1>1. /\ mpc = "reading" /\ requests # <<>> /\ requests' = Tail(requests)
      /\ snapshots' = [snapshots EXCEPT ![head.address] = head.size]
      /\ UNCHANGED <<classes, preview, mpc, mnext>>
  BY DEF Read, listVars, viewVars
<1>2. /\ Len(requests) \in Nat \ {0} /\ head = requests[1] /\ Len(requests') = Len(requests) - 1
      /\ \A k \in 1..Len(requests') : requests'[k] = requests[k + 1]
      /\ head \in Requests
  <2>1. Len(requests) \in Nat \ {0}
    BY <1>1, EmptySeq DEF MemoryType
  <2>2. head = requests[1]
    BY <1>1 DEF MemoryType
  <2> QED
    BY <1>1, <2>1, <2>2, HeadTailProperties DEF MemoryType
<1> HIDE DEF head
<1>3. \A k \in 1..Len(requests') : k + 1 \in 1..Len(requests)
  BY <1>2
<1>4. \A k \in 1..Len(requests) : k = 1 \/ (k - 1 \in 1..Len(requests') /\ (k - 1) + 1 = k)
  BY <1>2
<1>5. \A r : InList(requests, r) => r = head \/ InList(requests', r)
  <2> SUFFICES ASSUME NEW r, NEW k \in 1..Len(requests), requests[k] = r, k # 1
               PROVE  InList(requests', r)
    BY <1>2 DEF InList
  <2>1. k - 1 \in 1..Len(requests') /\ requests'[k - 1] = requests[k]
    BY <1>2, <1>4
  <2> QED
    BY <2>1 DEF InList
<1>6. \A k \in 1..Len(requests') : InList(requests, requests'[k])
  BY <1>2, <1>3 DEF InList
<1>7. \A a \in Words : snapshots'[a] = IF a = head.address THEN head.size ELSE snapshots[a]
  BY <1>1 DEF MemoryType
<1>8. InList(requests, head)
  BY <1>2 DEF InList
<1>9. ASSUME steady
      PROVE  \A r : InList(requests, r) =>
               r = RequestOf(preview) \/ \E i \in 1..Len(classes) : r = RequestOf(classes[i])
  BY <1>1, <1>9 DEF ServeInv, InList
<1>10. ASSUME steady, NEW i \in 1..Len(classes), Unrivalled(classes[i])
       PROVE  \/ InList(requests', RequestOf(classes[i]))
              \/ snapshots'[classes[i].address] = classes[i].size
  <2> DEFINE c == classes[i]
  <2>1. c.address \in Words
    <3>1. c \in Class
      BY ElementOfSeq DEF ListType
    <3> QED
      BY <3>1 DEF Class
  <2>2. \/ InList(requests, RequestOf(c))
        \/ snapshots[c.address] = c.size
    BY <1>1, <1>10 DEF ServeInv
  <2>3. head.address = c.address => head.size = c.size
    <3>1. head = RequestOf(preview) \/ \E j \in 1..Len(classes) : head = RequestOf(classes[j])
      BY <1>8, <1>9, <1>10
    <3>2. DOMAIN classes = 1..Len(classes)
      BY LenProperties DEF ListType
    <3> QED
      BY <1>10, <3>1, <3>2 DEF RequestOf, Unrivalled
  <2>4. RequestOf(c).address = c.address /\ RequestOf(c).size = c.size
    BY DEF RequestOf
  <2> HIDE DEF c
  <2>5. head = RequestOf(c) => snapshots'[c.address] = c.size
    BY <1>7, <2>1, <2>4
  <2>6. snapshots[c.address] = c.size => snapshots'[c.address] = c.size
    BY <1>7, <2>1, <2>3
  <2> QED
    BY <1>5, <2>2, <2>5, <2>6 DEF c
<1>11. \A i : InList(requests, RequestOf(classes[i]))' <=> InList(requests', RequestOf(classes[i]))
  BY <1>1 DEF InList, RequestOf
<1>12. /\ \A i : RequestOf(classes[i])' = RequestOf(classes[i])
       /\ RequestOf(preview)' = RequestOf(preview)
  BY <1>1 DEF RequestOf
<1>13. \A i : Unrivalled(classes[i])' <=> Unrivalled(classes[i])
  BY <1>1 DEF Unrivalled
<1>14. ASSUME steady
       PROVE  \A k \in 1..Len(requests') :
                \/ requests'[k] = RequestOf(preview)
                \/ \E i \in 1..Len(classes) : requests'[k] = RequestOf(classes[i])
  BY <1>6, <1>9, <1>14
<1> QED
  BY <1>1, <1>10, <1>11, <1>12, <1>13, <1>14 DEF ServeInv

LEMMA ServeStep ==
  ASSUME ServeInv, TypeInv, [Next]_vars
  PROVE  ServeInv'
<1>1. CASE (UiStep \/ InitClasses \/ UiFault) /\ KeepSteady
  BY <1>1, MemoryLeft, ServeOthers DEF memoryVars, KeepSteady, Disturbs
<1>2. CASE StartWalk
  BY <1>2, ServeWalk DEF TypeInv
<1>3. CASE MemoryStep /\ UNCHANGED steady
  BY <1>3, ServeWalk, ServeRead DEF MemoryStep, TypeInv
<1>4. CASE FailRead /\ steady' = FALSE
  BY <1>4 DEF FailRead, ServeInv
<1>5. CASE EndTornWalk /\ steady' = FALSE
  BY <1>5 DEF EndTornWalk, ServeInv
<1>6. CASE UNCHANGED vars
  BY <1>6, ServeOthers DEF vars, listVars, viewVars, heapVars, memoryVars
<1> QED
  BY <1>1, <1>2, <1>3, <1>4, <1>5, <1>6 DEF Next, Halted

\* A cycle of the memory thread in which every read worked and nobody touched a
\* class leaves each class that is alone at its address a snapshot of its size,
\* for any number of classes, in any order, and whatever the cache held before.
THEOREM CycleServes == Spec => []CycleServesEveryClass
<1>1. ServeInv /\ TypeInv => CycleServesEveryClass
  <2> SUFFICES ASSUME ServeInv, TypeInv, steady, mpc = "reading", requests = <<>>,
                      NEW i \in DOMAIN classes, Unrivalled(classes[i])
               PROVE  snapshots[classes[i].address] = classes[i].size
    BY DEF CycleServesEveryClass
  <2>1. i \in 1..Len(classes)
    BY LenProperties DEF TypeInv, ListType
  <2>2. ~InList(requests, RequestOf(classes[i]))
    BY DEF InList
  <2> QED
    BY <2>1, <2>2 DEF ServeInv
<1> QED
  BY <1>1, TypeAlways, ServeInit, ServeStep, PTL DEF Spec

\* Which cached reads are served from bytes outside the snapshot, for words of any
\* width, every snapshot and every read: only one that runs over the top of the
\* address space and is longer than the snapshot's own address.
THEOREM CachedReadsBounded == Spec => []CachedReadsStrayAtTop
<1>1. CachedReadsStrayAtTop
  <2> SUFFICES ASSUME NEW start \in Words, NEW a \in Words, NEW n \in Words,
                      NEW len \in 1..W, Serves(start, len, a, n)
               PROVE  Inside(start, len, a, n) \/ (n > start /\ a + n >= W)
    BY DEF CachedReadsStrayAtTop
  <2>1. len \in Nat
    BY WordAssumption
  <2> QED
    BY <2>1, ServedInside
<1> QED
  BY <1>1, PTL

\* Whatever sequence has a bounded length is a sequence.
LEMMA UpToType ==
  ASSUME NEW D, NEW n \in Nat, NEW s \in UpTo(D, n)
  PROVE  s \in Seq(D)
<1>1. PICK k \in 1..n : s \in [1..k -> D]
  BY DEF UpTo
<1> QED
  BY <1>1, FunctionIsSequence

\* The algorithm behind a string scan, alone: it finds every string over every
\* alphabet, of any length.
THEOREM StringsRight == Spec => []StringScanRight
<1>1. StringScanRight
  <2> SUFFICES ASSUME NEW str \in UpTo(Alphabet, MaxText)
               PROVE  FoundFirst(str, ScanPattern("BYTE_PATTERN", StringToSignature(str),
                                                  Target, Modules))
    BY DEF StringScanRight
  <2>1. Alphabet \subseteq Int /\ MaxText \in Nat
    BY TextsAssumption
  <2>2. str \in Seq(Int)
    BY <2>1, UpToType, SeqMonotonic
  <2> QED
    BY <2>2, StringIsFound
<1> QED
  BY <1>1, PTL

\* The address bar computes the sum of every expression of numbers of a word and
\* module names that Readable admits, of any length and with any blanks around its
\* operators. 
THEOREM AddressBarRight == Spec => []ParserRight
<1>1. ParserRight
  <2> SUFFICES ASSUME NEW terms \in UpTo(Terms, MaxText), NEW n \in 0..MaxText
               PROVE  ParseInput(Render(terms, [k \in 1..n |-> Blank]), Modules)
                        = Sum(terms, Modules)
    BY DEF ParserRight
  <2> DEFINE gap == [k \in 1..n |-> Blank]
  <2>1. MaxText \in Nat
    BY TextsAssumption
  <2>2. terms \in Seq(Terms)
    BY <2>1, UpToType
  <2>3. gap \in Gaps
    <3>1. gap \in [1..n -> {Blank}] /\ n \in Nat
      BY <2>1
    <3> HIDE DEF gap
    <3> QED
      BY <3>1, FunctionIsSequence DEF Gaps
  <2> HIDE DEF gap
  <2>4. ParseInput(Render(terms, gap), Modules) = Sum(terms, Modules)
    BY <2>2, <2>3, ModulesAreModules, ExpressionsAreSums
  <2> QED
    BY <2>4 DEF gap
<1> QED
  BY <1>1, PTL
=============================================================================
