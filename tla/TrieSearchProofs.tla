-------------------------- MODULE TrieSearchProofs -------------------------
(***************************************************************************)
(* A search keeps to its frames and its k entries, what it prunes or       *)
(* abandons it may, and it answers with the best k, by prefix or with      *)
(* typos, in whatever order the children of a node come.                   *)
(***************************************************************************)
EXTENDS TypoProofs

----------------------------------------------------------------------------
(* The order of the entries.                                               *)

(* Of two names that part the lower one has the lower byte there.          *)
Lower(a, b) == \E n \in 0..(Len(a) - 1) : PartAt(a, b, n) /\ a[n + 1] < b[n + 1]

(* The lexicographic order is decided where two names part.                *)
LEMMA PrecedesIs ==
  ASSUME NEW a \in Name, NEW b \in Name
  PROVE  Precedes(a, b) <=> IsStrictPrefix(a, b) \/ Lower(a, b)
<1>1. Len(a) \in Nat /\ Len(b) \in Nat
  BY LenProperties DEF Name
<1> DEFINE m == Min({Len(a), Len(b)})
<1>2. m \in Nat /\ m <= Len(a) /\ m <= Len(b) /\ (m = Len(a) \/ m = Len(b))
  <2>1. \A x, y \in Nat : x <= y => Min({x, y}) = x /\ Min({y, x}) = x
    <3> SUFFICES ASSUME NEW x \in Nat, NEW y \in Nat, x <= y
                 PROVE  Min({x, y}) = x /\ Min({y, x}) = x
      OBVIOUS
    <3>1. {x, y} \in SUBSET Int /\ {x, y} = {y, x} /\ x \in {x, y} /\ \A j \in {x, y} : x <= j
      OBVIOUS
    <3> QED
      BY <3>1, MinIs
  <2>2. CASE Len(a) <= Len(b)
    BY <1>1, <2>1, <2>2
  <2>3. CASE Len(b) <= Len(a)
    BY <1>1, <2>1, <2>3
  <2> QED
    BY <1>1, <2>2, <2>3
<1> HIDE DEF m
<1>3. ASSUME NEW i \in 1..m
      PROVE  SubSeq(a, 1, i - 1) = SubSeq(b, 1, i - 1) <=> \A j \in 1..(i - 1) : a[j] = b[j]
  <2> DEFINE n == i - 1
             x == SubSeq(a, 1, n)
             y == SubSeq(b, 1, n)
  <2>1. n \in 0..Len(a) /\ n \in 0..Len(b)
    BY <1>1, <1>2
  <2>2. /\ x \in Name /\ Len(x) = n /\ \A j \in 1..n : x[j] = a[j]
        /\ y \in Name /\ Len(y) = n /\ \A j \in 1..n : y[j] = b[j]
    BY <2>1, Cut
  <2> HIDE DEF x, y, n
  <2>3. (\A j \in 1..n : a[j] = b[j]) => x = y
    BY <2>2, SameName
  <2>4. x = y => \A j \in 1..n : a[j] = b[j]
    BY <2>2
  <2> QED
    BY <2>3, <2>4 DEF x, y, n
<1>4. (\E i \in 1..m : SubSeq(a, 1, i - 1) = SubSeq(b, 1, i - 1) /\ a[i] < b[i])
        => Lower(a, b)
  <2> SUFFICES ASSUME NEW i \in 1..m, SubSeq(a, 1, i - 1) = SubSeq(b, 1, i - 1), a[i] < b[i]
               PROVE  Lower(a, b)
    OBVIOUS
  <2>1. \A j \in 1..(i - 1) : a[j] = b[j]
    BY <1>3
  <2>2. i - 1 \in 0..(Len(a) - 1) /\ i - 1 < Len(b) /\ (i - 1) + 1 = i
        /\ i \in 1..Len(a) /\ i \in 1..Len(b)
    BY <1>1, <1>2
  <2>3. a[i] \in Nat /\ b[i] \in Nat
    BY <2>2, ElementOfSeq DEF Name
  <2>4. a[i] # b[i]
    BY <2>3
  <2>5. PartAt(a, b, i - 1)
    BY <2>1, <2>2, <2>4 DEF PartAt
  <2> QED
    BY <2>2, <2>5 DEF Lower
<1>5. Lower(a, b) =>
        \E i \in 1..m : SubSeq(a, 1, i - 1) = SubSeq(b, 1, i - 1) /\ a[i] < b[i]
  <2> SUFFICES ASSUME NEW n \in 0..(Len(a) - 1), PartAt(a, b, n), a[n + 1] < b[n + 1]
               PROVE  \E i \in 1..m : SubSeq(a, 1, i - 1) = SubSeq(b, 1, i - 1) /\ a[i] < b[i]
    BY DEF Lower
  <2>1. n < Len(b) /\ \A j \in 1..n : a[j] = b[j]
    BY DEF PartAt
  <2>2. n + 1 \in 1..m /\ (n + 1) - 1 = n
    BY <1>1, <1>2, <2>1
  <2>3. SubSeq(a, 1, (n + 1) - 1) = SubSeq(b, 1, (n + 1) - 1)
    BY <1>3, <2>1, <2>2
  <2> QED
    BY <2>2, <2>3
<1> QED
  BY <1>4, <1>5 DEF Precedes, m

(* It is a strict order, and of two names one precedes the other.          *)
LEMMA PrecedesOrder ==
  ASSUME NEW a \in Name, NEW b \in Name, NEW c \in Name
  PROVE  /\ ~Precedes(a, a)
         /\ a # b => Precedes(a, b) \/ Precedes(b, a)
         /\ Precedes(a, b) /\ Precedes(b, c) => Precedes(a, c)
<1>1. /\ Len(a) \in Nat /\ Len(b) \in Nat /\ Len(c) \in Nat
      /\ \A i \in 1..Len(a) : a[i] \in Nat
      /\ \A i \in 1..Len(b) : b[i] \in Nat
      /\ \A i \in 1..Len(c) : c[i] \in Nat
  BY LenProperties, ElementOfSeq DEF Name
<1>2. ~Precedes(a, a)
  <2>1. ~IsStrictPrefix(a, a) /\ ~Lower(a, a)
    BY DEF IsStrictPrefix, Lower, PartAt
  <2> QED
    BY <2>1, PrecedesIs
<1>3. ASSUME a # b PROVE Precedes(a, b) \/ Precedes(b, a)
  <2>1. IsPrefix(a, b) => Precedes(a, b)
    BY <1>3, PrecedesIs DEF IsStrictPrefix
  <2>2. IsPrefix(b, a) => Precedes(b, a)
    BY <1>3, PrecedesIs DEF IsStrictPrefix
  <2>3. ASSUME NEW n \in 0..(Len(a) - 1), PartAt(a, b, n)
        PROVE  Precedes(a, b) \/ Precedes(b, a)
    <3>1. n < Len(b) /\ n < Len(a) /\ n \in 0..(Len(b) - 1)
      BY <1>1, <2>3 DEF PartAt
    <3>2. n + 1 \in 1..Len(a) /\ n + 1 \in 1..Len(b)
      BY <1>1, <3>1
    <3>3. a[n + 1] < b[n + 1] \/ b[n + 1] < a[n + 1]
      <4>1. a[n + 1] \in Nat /\ b[n + 1] \in Nat /\ a[n + 1] # b[n + 1]
        BY <1>1, <2>3, <3>2 DEF PartAt
      <4> QED
        BY <4>1
    <3>4. PartAt(b, a, n)
      BY <2>3, <3>1 DEF PartAt
    <3>5. Lower(a, b) \/ Lower(b, a)
      BY <2>3, <3>1, <3>3, <3>4 DEF Lower
    <3> QED
      BY <3>5, PrecedesIs
  <2> QED
    BY <2>1, <2>2, <2>3, PartOrPrefix
<1>4. ASSUME IsStrictPrefix(a, b), IsStrictPrefix(b, c) PROVE IsStrictPrefix(a, c)
  <2>1. IsPrefix(a, b) /\ Len(a) < Len(b) /\ IsPrefix(b, c) /\ Len(b) < Len(c)
    BY <1>4, AboveIs DEF Above
  <2>2. IsPrefix(a, c) /\ Len(a) < Len(c)
    BY <1>1, <2>1, PrefixOrder
  <2> QED
    BY <2>2, AboveIs DEF Above
<1>5. ASSUME IsStrictPrefix(a, b), NEW n \in 0..(Len(b) - 1), PartAt(b, c, n),
             b[n + 1] < c[n + 1]
      PROVE  IsStrictPrefix(a, c) \/ Lower(a, c)
  <2>1. /\ Len(a) < Len(b) /\ \A i \in 1..Len(a) : a[i] = b[i]
    BY <1>5, AboveIs, PrefixBytes DEF Above
  <2>2. n < Len(c) /\ n \in Nat /\ \A i \in 1..n : b[i] = c[i]
    BY <1>1, <1>5 DEF PartAt
  <2>3. CASE n < Len(a)
    <3>1. n \in 0..(Len(a) - 1) /\ n + 1 \in 1..Len(a) /\ \A i \in 1..n : i \in 1..Len(a)
      BY <1>1, <2>2, <2>3
    <3>2. PartAt(a, c, n) /\ a[n + 1] < c[n + 1]
      BY <1>5, <2>1, <2>2, <3>1 DEF PartAt
    <3> QED
      BY <3>1, <3>2 DEF Lower
  <2>4. CASE Len(a) <= n
    <3>1. \A i \in 1..Len(a) : i \in 1..n
      BY <1>1, <2>2, <2>4
    <3>2. \A i \in 1..Len(a) : a[i] = c[i]
      BY <2>1, <2>2, <3>1
    <3>3. Len(a) < Len(c) /\ Len(a) <= Len(c)
      BY <1>1, <2>2, <2>4
    <3>4. IsPrefix(a, c)
      BY <3>2, <3>3, PrefixBytes
    <3> QED
      BY <3>3, <3>4, AboveIs DEF Above
  <2> QED
    BY <1>1, <2>2, <2>3, <2>4
<1>6. ASSUME NEW n \in 0..(Len(a) - 1), PartAt(a, b, n), a[n + 1] < b[n + 1],
             IsStrictPrefix(b, c)
      PROVE  Lower(a, c)
  <2>1. /\ Len(b) < Len(c) /\ \A i \in 1..Len(b) : b[i] = c[i]
    BY <1>6, AboveIs, PrefixBytes DEF Above
  <2>2. n < Len(b) /\ n \in Nat /\ \A i \in 1..n : a[i] = b[i]
    BY <1>1, <1>6 DEF PartAt
  <2>3. n < Len(c) /\ n + 1 \in 1..Len(b) /\ \A i \in 1..n : i \in 1..Len(b)
    BY <1>1, <2>1, <2>2
  <2>4. c[n + 1] = b[n + 1] /\ \A i \in 1..n : a[i] = c[i]
    BY <2>1, <2>2, <2>3
  <2>5. PartAt(a, c, n) /\ a[n + 1] < c[n + 1]
    <3>1. a[n + 1] # b[n + 1]
      BY <1>6 DEF PartAt
    <3> QED
      BY <1>6, <2>3, <2>4, <3>1 DEF PartAt
  <2> QED
    BY <2>5 DEF Lower
<1>7. ASSUME NEW n \in 0..(Len(a) - 1), PartAt(a, b, n), a[n + 1] < b[n + 1],
             NEW m \in 0..(Len(b) - 1), PartAt(b, c, m), b[m + 1] < c[m + 1]
      PROVE  Lower(a, c)
  <2>1. /\ n < Len(b) /\ n < Len(a) /\ n \in Nat /\ \A i \in 1..n : a[i] = b[i]
        /\ m < Len(c) /\ m < Len(b) /\ m \in Nat /\ \A i \in 1..m : b[i] = c[i]
    BY <1>1, <1>7 DEF PartAt
  <2>2. CASE n < m
    <3>1. n < Len(c) /\ n + 1 \in 1..m /\ \A i \in 1..n : i \in 1..m
      BY <1>1, <2>1, <2>2
    <3>2. b[n + 1] = c[n + 1] /\ \A i \in 1..n : a[i] = c[i]
      BY <2>1, <3>1
    <3>3. a[n + 1] < c[n + 1] /\ a[n + 1] # c[n + 1]
      BY <1>7, <3>2 DEF PartAt
    <3>4. PartAt(a, c, n)
      BY <3>1, <3>2, <3>3 DEF PartAt
    <3> QED
      BY <3>3, <3>4 DEF Lower
  <2>3. CASE m < n
    <3>1. m \in 0..(Len(a) - 1) /\ m + 1 \in 1..n /\ \A i \in 1..m : i \in 1..n
      BY <1>1, <2>1, <2>3
    <3>2. a[m + 1] = b[m + 1] /\ \A i \in 1..m : a[i] = c[i]
      BY <2>1, <3>1
    <3>3. a[m + 1] < c[m + 1] /\ a[m + 1] # c[m + 1]
      BY <1>7, <3>2 DEF PartAt
    <3>4. PartAt(a, c, m)
      BY <2>1, <3>2, <3>3 DEF PartAt
    <3> QED
      BY <3>1, <3>3, <3>4 DEF Lower
  <2>4. CASE n = m
    <3>1. \A i \in 1..n : a[i] = c[i]
      BY <2>1, <2>4
    <3>2. a[n + 1] < c[n + 1] /\ a[n + 1] # c[n + 1]
      <4>1. n + 1 \in 1..Len(a) /\ n + 1 \in 1..Len(b) /\ n + 1 \in 1..Len(c)
        BY <1>1, <2>1, <2>4
      <4>2. a[n + 1] \in Nat /\ b[n + 1] \in Nat /\ c[n + 1] \in Nat
        BY <1>1, <4>1
      <4> QED
        BY <1>7, <2>4, <4>2
    <3>3. PartAt(a, c, n)
      BY <2>1, <2>4, <3>1, <3>2 DEF PartAt
    <3> QED
      BY <3>2, <3>3 DEF Lower
  <2> QED
    BY <2>1, <2>2, <2>3, <2>4
<1>8. ASSUME Precedes(a, b), Precedes(b, c) PROVE Precedes(a, c)
  <2>1. IsStrictPrefix(a, b) \/ Lower(a, b)
    BY <1>8, PrecedesIs
  <2>2. IsStrictPrefix(b, c) \/ Lower(b, c)
    BY <1>8, PrecedesIs
  <2>3. IsStrictPrefix(a, c) \/ Lower(a, c)
    BY <1>4, <1>5, <1>6, <1>7, <2>1, <2>2 DEF Lower
  <2> QED
    BY <2>3, PrecedesIs
<1> QED
  BY <1>2, <1>3, <1>8

----------------------------------------------------------------------------
(* The heap.                                                               *)

IsEntry(e) == e.score \in Nat /\ e.term \in Name

Entries(hp) ==
  /\ IsFiniteSet(hp)
  /\ \A e \in hp : IsEntry(e)
  /\ \A e, f \in hp : e.term = f.term => e = f

(* Of two entries for different terms one is better.                       *)
LEMMA BetterOrder ==
  ASSUME NEW e, IsEntry(e), NEW f, IsEntry(f), NEW g, IsEntry(g)
  PROVE  /\ ~Better(e, e)
         /\ e.term # f.term => Better(e, f) \/ Better(f, e)
         /\ ~ (Better(e, f) /\ Better(f, e))
         /\ Better(e, f) /\ Better(f, g) => Better(e, g)
         /\ Better(e, f) => e.score >= f.score
<1>1. /\ e.score \in Nat /\ f.score \in Nat /\ g.score \in Nat
      /\ e.term \in Name /\ f.term \in Name /\ g.term \in Name
  BY DEF IsEntry
<1> DEFINE a == e.term
           b == f.term
           c == g.term
<1> HIDE DEF a, b, c
<1>2. /\ ~Precedes(a, a)
      /\ a # b => Precedes(a, b) \/ Precedes(b, a)
      /\ Precedes(a, b) /\ Precedes(b, c) => Precedes(a, c)
      /\ ~ (Precedes(a, b) /\ Precedes(b, a))
  <2>1. a \in Name /\ b \in Name /\ c \in Name
    BY <1>1 DEF a, b, c
  <2>2. Precedes(a, b) /\ Precedes(b, a) => Precedes(a, a)
    BY <2>1, PrecedesOrder
  <2> QED
    BY <2>1, <2>2, PrecedesOrder
<1>3. /\ Better(e, f) <=> e.score > f.score \/ (e.score = f.score /\ Precedes(a, b))
      /\ Better(f, e) <=> f.score > e.score \/ (f.score = e.score /\ Precedes(b, a))
      /\ Better(f, g) <=> f.score > g.score \/ (f.score = g.score /\ Precedes(b, c))
      /\ Better(e, g) <=> e.score > g.score \/ (e.score = g.score /\ Precedes(a, c))
      /\ Better(e, e) <=> e.score > e.score \/ (e.score = e.score /\ Precedes(a, a))
  BY DEF Better, a, b, c
<1>4. ~Better(e, e)
  BY <1>1, <1>2, <1>3
<1>5. a # b => Better(e, f) \/ Better(f, e)
  BY <1>1, <1>2, <1>3
<1>6. ~ (Better(e, f) /\ Better(f, e))
  BY <1>1, <1>2, <1>3
<1>7. Better(e, f) /\ Better(f, g) => Better(e, g)
  BY <1>1, <1>2, <1>3
<1>8. Better(e, f) => e.score >= f.score
  BY <1>1, <1>3
<1> QED
  BY <1>4, <1>5, <1>6, <1>7, <1>8 DEF a, b

(* A heap that is not empty has a worst entry: the one that most others    *)
(* are better than.                                                        *)
LEMMA WorstIs ==
  ASSUME NEW H, Entries(H), H # {}
  PROVE  /\ Worst(H) \in H
         /\ \A f \in H \ {Worst(H)} : Better(f, Worst(H))
<1> DEFINE Ahead(e) == {f \in H : Better(f, e)}
           T == {Cardinality(Ahead(e)) : e \in H}
<1>1. /\ IsFiniteSet(H) /\ Cardinality(H) \in Nat
      /\ \A e \in H : IsEntry(e)
  BY FS_CardinalityType DEF Entries
<1>2. \A e \in H : /\ IsFiniteSet(Ahead(e)) /\ Cardinality(Ahead(e)) \in Nat
                   /\ Cardinality(Ahead(e)) \in 0..Cardinality(H)
  <2> SUFFICES ASSUME NEW e \in H
               PROVE  /\ IsFiniteSet(Ahead(e)) /\ Cardinality(Ahead(e)) \in Nat
                      /\ Cardinality(Ahead(e)) \in 0..Cardinality(H)
    OBVIOUS
  <2>1. Ahead(e) \in SUBSET H
    OBVIOUS
  <2> HIDE DEF Ahead
  <2>2. IsFiniteSet(Ahead(e)) /\ Cardinality(Ahead(e)) <= Cardinality(H)
    BY <1>1, <2>1, FS_Subset
  <2>3. Cardinality(Ahead(e)) \in Nat
    BY <2>2, FS_CardinalityType
  <2> QED
    BY <1>1, <2>2, <2>3
<1>3. PICK e \in H : \A f \in H : Cardinality(Ahead(f)) <= Cardinality(Ahead(e))
  <2>1. T \in SUBSET (0..Cardinality(H)) /\ T # {}
    BY <1>2
  <2>2. Max(T) \in T /\ \A j \in T : j <= Max(T)
    <3> HIDE DEF T
    <3> QED
      BY <1>1, <2>1, EndsExist
  <2>3. PICK e \in H : Max(T) = Cardinality(Ahead(e))
    BY <2>2
  <2>4. \A f \in H : Cardinality(Ahead(f)) \in T
    OBVIOUS
  <2> HIDE DEF T, Ahead
  <2>5. \A f \in H : Cardinality(Ahead(f)) <= Cardinality(Ahead(e))
    BY <2>2, <2>3, <2>4
  <2> QED
    BY <2>5
<1>4. ASSUME NEW f \in H \ {e}, ~Better(f, e) PROVE FALSE
  <2>1. Better(e, f)
    <3>1. e.term # f.term
      BY DEF Entries
    <3> QED
      BY <1>1, <1>4, <3>1, BetterOrder
  <2>2. e \notin Ahead(e) /\ e \in Ahead(f)
    BY <1>1, <2>1, BetterOrder
  <2>3. Ahead(e) \subseteq Ahead(f)
    <3> SUFFICES ASSUME NEW g \in H, Better(g, e) PROVE Better(g, f)
      OBVIOUS
    <3> QED
      BY <1>1, <2>1, BetterOrder
  <2>4. Ahead(e) \in SUBSET (Ahead(f) \ {e})
    BY <2>2, <2>3
  <2> HIDE DEF Ahead
  <2>5. IsFiniteSet(Ahead(f)) /\ Cardinality(Ahead(f)) \in Nat /\ Cardinality(Ahead(e)) \in Nat
    BY <1>2
  <2>6. /\ IsFiniteSet(Ahead(f) \ {e})
        /\ Cardinality(Ahead(f) \ {e}) = Cardinality(Ahead(f)) - 1
    BY <2>2, <2>5, FS_RemoveElement
  <2>7. Cardinality(Ahead(e)) <= Cardinality(Ahead(f) \ {e})
    BY <2>4, <2>6, FS_Subset
  <2>8. Cardinality(Ahead(f)) <= Cardinality(Ahead(e))
    BY <1>3
  <2> QED
    BY <2>5, <2>6, <2>7, <2>8
<1>5. \E x \in H : \A f \in H \ {x} : Better(f, x)
  BY <1>4
<1> QED
  BY <1>5 DEF Worst

(* All entries of H, each once, the best first.                            *)
Listed(s, H) ==
  /\ s \in [1..Cardinality(H) -> H]
  /\ \A e \in H : \E i \in 1..Cardinality(H) : s[i] = e
  /\ \A i, j \in 1..Cardinality(H) : i < j => Better(s[i], s[j])

(* into_sorted_vec has such a list to return: an entry comes behind those  *)
(* that are better, and no two come behind equally many.                   *)
LEMMA SortedIs ==
  ASSUME NEW H, Entries(H)
  PROVE  Listed(Sorted(H), H)
<1> DEFINE Ahead(e) == {f \in H : Better(f, e)}
           n == Cardinality(H)
           rank == [e \in H |-> Cardinality(Ahead(e)) + 1]
           I == 1..n
<1>1. IsFiniteSet(H) /\ n \in Nat /\ \A e \in H : IsEntry(e)
  BY FS_CardinalityType DEF Entries
<1>2. ASSUME NEW e \in H
      PROVE  IsFiniteSet(Ahead(e)) /\ Cardinality(Ahead(e)) \in 0..(n - 1)
  <2>1. IsFiniteSet(H \ {e}) /\ Cardinality(H \ {e}) = n - 1
    BY <1>1, FS_RemoveElement
  <2>2. Ahead(e) \in SUBSET (H \ {e})
    BY <1>1, BetterOrder
  <2> HIDE DEF Ahead
  <2>3. IsFiniteSet(Ahead(e)) /\ Cardinality(Ahead(e)) <= Cardinality(H \ {e})
    BY <2>1, <2>2, FS_Subset
  <2>4. Cardinality(Ahead(e)) \in Nat
    BY <2>3, FS_CardinalityType
  <2> HIDE DEF n
  <2> QED
    BY <1>1, <2>1, <2>3, <2>4
<1>3. ASSUME NEW e \in H, NEW f \in H, Better(e, f)
      PROVE  Cardinality(Ahead(e)) < Cardinality(Ahead(f))
  <2>1. e \in Ahead(f) /\ e \notin Ahead(e)
    BY <1>1, <1>3, BetterOrder
  <2>2. Ahead(e) \subseteq Ahead(f)
    <3> SUFFICES ASSUME NEW g \in H, Better(g, e) PROVE Better(g, f)
      OBVIOUS
    <3> QED
      BY <1>1, <1>3, BetterOrder
  <2>3. Ahead(e) \in SUBSET (Ahead(f) \ {e})
    BY <2>1, <2>2
  <2>4. IsFiniteSet(Ahead(f)) /\ Cardinality(Ahead(f)) \in Nat /\ Cardinality(Ahead(e)) \in Nat
    <3> HIDE DEF Ahead
    <3>1. IsFiniteSet(Ahead(f)) /\ IsFiniteSet(Ahead(e))
      BY <1>2
    <3> QED
      BY <3>1, FS_CardinalityType
  <2> HIDE DEF Ahead
  <2>5. /\ IsFiniteSet(Ahead(f) \ {e})
        /\ Cardinality(Ahead(f) \ {e}) = Cardinality(Ahead(f)) - 1
    BY <2>1, <2>4, FS_RemoveElement
  <2>6. Cardinality(Ahead(e)) <= Cardinality(Ahead(f) \ {e})
    BY <2>3, <2>5, FS_Subset
  <2> QED
    BY <2>4, <2>5, <2>6
<1>4. /\ rank \in [H -> I]
      /\ \A e \in H : rank[e] \in I
      /\ \A e, f \in H : Better(e, f) => rank[e] < rank[f]
  <2>1. \A e \in H : Cardinality(Ahead(e)) + 1 \in I /\ Cardinality(Ahead(e)) \in Nat
    <3> SUFFICES ASSUME NEW e \in H
                 PROVE  Cardinality(Ahead(e)) + 1 \in I /\ Cardinality(Ahead(e)) \in Nat
      OBVIOUS
    <3>1. Cardinality(Ahead(e)) \in 0..(n - 1)
      BY <1>2
    <3> HIDE DEF Ahead, n
    <3> QED
      BY <1>1, <3>1
  <2> HIDE DEF Ahead, n, I
  <2> QED
    BY <1>3, <2>1
<1> HIDE DEF rank
<1>5. \A e, f \in H : e # f => Better(e, f) \/ Better(f, e)
  <2> SUFFICES ASSUME NEW e \in H, NEW f \in H, e # f PROVE Better(e, f) \/ Better(f, e)
    OBVIOUS
  <2>1. e.term # f.term
    BY DEF Entries
  <2> QED
    BY <1>1, <2>1, BetterOrder
<1>6. \A e, f \in H : rank[e] = rank[f] => e = f
  <2> SUFFICES ASSUME NEW e \in H, NEW f \in H, e # f PROVE rank[e] # rank[f]
    OBVIOUS
  <2>1. rank[e] \in Nat /\ rank[f] \in Nat
    BY <1>1, <1>4
  <2> QED
    BY <1>4, <1>5, <2>1
<1>7. \A i \in I : \E e \in H : rank[e] = i
  <2>1. rank \in Injection(H, I)
    BY <1>4, <1>6 DEF Injection, IsInjective
  <2>2. IsFiniteSet(I) /\ Cardinality(I) = n
    BY <1>1, FS_Interval
  <2>3. rank \in Surjection(H, I)
    <3> HIDE DEF I
    <3> QED
      BY <2>1, <2>2, FS_Injection
  <2> HIDE DEF I
  <2> QED
    BY <2>3 DEF Surjection
<1> DEFINE s == [i \in I |-> CHOOSE e \in H : rank[e] = i]
<1>8. \A i \in I : s[i] \in H /\ rank[s[i]] = i
  <2> HIDE DEF I
  <2> QED
    BY <1>7
<1>9. s \in [I -> H]
  <2> HIDE DEF I
  <2> QED
    BY <1>8
<1> HIDE DEF s
<1>10. \A i, j \in I : i < j => Better(s[i], s[j])
  <2> SUFFICES ASSUME NEW i \in I, NEW j \in I, i < j PROVE Better(s[i], s[j])
    OBVIOUS
  <2>1. s[i] \in H /\ s[j] \in H /\ rank[s[i]] = i /\ rank[s[j]] = j
    BY <1>8
  <2>2. s[i] # s[j] /\ ~ (rank[s[j]] < rank[s[i]])
    BY <1>1, <2>1
  <2> QED
    BY <1>4, <1>5, <2>1, <2>2
<1> DEFINE P(x) == \A i, j \in I : i < j => Better(x[i], x[j])
           t == CHOOSE x \in [I -> H] : P(x)
<1>11. t \in [I -> H] /\ P(t)
  <2>1. s \in [I -> H] /\ P(s)
    BY <1>9, <1>10
  <2> HIDE DEF P, I
  <2> QED
    BY <2>1
<1>12. t = Sorted(H)
  BY DEF Sorted
<1> HIDE DEF t
<1>13. \A e \in H : \E i \in I : t[i] = e
  <2>1. t \in [I -> H] /\ \A i, j \in I : i < j => Better(t[i], t[j])
    BY <1>11
  <2>2. \A i, j \in I : t[i] = t[j] => i = j
    <3> SUFFICES ASSUME NEW i \in I, NEW j \in I, i < j PROVE t[i] # t[j]
      BY <1>1
    <3>1. Better(t[i], t[j]) /\ IsEntry(t[i]) /\ IsEntry(t[j])
      BY <1>1, <2>1
    <3> QED
      BY <3>1, BetterOrder
  <2>3. t \in Injection(I, H)
    BY <2>1, <2>2 DEF Injection, IsInjective
  <2>4. IsFiniteSet(I) /\ Cardinality(I) = n
    BY <1>1, FS_Interval
  <2>5. t \in Surjection(I, H)
    <3> HIDE DEF I
    <3> QED
      BY <1>1, <2>3, <2>4, FS_Injection
  <2> HIDE DEF I
  <2> QED
    BY <2>5 DEF Surjection
<1> QED
  BY <1>11, <1>12, <1>13 DEF Listed

(* A full heap has no place for f: all it holds is better.                 *)
Outdone(f, H, k) == Cardinality(H) = k /\ \A g \in H : Better(g, f)

(* offer keeps the best: what it leaves out, or left out before, is worse  *)
(* than all of k entries, and the cutoff does not fall.                    *)
LEMMA OfferIs ==
  ASSUME NEW k \in Nat \ {0}, NEW H, Entries(H), Cardinality(H) <= k,
         NEW e, IsEntry(e), \A f \in H : f.term # e.term,
         NEW G, G = Offer(k, H, e)
  PROVE  /\ Entries(G) /\ Cardinality(G) <= k /\ G \subseteq H \cup {e}
         /\ \A f \in H \cup {e} : f \in G \/ Outdone(f, G, k)
         /\ \A f : IsEntry(f) /\ Outdone(f, H, k) => Outdone(f, G, k)
         /\ \A c \in Cutoff(k, H) : \E d \in Cutoff(k, G) : d >= c
<1>1. /\ IsFiniteSet(H) /\ Cardinality(H) \in Nat
      /\ \A f \in H : IsEntry(f) /\ f \in H
      /\ \A f, g \in H : f.term = g.term => f = g
      /\ e \notin H
  BY FS_CardinalityType DEF Entries
<1>2. CASE Cardinality(H) < k
  <2>1. G = H \cup {e} /\ Cutoff(k, H) = {}
    BY <1>1, <1>2 DEF Offer, Full, Cutoff
  <2>2. IsFiniteSet(G) /\ Cardinality(G) = Cardinality(H) + 1
    BY <1>1, <2>1, FS_AddElement
  <2>3. Entries(G)
    BY <1>1, <2>1, <2>2 DEF Entries
  <2>4. \A f : ~Outdone(f, H, k)
    BY <1>1, <1>2 DEF Outdone
  <2> QED
    BY <1>1, <1>2, <2>1, <2>2, <2>3, <2>4
<1>3. CASE Cardinality(H) = k
  <2> DEFINE w == Worst(H)
  <2>1. H # {}
    BY <1>3, FS_EmptySet
  <2>2. w \in H /\ \A f \in H \ {w} : Better(f, w)
    BY <2>1, WorstIs
  <2>3. Full(k, H) /\ Cutoff(k, H) = {w.score}
    BY <1>1, <1>3 DEF Full, Cutoff
  <2>4. G = IF Better(e, w) THEN (H \ {w}) \cup {e} ELSE H
    BY <2>3 DEF Offer
  <2> HIDE DEF w
  <2>5. CASE Better(e, w)
    <3>1. G = (H \ {w}) \cup {e}
      BY <2>4, <2>5
    <3>2. IsFiniteSet(G) /\ Cardinality(G) = k
      <4>1. IsFiniteSet(H \ {w}) /\ Cardinality(H \ {w}) = Cardinality(H) - 1
        BY <1>1, <2>2, FS_RemoveElement
      <4>2. e \notin H \ {w}
        BY <1>1
      <4>3. /\ IsFiniteSet((H \ {w}) \cup {e})
            /\ Cardinality((H \ {w}) \cup {e}) = Cardinality(H \ {w}) + 1
        BY <4>1, <4>2, FS_AddElement
      <4> QED
        BY <1>1, <1>3, <3>1, <4>1, <4>3
    <3>3. Entries(G)
      BY <1>1, <3>1, <3>2 DEF Entries
    <3>4. Outdone(w, G, k)
      BY <2>2, <2>5, <3>1, <3>2 DEF Outdone
    <3>5. ASSUME NEW f, IsEntry(f), Outdone(f, H, k) PROVE Outdone(f, G, k)
      <4>1. Better(w, f)
        BY <2>2, <3>5 DEF Outdone
      <4>2. Better(e, f)
        BY <1>1, <2>2, <2>5, <3>5, <4>1, BetterOrder
      <4> QED
        BY <3>1, <3>2, <3>5, <4>2 DEF Outdone
    <3>6. \E d \in Cutoff(k, G) : d >= w.score
      <4>1. Full(k, G)
        BY <1>1, <1>3, <3>2 DEF Full
      <4>2. G # {}
        BY <3>1
      <4>3. Worst(G) \in G
        BY <3>3, <4>2, WorstIs
      <4>4. Better(Worst(G), w)
        BY <2>2, <2>5, <3>1, <4>3
      <4>5. IsEntry(Worst(G)) /\ IsEntry(w)
        BY <1>1, <2>2, <3>3, <4>3 DEF Entries
      <4>6. Worst(G).score >= w.score
        BY <4>4, <4>5, BetterOrder
      <4>7. Cutoff(k, G) = {Worst(G).score}
        BY <4>1 DEF Cutoff
      <4> QED
        BY <4>6, <4>7
    <3>7. \A f \in H \cup {e} : f \in G \/ Outdone(f, G, k)
      BY <3>1, <3>4
    <3> QED
      BY <1>3, <2>3, <3>1, <3>2, <3>3, <3>5, <3>6, <3>7
  <2>6. CASE ~Better(e, w)
    <3>1. G = H
      BY <2>4, <2>6
    <3>2. Better(w, e)
      BY <1>1, <2>2, <2>6, BetterOrder
    <3>3. \A f \in H : Better(f, e)
      <4> SUFFICES ASSUME NEW f \in H PROVE Better(f, e)
        OBVIOUS
      <4>1. CASE f = w
        BY <3>2, <4>1
      <4>2. CASE f # w
        <5>1. Better(f, w)
          BY <2>2, <4>2
        <5> QED
          BY <1>1, <2>2, <3>2, <5>1, BetterOrder
      <4> QED
        BY <4>1, <4>2
    <3>4. Outdone(e, G, k)
      BY <1>3, <3>1, <3>3 DEF Outdone
    <3>5. w.score \in Nat
      BY <1>1, <2>2 DEF IsEntry
    <3> QED
      BY <2>3, <3>1, <3>4, <3>5
  <2> QED
    BY <2>5, <2>6
<1> QED
  BY <1>1, <1>2, <1>3

----------------------------------------------------------------------------
(* The stack.                                                              *)

IsSeq(s) == \E S : s \in Seq(S)

IsFrame(f) == f = [node |-> f.node, row |-> f.row, pending |-> f.pending]

(* A sequence has its elements at the positions up to its length.          *)
LEMMA SeqIs ==
  ASSUME NEW s, IsSeq(s)
  PROVE  Len(s) \in Nat /\ DOMAIN s = 1..Len(s)
BY LenProperties DEF IsSeq

Pushed(a, s, x) ==
  /\ IsSeq(a) /\ Len(a) = Len(s) + 1 /\ a[Len(s) + 1] = x
  /\ \A i \in 1..Len(s) : a[i] = s[i]

(* Pushing.                                                                *)
LEMMA PushIs ==
  ASSUME NEW s, IsSeq(s), NEW x, NEW a, a = Append(s, x)
  PROVE  Pushed(a, s, x)
<1>1. PICK S : s \in Seq(S)
  BY DEF IsSeq
<1> DEFINE T == S \cup {x}
<1>2. s \in Seq(T) /\ x \in T /\ Len(s) \in Nat
  <2>1. Len(s) \in Nat /\ \A i \in 1..Len(s) : s[i] \in T
    BY <1>1, LenProperties, ElementOfSeq
  <2>2. s \in [1..Len(s) -> S]
    BY <1>1, LenProperties
  <2>3. s \in [1..Len(s) -> T]
    BY <2>1, <2>2
  <2> HIDE DEF T
  <2>4. s \in Seq(T)
    BY <2>1, <2>3, SeqDef
  <2> QED
    BY <2>1, <2>4 DEF T
<1> HIDE DEF T
<1>3. /\ a \in Seq(T) /\ Len(a) = Len(s) + 1
      /\ \A i \in 1..Len(s) : a[i] = s[i]
      /\ a[Len(s) + 1] = x
  BY <1>2, AppendProperties
<1> QED
  BY <1>3 DEF IsSeq, Pushed

(* Popping.                                                                *)
LEMMA PopIs ==
  ASSUME NEW s, IsSeq(s), Len(s) > 0, NEW a, a = SubSeq(s, 1, Len(s) - 1)
  PROVE  /\ IsSeq(a) /\ Len(a) = Len(s) - 1
         /\ \A i \in 1..(Len(s) - 1) : a[i] = s[i]
<1>1. PICK S : s \in Seq(S)
  BY DEF IsSeq
<1>2. Len(s) \in Nat /\ \A i \in 1..Len(s) : s[i] \in S
  BY <1>1, LenProperties, ElementOfSeq
<1> DEFINE n == Len(s) - 1
<1>3. n \in Nat /\ \A i \in 1..n : s[i] \in S
  BY <1>2
<1> HIDE DEF n
<1>4. /\ SubSeq(s, 1, n) \in Seq(S)
      /\ Len(SubSeq(s, 1, n)) = IF 1 <= n THEN n - 1 + 1 ELSE 0
      /\ \A i \in 1..(n - 1 + 1) : SubSeq(s, 1, n)[i] = s[1 + i - 1]
  BY <1>1, <1>3, SubSeqProperties
<1>5. SubSeq(s, 1, n) \in Seq(S) /\ Len(SubSeq(s, 1, n)) = n
      /\ \A i \in 1..n : SubSeq(s, 1, n)[i] = s[i]
  BY <1>3, <1>4
<1> QED
  BY <1>5 DEF IsSeq, n

(* Two names of different parts of the trie.                               *)
Apart(a, b) == ~IsPrefix(a, b) /\ ~IsPrefix(b, a)
AllApart(P, c) == \A d \in P : Apart(d, c)

(* A walk under way: a path of frames, each left with children of its own  *)
(* node, none of them on the way to the nodes of the frames above it.      *)
Frames(st, D) ==
  /\ IsSeq(st)
  /\ \A i \in 1..Len(st) :
       IsFrame(st[i]) /\ st[i].node \in D /\ st[i].pending \subseteq Below(D, st[i].node)
  /\ \A i \in 2..Len(st) : st[i].node \in Below(D, st[i - 1].node)
  /\ \A j \in 1..Len(st) : \A i \in 1..(j - 1) :
       \A d \in st[i].pending : Apart(d, st[j].node)

(* The innermost frame: its node, and the children its loop has left.      *)
Here(st) == st[Len(st)].node
Loop(st) == st[Len(st)].pending

(* The subtrees the walk has still to come to.                             *)
Pending(st) == UNION {st[i].pending : i \in 1..Len(st)}

(* Children are apart, and what is apart from a node is so from those      *)
(* below it.                                                               *)
LEMMA ChildrenApart ==
  ASSUME NEW D, D \subseteq Name, NEW p \in Name, NEW c \in Below(D, p)
  PROVE  /\ c \in D /\ c \in Name /\ IsPrefix(p, c) /\ ~IsPrefix(c, p)
         /\ \A d \in Below(D, p) : d # c => Apart(d, c)
         /\ \A d \in Name : Apart(d, p) => Apart(d, c)
<1>1. c \in D /\ c \in Name /\ Above(p, c) /\ \A m \in D : ~ (Above(p, m) /\ Above(m, c))
  BY DEF Below
<1>2. IsPrefix(p, c) /\ Len(p) < Len(c) /\ Len(p) \in Nat /\ Len(c) \in Nat
  BY <1>1, AboveIs
<1>3. ~IsPrefix(c, p)
  BY <1>1, <1>2, PrefixBytes
<1>4. ASSUME NEW d \in Below(D, p), d # c PROVE Apart(d, c)
  <2>1. d \in D /\ d \in Name /\ Above(p, d) /\ \A m \in D : ~ (Above(p, m) /\ Above(m, d))
    BY DEF Below
  <2>2. IsPrefix(d, c) => Above(d, c)
    BY <1>4 DEF Above, IsStrictPrefix
  <2>3. IsPrefix(c, d) => Above(c, d)
    BY <1>4 DEF Above, IsStrictPrefix
  <2> QED
    BY <1>1, <2>1, <2>2, <2>3 DEF Apart
<1>5. ASSUME NEW d \in Name, Apart(d, p) PROVE Apart(d, c)
  <2>1. ~IsPrefix(c, d)
    BY <1>1, <1>2, <1>5, PrefixOrder DEF Apart
  <2>2. ASSUME IsPrefix(d, c) PROVE FALSE
    <3>1. Len(d) \in Nat
      BY LenProperties DEF Name
    <3>2. CASE Len(d) <= Len(p)
      BY <1>1, <1>2, <1>5, <2>2, <3>2, PrefixOrder DEF Apart
    <3>3. CASE Len(p) <= Len(d)
      BY <1>1, <1>2, <1>5, <2>2, <3>3, PrefixOrder DEF Apart
    <3> QED
      BY <1>2, <3>1, <3>2, <3>3
  <2> QED
    BY <2>1, <2>2 DEF Apart
<1> QED
  BY <1>1, <1>2, <1>3, <1>4, <1>5

(* Of st to s the loop of the innermost frame is done with a child.        *)
DoneWith(s, st, c) ==
  s = Append(SubSeq(st, 1, Len(st) - 1), [st[Len(st)] EXCEPT !.pending = @ \ {c}])

(* The frames keep their nodes and their rows.                             *)
SamePath(s, st) ==
  /\ Len(s) = Len(st)
  /\ \A i \in 1..Len(st) : s[i].node = st[i].node /\ s[i].row = st[i].row

(* It leaves the other subtrees, all apart from the child's.               *)
LEMMA LeaveFrames ==
  ASSUME NEW D, D \subseteq Name, NEW st, Frames(st, D), Len(st) \in Nat \ {0},
         NEW c \in Loop(st), NEW s, DoneWith(s, st, c)
  PROVE  /\ Frames(s, D) /\ SamePath(s, st) /\ Here(s) = Here(st)
         /\ Pending(s) = Pending(st) \ {c}
         /\ c \in Below(D, Here(st)) /\ c \in Pending(st) /\ AllApart(Pending(s), c)
<1> DEFINE n == Len(st)
<1>1. c \in st[n].pending /\ Here(st) = st[n].node
  BY DEF Loop, Here
<1>2. /\ IsSeq(st)
      /\ \A i \in 1..n : /\ IsFrame(st[i]) /\ st[i].node \in D /\ st[i].node \in Name
                         /\ st[i].pending \subseteq Below(D, st[i].node)
      /\ \A i \in 2..n : st[i].node \in Below(D, st[i - 1].node)
      /\ \A j \in 1..n : \A i \in 1..(j - 1) :
           \A d \in st[i].pending : Apart(d, st[j].node)
  BY DEF Frames
<1> DEFINE a == SubSeq(st, 1, n - 1)
           x == [st[n] EXCEPT !.pending = @ \ {c}]
<1>3. IsSeq(a) /\ Len(a) = n - 1 /\ \A i \in 1..(n - 1) : a[i] = st[i]
  <2>1. a = SubSeq(st, 1, Len(st) - 1) /\ Len(st) > 0
    OBVIOUS
  <2> HIDE DEF a
  <2> QED
    BY <1>2, <2>1, PopIs
<1>4. /\ IsFrame(x) /\ x.node = st[n].node /\ x.row = st[n].row
      /\ x.pending = st[n].pending \ {c}
  <2>1. st[n] = [node |-> st[n].node, row |-> st[n].row, pending |-> st[n].pending]
    <3>1. n \in 1..n
      OBVIOUS
    <3>2. IsFrame(st[n])
      BY <1>2, <3>1
    <3> QED
      BY <3>2 DEF IsFrame
  <2> DEFINE u == st[n].node
             v == st[n].row
             w == st[n].pending
  <2>2. x = [[node |-> u, row |-> v, pending |-> w] EXCEPT !.pending = @ \ {c}]
    BY <2>1
  <2> HIDE DEF u, v, w, x
  <2>3. x = [node |-> u, row |-> v, pending |-> w \ {c}]
    BY <2>2
  <2> QED
    BY <2>3 DEF u, v, w, IsFrame
<1> HIDE DEF x
<1>5. IsSeq(s) /\ Len(s) = n /\ s[n] = x /\ \A i \in 1..(n - 1) : s[i] = st[i]
  <2>1. s = Append(a, x)
    BY DEF x, DoneWith
  <2> HIDE DEF a
  <2>2. Pushed(s, a, x)
    BY <1>3, <2>1, PushIs
  <2> QED
    BY <1>3, <2>2 DEF Pushed
<1> HIDE DEF a
<1>6. ASSUME NEW i \in 1..n
      PROVE  /\ IsFrame(s[i]) /\ s[i].node = st[i].node /\ s[i].row = st[i].row
             /\ s[i].pending = IF i = n THEN st[n].pending \ {c} ELSE st[i].pending
  <2>1. CASE i = n
    BY <1>4, <1>5, <2>1
  <2>2. CASE i # n
    <3>1. i \in 1..(n - 1)
      BY <2>2
    <3> QED
      BY <1>2, <1>5, <2>2, <3>1
  <2> QED
    BY <2>1, <2>2
<1>7. ASSUME NEW i \in 1..n PROVE s[i].pending \subseteq st[i].pending
  BY <1>6
<1>8. Frames(s, D)
  <2>1. \A i \in 1..n :
          IsFrame(s[i]) /\ s[i].node \in D /\ s[i].pending \subseteq Below(D, s[i].node)
    BY <1>2, <1>6, <1>7
  <2>2. \A i \in 2..n : s[i].node \in Below(D, s[i - 1].node)
    <3>1. \A i \in 2..n : i \in 1..n /\ i - 1 \in 1..n
      OBVIOUS
    <3> QED
      BY <1>2, <1>6, <3>1
  <2>3. \A j \in 1..n : \A i \in 1..(j - 1) : \A d \in s[i].pending : Apart(d, s[j].node)
    <3>1. \A j \in 1..n : \A i \in 1..(j - 1) : i \in 1..n
      OBVIOUS
    <3> QED
      BY <1>2, <1>6, <1>7, <3>1
  <2> QED
    BY <1>5, <2>1, <2>2, <2>3 DEF Frames
<1>9. c \in Below(D, st[n].node) /\ st[n].node \in Name
  BY <1>1, <1>2
<1>10. ASSUME NEW i \in 1..n, NEW d \in s[i].pending PROVE Apart(d, c) /\ d # c
  <2>1. d \in st[i].pending /\ d \in Below(D, st[i].node)
    BY <1>2, <1>7
  <2>2. CASE i = n
    <3>1. d # c
      BY <1>6, <2>2
    <3> QED
      BY <1>9, <2>1, <2>2, <3>1, ChildrenApart
  <2>3. CASE i # n
    <3>1. i \in 1..(n - 1) /\ n \in 1..n
      BY <2>3
    <3>2. Apart(d, st[n].node)
      BY <1>2, <2>1, <3>1
    <3>3. d \in Name
      BY <2>1 DEF Below
    <3>4. Apart(d, c)
      BY <1>9, <3>2, <3>3, ChildrenApart
    <3>5. IsPrefix(d, d)
      BY <3>3, PrefixOrder
    <3> QED
      BY <3>4, <3>5 DEF Apart
  <2> QED
    BY <2>2, <2>3
<1>11. Pending(s) = Pending(st) \ {c}
  <2>1. ASSUME NEW d \in Pending(s) PROVE d \in Pending(st) \ {c}
    BY <1>5, <1>7, <1>10, <2>1 DEF Pending
  <2>2. ASSUME NEW d \in Pending(st), d # c PROVE d \in Pending(s)
    BY <1>5, <1>6, <2>2 DEF Pending
  <2> QED
    BY <2>1, <2>2
<1>12. AllApart(Pending(s), c)
  BY <1>5, <1>10 DEF Pending, AllApart
<1>13. n \in 1..n
  OBVIOUS
<1>14. Here(s) = Here(st)
  BY <1>1, <1>5, <1>6, <1>13 DEF Here
<1>15. c \in Pending(st)
  BY <1>1, <1>13 DEF Pending
<1>16. SamePath(s, st)
  BY <1>5, <1>6 DEF SamePath
<1> QED
  BY <1>1, <1>8, <1>9, <1>11, <1>12, <1>14, <1>15, <1>16

(* The walk st goes on as s with the children of c.                        *)
Entered(s, st, D, c) ==
  Frames(s, D) /\ Pending(s) = Pending(st) \cup Below(D, c)

(* A call on a child.                                                      *)
LEMMA EnterFrames ==
  ASSUME NEW D, D \subseteq Name, NEW st, Frames(st, D), Len(st) \in Nat \ {0},
         NEW c \in Below(D, Here(st)), AllApart(Pending(st), c),
         NEW x, IsFrame(x), x.node = c, x.pending = Below(D, c), NEW s, Pushed(s, st, x)
  PROVE  Entered(s, st, D, c)
<1> DEFINE n == Len(st)
<1>1. /\ IsSeq(st)
      /\ \A i \in 1..n : /\ IsFrame(st[i]) /\ st[i].node \in D
                         /\ st[i].pending \subseteq Below(D, st[i].node)
      /\ \A i \in 2..n : st[i].node \in Below(D, st[i - 1].node)
      /\ \A j \in 1..n : \A i \in 1..(j - 1) :
           \A d \in st[i].pending : Apart(d, st[j].node)
  BY DEF Frames
<1>0. c \in Below(D, st[n].node)
  BY DEF Here
<1>2. IsFrame(x) /\ x.node = c /\ x.pending = Below(D, c)
  OBVIOUS
<1>4. IsSeq(s) /\ Len(s) = n + 1 /\ s[n + 1] = x /\ \A i \in 1..n : s[i] = st[i]
  BY DEF Pushed
<1>5. \A i \in 1..(n + 1) : i \in 1..n \/ i = n + 1
  OBVIOUS
<1>6. c \in D
  BY DEF Below
<1>7. \A i \in 1..(n + 1) :
        IsFrame(s[i]) /\ s[i].node \in D /\ s[i].pending \subseteq Below(D, s[i].node)
  BY <1>1, <1>2, <1>4, <1>5, <1>6
<1>8. ASSUME NEW i \in 2..(n + 1) PROVE s[i].node \in Below(D, s[i - 1].node)
  <2>1. i - 1 \in 1..n
    OBVIOUS
  <2>2. CASE i = n + 1
    <3>1. i - 1 = n /\ n \in 1..n
      BY <2>2
    <3> QED
      BY <1>0, <1>2, <1>4, <2>2, <3>1
  <2>3. CASE i # n + 1
    <3>1. i \in 1..n /\ i \in 2..n
      BY <2>3
    <3> QED
      BY <1>1, <1>4, <2>1, <3>1
  <2> QED
    BY <2>2, <2>3
<1>9. ASSUME NEW j \in 1..(n + 1), NEW i \in 1..(j - 1), NEW d \in s[i].pending
      PROVE  Apart(d, s[j].node)
  <2>1. i \in 1..n
    OBVIOUS
  <2>2. d \in st[i].pending
    BY <1>4, <2>1
  <2>3. CASE j = n + 1
    <3>1. d \in Pending(st)
      BY <2>1, <2>2 DEF Pending
    <3> QED
      BY <1>2, <1>4, <2>3, <3>1 DEF AllApart
  <2>4. CASE j # n + 1
    <3>1. j \in 1..n
      BY <2>4
    <3> QED
      BY <1>1, <1>4, <2>2, <3>1
  <2> QED
    BY <2>3, <2>4
<1>10. Frames(s, D)
  BY <1>4, <1>7, <1>8, <1>9 DEF Frames
<1>11. Pending(s) = Pending(st) \cup Below(D, c)
  <2>1. \A i \in 1..n : s[i].pending = st[i].pending
    BY <1>4
  <2>2. s[n + 1].pending = Below(D, c)
    BY <1>2, <1>4
  <2>3. Len(s) = n + 1 /\ n + 1 \in 1..(n + 1) /\ \A i \in 1..n : i \in 1..(n + 1)
    BY <1>4
  <2>4. ASSUME NEW d \in Pending(s) PROVE d \in Pending(st) \cup Below(D, c)
    BY <1>5, <2>1, <2>2, <2>3, <2>4 DEF Pending
  <2>5. ASSUME NEW d \in Pending(st) PROVE d \in Pending(s)
    BY <2>1, <2>3, <2>5 DEF Pending
  <2>6. ASSUME NEW d \in Below(D, c) PROVE d \in Pending(s)
    BY <2>2, <2>3, <2>6 DEF Pending
  <2> QED
    BY <2>4, <2>5, <2>6
<1> QED
  BY <1>10, <1>11 DEF Entered

Popped(s, st) == s = SubSeq(st, 1, Len(st) - 1)

(* A call returns.                                                         *)
LEMMA ReturnFrames ==
  ASSUME NEW D, NEW st, Frames(st, D), Len(st) \in Nat \ {0},
         Loop(st) = {}, NEW s, Popped(s, st)
  PROVE  Frames(s, D) /\ Pending(s) = Pending(st)
<1> DEFINE n == Len(st)
<1>0. st[n].pending = {}
  BY DEF Loop
<1>1. /\ IsSeq(st)
      /\ \A i \in 1..n : /\ IsFrame(st[i]) /\ st[i].node \in D
                         /\ st[i].pending \subseteq Below(D, st[i].node)
      /\ \A i \in 2..n : st[i].node \in Below(D, st[i - 1].node)
      /\ \A j \in 1..n : \A i \in 1..(j - 1) :
           \A d \in st[i].pending : Apart(d, st[j].node)
  BY DEF Frames
<1>2. IsSeq(s) /\ Len(s) = n - 1 /\ \A i \in 1..(n - 1) : s[i] = st[i]
  <2>1. s = SubSeq(st, 1, Len(st) - 1) /\ Len(st) > 0
    BY DEF Popped
  <2> QED
    BY <1>1, <2>1, PopIs
<1>3. \A i \in 1..n : i \in 1..(n - 1) \/ i = n
  OBVIOUS
<1>4. /\ \A i \in 1..(n - 1) : i \in 1..n
      /\ \A i \in 2..(n - 1) : i \in 2..n /\ i \in 1..(n - 1) /\ i - 1 \in 1..(n - 1)
      /\ \A j \in 1..(n - 1) : \A i \in 1..(j - 1) : i \in 1..(n - 1)
  OBVIOUS
<1>5. /\ \A i \in 1..(n - 1) :
           IsFrame(s[i]) /\ s[i].node \in D /\ s[i].pending \subseteq Below(D, s[i].node)
      /\ \A i \in 2..(n - 1) : s[i].node \in Below(D, s[i - 1].node)
  BY <1>1, <1>2, <1>4
<1>6. \A j \in 1..(n - 1) : \A i \in 1..(j - 1) : \A d \in s[i].pending : Apart(d, s[j].node)
  BY <1>1, <1>2, <1>4
<1>7. Frames(s, D)
  BY <1>2, <1>5, <1>6 DEF Frames
<1>8. Pending(s) = Pending(st)
  <2>1. ASSUME NEW d \in Pending(s) PROVE d \in Pending(st)
    BY <1>2, <1>4, <2>1 DEF Pending
  <2>2. ASSUME NEW d \in Pending(st) PROVE d \in Pending(s)
    BY <1>0, <1>2, <1>3, <2>2 DEF Pending
  <2> QED
    BY <2>1, <2>2
<1> QED
  BY <1>2, <1>7, <1>8

(* The first call.                                                         *)
LEMMA BeginFrames ==
  ASSUME NEW D, NEW c \in D, NEW row,
         NEW s, s = <<[node |-> c, row |-> row, pending |-> Below(D, c)]>>
  PROVE  Frames(s, D) /\ Len(s) = 1 /\ s[1].node = c /\ Pending(s) = Below(D, c)
<1> DEFINE x == [node |-> c, row |-> row, pending |-> Below(D, c)]
<1>1. IsFrame(x) /\ x.node = c /\ x.pending = Below(D, c)
  BY DEF IsFrame
<1>2. s = <<x>>
  OBVIOUS
<1> HIDE DEF x
<1>3. IsSeq(s) /\ Len(s) = 1 /\ s[1] = x
  <2>1. s \in Seq({x}) /\ Len(s) = 1 /\ s[1] = x
    BY <1>2
  <2>2. \E S : s \in Seq(S)
    <3> DEFINE T == {x}
    <3>1. s \in Seq(T)
      BY <2>1
    <3> HIDE DEF T
    <3> QED
      BY <3>1
  <2> QED
    BY <2>1, <2>2 DEF IsSeq
<1>4. \A i \in 1..1 : i = 1
  OBVIOUS
<1>5. Frames(s, D)
  <2>1. \A i \in 1..1 :
          IsFrame(s[i]) /\ s[i].node \in D /\ s[i].pending \subseteq Below(D, s[i].node)
    BY <1>1, <1>3, <1>4
  <2>2. \A i \in 2..1 : FALSE
    OBVIOUS
  <2>3. \A j \in 1..1 : \A i \in 1..(j - 1) : FALSE
    OBVIOUS
  <2> QED
    BY <1>3, <2>1, <2>2, <2>3 DEF Frames
<1> QED
  BY <1>1, <1>3, <1>4, <1>5 DEF Pending

----------------------------------------------------------------------------
(* One visit.                                                              *)

(* How far a term is from what a query asks for, by its row.               *)
Far(q, x) == IF q.fuzzy THEN RowOf(q.text, x)[Len(q.text)] ELSE 0

(* The hit a search makes of a term.                                       *)
EntryOf(tr, q, x) == [score |-> tr[x].frequency, term |-> x, distance |-> Far(q, x)]

(* Where the terms of a query are.                                         *)
Covered(q, d) == ~q.fuzzy => IsPrefix(q.text, d)

Wanted(tr, q) == {x \in Held(tr) : Covered(q, x) /\ Far(q, x) <= q.budget}

(* A row carried to a node is the row behind its name.                     *)
RowFor(q, x, row) == q.fuzzy => row = RowOf(q.text, x)

(* The walk has its frames, its best entries, and none of a term below a   *)
(* child still to come.                                                    *)
Walked(tr, k, st, H) ==
  /\ Frames(st, DOMAIN tr)
  /\ Entries(H) /\ Cardinality(H) <= k
  /\ \A d \in Pending(st) : \A h \in H : ~IsPrefix(d, h.term)

(* A term to be found is kept, beaten by k others, or still to come in one *)
(* of the subtrees P.                                                      *)
Accounted(tr, q, H, P) ==
  /\ \A h \in H : \E x \in Wanted(tr, q) : h = EntryOf(tr, q, x)
  /\ \A d \in P : d \in DOMAIN tr /\ Covered(q, d)
  /\ \A x \in Wanted(tr, q) : \/ EntryOf(tr, q, x) \in H
                              \/ Outdone(EntryOf(tr, q, x), H, q.k)
                              \/ \E d \in P : IsPrefix(d, x)

Counts(tr, q, c) == tr[c].terminal /\ Far(q, c) <= q.budget

(* A visit to node c makes G of the heap H.                                *)
Offered(G, H, tr, q, c) ==
  /\ \A g \in G : g \in H \/ (Counts(tr, q, c) /\ g = EntryOf(tr, q, c))
  /\ Counts(tr, q, c) => \/ EntryOf(tr, q, c) \in G
                        \/ Outdone(EntryOf(tr, q, c), G, q.k)
  /\ \A f : IsEntry(f) /\ (f \in H \/ Outdone(f, H, q.k)) => f \in G \/ Outdone(f, G, q.k)

Unkept(c, H) == \A h \in H : ~IsPrefix(c, h.term)

CutoffKept(H, G, k) == \A u \in Cutoff(k, H) : \E d \in Cutoff(k, G) : d >= u

(* A cutoff is below nothing that is kept, and there are k entries.        *)
LEMMA CutoffIs ==
  ASSUME NEW k \in Nat, NEW H, Entries(H), Cardinality(H) <= k, NEW u \in Cutoff(k, H)
  PROVE  u \in Nat /\ Cardinality(H) = k /\ \A h \in H : h.score >= u
<1>1. Cardinality(H) \in Nat /\ Full(k, H) /\ u = Worst(H).score
  BY FS_CardinalityType DEF Entries, Cutoff
<1>2. k > 0 /\ Cardinality(H) = k /\ Cardinality(H) # 0
  BY <1>1 DEF Full
<1>3. H # {}
  BY <1>2, FS_EmptySet
<1>4. Worst(H) \in H /\ \A f \in H \ {Worst(H)} : Better(f, Worst(H))
  BY <1>3, WorstIs
<1>5. IsEntry(Worst(H)) /\ u \in Nat
  BY <1>1, <1>4 DEF Entries, IsEntry
<1>6. ASSUME NEW h \in H PROVE h.score >= u
  <2>1. IsEntry(h)
    BY DEF Entries
  <2>2. CASE h = Worst(H)
    BY <1>1, <1>5, <2>2
  <2>3. CASE h # Worst(H)
    BY <1>1, <1>4, <1>5, <2>1, <2>3, BetterOrder
  <2> QED
    BY <2>2, <2>3
<1> QED
  BY <1>2, <1>5, <1>6

(* A heap left alone.                                                      *)
LEMMA CutoffStays ==
  ASSUME NEW k \in Nat, NEW H, Entries(H), Cardinality(H) <= k
  PROVE  CutoffKept(H, H, k)
<1>1. \A u \in Cutoff(k, H) : u \in Nat
  BY CutoffIs
<1> QED
  BY <1>1 DEF CutoffKept

(* Distances are numbers, and no prefix search has any.                    *)
LEMMA FarIs ==
  ASSUME NEW q \in Queries, NEW x \in Name
  PROVE  Far(q, x) \in Nat /\ (~q.fuzzy => Far(q, x) <= q.budget)
<1>1. q.budget \in Nat /\ q.text \in Name /\ Len(q.text) \in Nat
  BY SearchAssumption, LenProperties DEF Name
<1>2. RowOf(q.text, x) \in Rows(Len(q.text))
  BY <1>1, RowOfIs
<1>3. RowOf(q.text, x)[Len(q.text)] \in Nat
  <2> DEFINE r == RowOf(q.text, x)
             m == Len(q.text)
  <2>1. r \in [0..m -> Nat] /\ m \in Nat
    BY <1>1, <1>2 DEF Rows
  <2> HIDE DEF r, m
  <2>2. m \in 0..m
    BY <2>1
  <2>3. r[m] \in Nat
    BY <2>1, <2>2
  <2> QED
    BY <2>3 DEF r, m
<1> QED
  BY <1>1, <1>3 DEF Far

(* The visit offers the node's own term, which was not offered before.     *)
LEMMA ArriveIs ==
  ASSUME NEW q \in Queries, q.k > 0, NEW c \in Name, trie[c] \in Node,
         NEW row, RowFor(q, c, row), NEW H, Entries(H), Cardinality(H) <= q.k, \A h \in H : h.term # c,
         NEW G, G = Arrive(q, c, row, H)
  PROVE  /\ Entries(G) /\ Cardinality(G) <= q.k
         /\ \A g \in G : g \in H \/ g.term = c
         /\ CutoffKept(H, G, q.k)
         /\ Offered(G, H, trie, q, c)
<1> DEFINE k == q.k
           distance == IF q.fuzzy THEN row[Len(q.text)] ELSE 0
           e == [score |-> trie[c].frequency, term |-> c, distance |-> distance]
           counts == trie[c].terminal /\ distance <= q.budget
<1>1. k \in Nat \ {0} /\ q.budget \in Nat /\ q.fuzzy \in BOOLEAN
  BY SearchAssumption
<1>2. trie[c].frequency \in Nat /\ trie[c].terminal \in BOOLEAN
  <2>1. 0..MaxFreq \subseteq Nat
    BY TrieAssumption
  <2> QED
    BY <2>1 DEF Node
<1>3. IsEntry(e) /\ e.term = c
  BY <1>2 DEF IsEntry
<1>4. G = IF counts THEN Offer(k, H, e) ELSE H
  BY DEF Arrive
<1>5. e = EntryOf(trie, q, c) /\ (counts <=> Counts(trie, q, c))
  <2>1. distance = Far(q, c)
    BY <1>1 DEF Far, RowFor
  <2> HIDE DEF distance
  <2> QED
    BY <2>1 DEF EntryOf, Counts
<1> HIDE DEF k, counts, e
<1>6. Entries(H) /\ Cardinality(H) <= k /\ \A h \in H : h.term # e.term
  BY <1>3 DEF k
<1>7. CASE counts
  <2>1. G = Offer(k, H, e)
    BY <1>4, <1>7
  <2>2. /\ Entries(G) /\ Cardinality(G) <= k /\ G \subseteq H \cup {e}
        /\ \A f \in H \cup {e} : f \in G \/ Outdone(f, G, k)
        /\ \A f : IsEntry(f) /\ Outdone(f, H, k) => Outdone(f, G, k)
        /\ \A u \in Cutoff(k, H) : \E d \in Cutoff(k, G) : d >= u
    BY <1>1, <1>3, <1>6, <2>1, OfferIs
  <2>3. CutoffKept(H, G, k)
    BY <2>2 DEF CutoffKept
  <2>4. \A g \in G : g \in H \/ g = e
    BY <2>2
  <2>5. Offered(G, H, trie, q, c)
    <3>1. e = EntryOf(trie, q, c) /\ Counts(trie, q, c)
      BY <1>5, <1>7
    <3>2. \A f : IsEntry(f) /\ (f \in H \/ Outdone(f, H, k)) => f \in G \/ Outdone(f, G, k)
      BY <2>2
    <3>3. e \in G \/ Outdone(e, G, k)
      BY <2>2
    <3> QED
      BY <2>4, <3>1, <3>2, <3>3 DEF Offered, k
  <2> QED
    BY <1>3, <2>2, <2>3, <2>4, <2>5 DEF k
<1>8. CASE ~counts
  <2>1. G = H
    BY <1>4, <1>8
  <2>2. CutoffKept(H, G, k)
    BY <1>1, <1>6, <2>1, CutoffStays
  <2>3. Offered(G, H, trie, q, c)
    BY <1>5, <1>8, <2>1 DEF Offered
  <2> QED
    BY <1>6, <2>1, <2>2, <2>3 DEF k
<1> QED
  BY <1>7, <1>8

(* A visit to c makes of walk st with heap H walk s with heap G.           *)
Visited(q, k, s, G, st, H, c) ==
  /\ Walked(trie, k, s, G) /\ CutoffKept(H, G, k)
  /\ Offered(G, H, trie, q, c)
  /\ Pending(s) = Pending(st) \cup Below(DOMAIN trie, c)

(* The frames and the heap after a visit to a child.                       *)
LEMMA EnterWalk ==
  ASSUME Trie(trie), NEW q \in Queries, NEW k, k = q.k, k > 0, NEW H, NEW st,
         Walked(trie, k, st, H), Len(st) \in Nat \ {0},
         NEW c \in Below(DOMAIN trie, Here(st)), AllApart(Pending(st), c),
         Unkept(c, H),
         NEW row, RowFor(q, c, row), NEW x, x = Frame(c, row), NEW s, Pushed(s, st, x),
         NEW G, G = Arrive(q, c, row, H)
  PROVE  Visited(q, k, s, G, st, H, c)
<1> DEFINE D == DOMAIN trie
<1>1. D \subseteq Name /\ c \in D /\ c \in Name /\ trie[c] \in Node
  BY DEF Trie, Tree, Names, Below
<1>2. Frames(st, D) /\ Entries(H) /\ Cardinality(H) <= q.k
      /\ \A d \in Pending(st) : \A h \in H : ~IsPrefix(d, h.term)
  BY DEF Walked
<1>3. IsFrame(x) /\ x.node = c /\ x.pending = Below(D, c) /\ Pushed(s, st, x)
  BY ChildrenAre DEF Frame, IsFrame
<1>4. c \in Below(D, Here(st))
  OBVIOUS
<1> HIDE DEF D
<1>5. Frames(s, D) /\ Pending(s) = Pending(st) \cup Below(D, c)
  <2>1. Entered(s, st, D, c)
    BY <1>1, <1>2, <1>3, <1>4, EnterFrames
  <2> QED
    BY <2>1 DEF Entered
<1>6. \A h \in H : h.term # c
  <2>1. IsPrefix(c, c)
    BY <1>1, PrefixOrder
  <2> QED
    BY <2>1 DEF Unkept
<1>7. /\ Entries(G) /\ Cardinality(G) <= q.k
      /\ \A g \in G : g \in H \/ g.term = c
      /\ CutoffKept(H, G, q.k)
      /\ Offered(G, H, trie, q, c)
  BY <1>1, <1>2, <1>6, ArriveIs
<1>8. ASSUME NEW d \in Pending(s), NEW g \in G, IsPrefix(d, g.term) PROVE FALSE
  <2>1. d \in Pending(st) \/ d \in Below(D, c)
    BY <1>5
  <2>2. ASSUME d \in Pending(st) PROVE FALSE
    <3>1. g.term = c
      BY <1>2, <1>7, <1>8, <2>2
    <3> QED
      BY <1>8, <2>2, <3>1 DEF Apart, AllApart
  <2>3. ASSUME d \in Below(D, c) PROVE FALSE
    <3>1. d \in Name /\ IsPrefix(c, d) /\ ~IsPrefix(d, c)
      BY <1>1, <2>3, ChildrenApart
    <3>2. g \in H /\ g.term \in Name
      BY <1>2, <1>7, <1>8, <3>1 DEF Entries, IsEntry
    <3>3. IsPrefix(c, g.term)
      BY <1>1, <1>8, <3>1, <3>2, PrefixOrder
    <3> QED
      BY <3>2, <3>3 DEF Unkept
  <2> QED
    BY <2>1, <2>2, <2>3
<1> QED
  BY <1>5, <1>7, <1>8 DEF Visited, Walked, D

(* The first visit.                                                        *)
LEMMA BeginWalk ==
  ASSUME Trie(trie), NEW q \in Queries, q.k > 0, NEW c \in DOMAIN trie,
         NEW row, RowFor(q, c, row), NEW s, s = <<Frame(c, row)>>,
         NEW G, G = Arrive(q, c, row, {})
  PROVE  /\ Walked(trie, q.k, s, G) /\ s # <<>>
         /\ Offered(G, {}, trie, q, c)
         /\ Pending(s) = Below(DOMAIN trie, c)
<1> DEFINE D == DOMAIN trie
<1>1. D \subseteq Name /\ c \in D /\ c \in Name /\ trie[c] \in Node
  BY DEF Trie, Tree, Names
<1>2. s = <<[node |-> c, row |-> row, pending |-> Below(D, c)]>>
  BY ChildrenAre DEF Frame
<1> HIDE DEF D
<1>3. Frames(s, D) /\ Pending(s) = Below(D, c) /\ Len(s) = 1
  BY <1>1, <1>2, BeginFrames
<1>4. Entries({}) /\ Cardinality({}) <= q.k
  <2>1. q.k \in Nat /\ Cardinality({}) = 0 /\ IsFiniteSet({})
    BY SearchAssumption, FS_EmptySet
  <2> QED
    BY <2>1 DEF Entries
<1>5. /\ Entries(G) /\ Cardinality(G) <= q.k
      /\ \A g \in G : g.term = c
      /\ Offered(G, {}, trie, q, c)
  <2> DEFINE H == {}
  <2>1. Entries(H) /\ Cardinality(H) <= q.k /\ (\A h \in H : h.term # c) /\ \A g : g \notin H
    BY <1>4
  <2>2. G = Arrive(q, c, row, H)
    OBVIOUS
  <2> HIDE DEF H
  <2>3. /\ Entries(G) /\ Cardinality(G) <= q.k
        /\ \A g \in G : g \in H \/ g.term = c
        /\ Offered(G, H, trie, q, c)
    BY <1>1, <2>1, <2>2, ArriveIs
  <2>4. \A g \in G : g.term = c
    BY <2>1, <2>3
  <2> QED
    BY <2>3, <2>4 DEF H
<1>6. \A d \in Below(D, c) : ~IsPrefix(d, c)
  BY <1>1, ChildrenApart
<1> QED
  BY <1>3, <1>5, <1>6 DEF Walked, D

----------------------------------------------------------------------------
(* What a search finds.                                                    *)

(* The hits of terms in a trie are entries, one for each term.             *)
LEMMA EntriesOf ==
  ASSUME NEW tr, Trie(tr), NEW q, NEW x \in Held(tr)
  PROVE  /\ x \in DOMAIN tr /\ x \in Name /\ tr[x].terminal
         /\ IsEntry(EntryOf(tr, q, x)) /\ EntryOf(tr, q, x).term = x
         /\ EntryOf(tr, q, x).score = tr[x].frequency
<1>1. x \in DOMAIN tr /\ x \in Name /\ tr[x] \in Node /\ tr[x].terminal
  BY DEF Trie, Tree, Names, Held
<1>2. tr[x].frequency \in Nat
  <2>1. 0..MaxFreq \subseteq Nat
    BY TrieAssumption
  <2> QED
    BY <1>1, <2>1 DEF Node
<1> DEFINE d == Far(q, x)
<1>3. EntryOf(tr, q, x) = [score |-> tr[x].frequency, term |-> x, distance |-> d]
  BY DEF EntryOf
<1> HIDE DEF d
<1> QED
  BY <1>1, <1>2, <1>3 DEF IsEntry

(* The node a prefix search begins at covers all with the prefix.          *)
LEMMA OneDescends ==
  ASSUME NEW tr, Trie(tr), NEW q \in Queries, NEW c \in Descend(tr, q.text)
  PROVE  /\ c \in DOMAIN tr /\ IsPrefix(q.text, c)
         /\ \A r \in DOMAIN tr : IsPrefix(q.text, r) => IsPrefix(c, r)
<1>1. Names(DOMAIN tr) /\ DOMAIN tr \subseteq Name /\ Parts(DOMAIN tr) /\ q.text \in Name
  BY SearchAssumption DEF Trie, Tree, Names, Name
<1>2. /\ c \in DOMAIN tr /\ IsPrefix(q.text, c)
      /\ \A r \in DOMAIN tr : IsPrefix(q.text, r) =>
           \E p \in Descend(tr, q.text) : IsPrefix(p, r)
  BY <1>1, DescendIs
<1>3. \A p \in Descend(tr, q.text) : p = c
  <2> DEFINE p == Reached(tr, q.text)
  <2>1. CASE p = q.text
    BY <2>1 DEF Descend
  <2>2. CASE p # q.text
    <3>1. q.text \notin DOMAIN tr
      BY <1>1, <2>2, ReachedIs
    <3>2. \A x, y \in NextChild(tr, p, q.text) : x = y
      <4> HIDE DEF p
      <4>1. p = Reached(tr, q.text)
        BY DEF p
      <4> QED
        BY <1>1, <3>1, <4>1, NextChildIs
    <3>3. Descend(tr, q.text) \subseteq NextChild(tr, p, q.text)
      BY <2>2 DEF Descend
    <3> QED
      BY <3>2, <3>3
  <2> QED
    BY <2>1, <2>2
<1> QED
  BY <1>2, <1>3

(* The node a search begins at covers the terms wanted.                    *)
LEMMA StartAccounts ==
  ASSUME Trie(trie), NEW q \in Queries, NEW c \in Starts(q)
  PROVE  c \in DOMAIN trie /\ Accounted(trie, q, {}, {c})
<1>1. Names(DOMAIN trie) /\ \A x \in Wanted(trie, q) : x \in DOMAIN trie /\ Covered(q, x)
  BY DEF Trie, Tree, Wanted, Held
<1>2. c \in DOMAIN trie /\ Covered(q, c) /\ \A x \in Wanted(trie, q) : IsPrefix(c, x)
  <2>1. CASE q.fuzzy
    <3>1. c = Root /\ Root \in DOMAIN trie /\ DOMAIN trie \subseteq Name
      BY <1>1, <2>1 DEF Starts, Names
    <3>2. \A x \in Name : IsPrefix(Root, x)
      BY PrefixOrder
    <3> QED
      BY <1>1, <2>1, <3>1, <3>2 DEF Covered
  <2>2. CASE ~q.fuzzy
    <3>1. c \in Descend(trie, q.text)
      BY <2>2 DEF Starts
    <3>2. /\ c \in DOMAIN trie /\ IsPrefix(q.text, c)
          /\ \A r \in DOMAIN trie : IsPrefix(q.text, r) => IsPrefix(c, r)
      BY <3>1, OneDescends
    <3> QED
      BY <1>1, <2>2, <3>2 DEF Covered
  <2> QED
    BY <2>1, <2>2
<1> QED
  BY <1>2 DEF Accounted

(* A visit to a subtree's node accounts for its own term, and leaves those *)
(* of its children.                                                        *)
LEMMA EnterAccounts ==
  ASSUME NEW tr, Trie(tr), NEW q \in Queries, NEW H, NEW P, Accounted(tr, q, H, P),
         NEW c \in P, NEW G, Offered(G, H, tr, q, c),
         NEW R, R = (P \ {c}) \cup Below(DOMAIN tr, c)
  PROVE  Accounted(tr, q, G, R)
<1>1. DOMAIN tr \subseteq Name /\ q.text \in Name
  BY SearchAssumption DEF Trie, Tree, Names, Name
<1>2. c \in DOMAIN tr /\ c \in Name /\ Covered(q, c)
  BY <1>1 DEF Accounted
<1>3. ASSUME NEW h \in G PROVE \E x \in Wanted(tr, q) : h = EntryOf(tr, q, x)
  <2>1. CASE h \in H
    BY <2>1 DEF Accounted
  <2>2. CASE Counts(tr, q, c) /\ h = EntryOf(tr, q, c)
    <3>1. c \in Wanted(tr, q)
      BY <1>2, <2>2 DEF Counts, Wanted, Held
    <3> QED
      BY <2>2, <3>1
  <2> QED
    BY <2>1, <2>2 DEF Offered
<1>4. ASSUME NEW d \in R PROVE d \in DOMAIN tr /\ Covered(q, d)
  <2>1. CASE d \in P
    BY <2>1 DEF Accounted
  <2>2. CASE d \in Below(DOMAIN tr, c)
    <3>1. d \in DOMAIN tr /\ d \in Name /\ IsPrefix(c, d)
      <4> DEFINE D == DOMAIN tr
      <4>1. D \subseteq Name /\ d \in Below(D, c)
        BY <1>1, <2>2
      <4> HIDE DEF D
      <4>2. d \in D /\ d \in Name /\ IsPrefix(c, d)
        BY <1>2, <4>1, ChildrenApart
      <4> QED
        BY <4>2 DEF D
    <3> QED
      BY <1>1, <1>2, <3>1, PrefixOrder DEF Covered
  <2> QED
    BY <2>1, <2>2
<1>5. ASSUME NEW x \in Wanted(tr, q)
      PROVE  \/ EntryOf(tr, q, x) \in G \/ Outdone(EntryOf(tr, q, x), G, q.k)
             \/ \E d \in R : IsPrefix(d, x)
  <2> DEFINE e == EntryOf(tr, q, x)
  <2>1. x \in Held(tr) /\ x \in DOMAIN tr /\ x \in Name /\ Counts(tr, q, x) /\ IsEntry(e)
    BY EntriesOf DEF Wanted, Counts
  <2>2. e \in H \/ Outdone(e, H, q.k) \/ \E d \in P : IsPrefix(d, x)
    BY DEF Accounted
  <2> HIDE DEF e
  <2>3. CASE e \in H \/ Outdone(e, H, q.k)
    <3>1. e \in G \/ Outdone(e, G, q.k)
      BY <2>1, <2>3 DEF Offered
    <3> QED
      BY <3>1 DEF e
  <2>4. ASSUME NEW d \in P, IsPrefix(d, x), d # c PROVE \E y \in R : IsPrefix(y, x)
    BY <2>4
  <2>5. ASSUME IsPrefix(c, x), x = c PROVE e \in G \/ Outdone(e, G, q.k)
    BY <2>1, <2>5 DEF Offered, e
  <2>6. ASSUME IsPrefix(c, x), x # c PROVE \E y \in R : IsPrefix(y, x)
    <3>1. Above(c, x)
      BY <2>6 DEF Above, IsStrictPrefix
    <3>2. \E y \in Below(DOMAIN tr, c) : IsPrefix(y, x)
      BY <1>1, <1>2, <2>1, <3>1, ChildTowards
    <3> QED
      BY <3>2
  <2> QED
    BY <2>2, <2>3, <2>4, <2>5, <2>6 DEF e
<1> QED
  BY <1>3, <1>4, <1>5 DEF Accounted

(* Of a subtree whose maximum is below the cutoff, no term is among the    *)
(* best.                                                                   *)
LEMMA PruneAccounts ==
  ASSUME Trie(trie), NEW q \in Queries, NEW H, NEW P, Accounted(trie, q, H, P),
         Entries(H), Cardinality(H) <= q.k, NEW c \in P, Prunable(q, c, H),
         NEW R, R = P \ {c}
  PROVE  Accounted(trie, q, H, R)
<1>1. PICK u \in Cutoff(q.k, H) : trie[c].max < u
  BY DEF Prunable
<1>2. q.k \in Nat
  BY SearchAssumption
<1>3. u \in Nat /\ Cardinality(H) = q.k /\ \A h \in H : h.score >= u
  <2> DEFINE k == q.k
  <2>1. k \in Nat /\ Cardinality(H) <= k /\ u \in Cutoff(k, H)
    BY <1>2
  <2> HIDE DEF k
  <2>2. u \in Nat /\ Cardinality(H) = k /\ \A h \in H : h.score >= u
    BY <2>1, CutoffIs
  <2> QED
    BY <2>2 DEF k
<1>4. /\ c \in DOMAIN trie /\ trie \in [DOMAIN trie -> Node] /\ Exact(trie, c)
      /\ trie[c].max \in Nat
  <2>1. 0..MaxFreq \subseteq Nat
    BY TrieAssumption
  <2> QED
    BY <2>1 DEF Accounted, Trie, Tree, Node
<1>5. ASSUME NEW x \in Wanted(trie, q), IsPrefix(c, x)
      PROVE  Outdone(EntryOf(trie, q, x), H, q.k)
  <2> DEFINE e == EntryOf(trie, q, x)
  <2>1. x \in Held(trie) /\ IsEntry(e) /\ e.score = trie[x].frequency
    BY EntriesOf DEF Wanted
  <2>2. trie[x].frequency \in Heights(trie, c)
    BY <1>5, <2>1 DEF Heights
  <2>3. \A y \in Heights(trie, c) : y <= trie[c].max
    <3>1. \A y \in Heights(trie, c) : y <= Max(Heights(trie, c))
      BY <1>4, HeightsType
    <3> QED
      BY <1>4, <3>1 DEF Exact
  <2> HIDE DEF e
  <2>4. e.score <= trie[c].max /\ e.score \in Nat
    BY <2>1, <2>2, <2>3 DEF IsEntry
  <2>5. ASSUME NEW h \in H PROVE Better(h, e)
    <3>1. h.score \in Nat /\ h.score >= u
      BY <1>3 DEF Entries, IsEntry
    <3>2. h.score > e.score
      BY <1>1, <1>3, <1>4, <2>4, <3>1
    <3> QED
      BY <3>2 DEF Better
  <2> QED
    BY <1>3, <2>5 DEF Outdone, e
<1>6. ASSUME NEW x \in Wanted(trie, q)
      PROVE  \/ EntryOf(trie, q, x) \in H \/ Outdone(EntryOf(trie, q, x), H, q.k)
             \/ \E d \in R : IsPrefix(d, x)
  <2>1. \/ EntryOf(trie, q, x) \in H \/ Outdone(EntryOf(trie, q, x), H, q.k)
        \/ \E d \in P : IsPrefix(d, x)
    BY DEF Accounted
  <2>2. ASSUME NEW d \in P, IsPrefix(d, x)
        PROVE  Outdone(EntryOf(trie, q, x), H, q.k) \/ \E y \in R : IsPrefix(y, x)
    <3>1. CASE d = c
      BY <1>5, <2>2, <3>1
    <3>2. CASE d # c
      BY <2>2, <3>2
    <3> QED
      BY <3>1, <3>2
  <2> QED
    BY <2>1, <2>2
<1> QED
  BY <1>6 DEF Accounted

(* Behind a child that is out of reach, no term is near enough.            *)
LEMMA AbandonAccounts ==
  ASSUME Trie(trie), NEW q \in Queries, q.fuzzy, NEW H, NEW P, Accounted(trie, q, H, P),
         NEW p \in Name, NEW c \in P, IsPrefix(p, c), NEW row, RowFor(q, p, row),
         ~Reachable(q, RowBehind(q, row, Edge(p, c))), NEW R, R = P \ {c}
  PROVE  Accounted(trie, q, H, R)
<1> DEFINE s == q.text
           m == Len(s)
           n == q.budget + 1
<1>1. s \in Name /\ m \in Nat /\ n \in Nat /\ q.budget \in Nat /\ n > q.budget
  BY SearchAssumption, LenProperties DEF Name
<1>2. c \in Name /\ DOMAIN trie \subseteq Name
  BY DEF Accounted, Trie, Tree, Names
<1>3. Edge(p, c) \in Name /\ p \o Edge(p, c) = c
  BY <1>2, EdgeIs
<1>4. AtLeast(RowOf(s, c), n, m)
  <2> DEFINE e == Edge(p, c)
  <2>1. e \in Name /\ p \o e = c /\ ~Reachable(q, RowBehind(q, row, e)) /\ row = RowOf(q.text, p)
    BY <1>3 DEF RowFor
  <2> HIDE DEF e, s, m, n
  <2>2. AtLeast(RowOf(q.text, p \o e), q.budget + 1, Len(q.text))
    BY <2>1, RowBehindIs
  <2> QED
    BY <2>1, <2>2 DEF s, m, n
<1> HIDE DEF n
<1>5. ASSUME NEW x \in Wanted(trie, q) PROVE ~IsPrefix(c, x)
  <2>1. x \in Name /\ Far(q, x) <= q.budget
    BY <1>2 DEF Wanted, Held
  <2>2. ASSUME IsPrefix(c, x) PROVE FALSE
    <3>1. AtLeast(RowOf(s, x), n, m)
      <4> HIDE DEF s
      <4>1. AtLeast(RowOf(s, x), n, Len(s))
        BY <1>1, <1>2, <1>4, <2>1, <2>2, LongerCosts
      <4> QED
        BY <4>1
    <3>2. Far(q, x) >= n
      <4> DEFINE r == RowOf(s, x)
      <4>1. \A i \in 0..m : r[i] >= n
        BY <3>1 DEF AtLeast
      <4> HIDE DEF r, m
      <4>2. r[m] >= n
        BY <1>1, <4>1
      <4> QED
        BY <4>2 DEF Far, r, m
    <3>3. Far(q, x) \in Nat
      BY <2>1, FarIs
    <3> QED
      BY <1>1, <2>1, <3>2, <3>3
  <2> QED
    BY <2>2
<1> QED
  BY <1>5 DEF Accounted

(* The names in a trie are words of the bytes of terms.                    *)
LEMMA WordsAre ==
  ASSUME NEW tr, Trie(tr), NEW x \in DOMAIN tr
  PROVE  x \in Word
<1>1. x \in Name /\ Placed(tr, x)
  BY DEF Trie, Tree, Names
<1>2. \A i \in 1..Len(x) : x[i] \in Bytes
  <2>1. CASE x = Root
    <3>1. Len(x) = 0 /\ \A i \in 1..0 : FALSE
      BY <2>1 DEF Root
    <3> QED
      BY <3>1
  <2>2. ASSUME NEW t \in Terms, IsPrefix(x, t) PROVE \A i \in 1..Len(x) : x[i] \in Bytes
    <3>1. t \in Name /\ Len(x) \in Nat /\ Len(t) \in Nat
      BY <1>1, TrieAssumption, LenProperties DEF Name
    <3>2. Len(x) <= Len(t) /\ \A i \in 1..Len(x) : x[i] = t[i]
      BY <1>1, <2>2, <3>1, PrefixBytes
    <3>3. \A i \in 1..Len(t) : t[i] \in Bytes
      BY BytesAre
    <3> QED
      BY <3>1, <3>2, <3>3
  <2> QED
    BY <1>1, <2>1, <2>2 DEF Placed
<1> QED
  BY <1>1, <1>2 DEF Word

(* What a query should find of the terms held is what is wanted, at the    *)
(* distance its row gives.                                                 *)
LEMMA MatchesAre ==
  ASSUME Trie(trie), NEW q \in Queries, NEW x \in Held(trie)
  PROVE  /\ Matches(q, x) <=> x \in Wanted(trie, q)
         /\ x \in Wanted(trie, q) => DistanceTo(q, x) = Far(q, x)
<1>1. x \in Terms /\ Stored(trie, x) /\ x \in DOMAIN trie
  BY HeldIs DEF Held
<1>2. x \in Name /\ x \in Word
  BY <1>1, WordsAre DEF Word
<1>3. CASE ~q.fuzzy
  <2>1. Far(q, x) <= q.budget /\ Far(q, x) = 0
    BY <1>2, <1>3, FarIs DEF Far
  <2> QED
    BY <1>1, <1>3, <2>1 DEF Matches, Wanted, Covered, DistanceTo
<1>4. CASE q.fuzzy
  <2> DEFINE s == q.text
             d == Far(q, x)
             N == {n \in Budgets : x \in Near[s][n]}
  <2>1. IsTypo(s)
    BY <1>4 DEF IsTypo
  <2>2. /\ q.budget \in Budgets /\ q.budget <= MaxBudget
        /\ d \in Nat /\ MaxBudget \in Nat /\ q.budget \in Nat
    BY <1>2, SearchAssumption, FarIs DEF Budgets
  <2>3. ASSUME NEW n \in Budgets PROVE d <= n <=> x \in Near[s][n]
    <3> DEFINE l == Len(s)
    <3>1. l \in 0..Len(s) /\ Part(s, l) = s
      BY <2>1, PartsAre
    <3>2. d = RowOf(s, x)[l]
      BY <1>4 DEF Far
    <3> HIDE DEF s, l, d
    <3>3. RowOf(s, x)[l] <= n <=> x \in Near[Part(s, l)][n]
      BY <1>2, <2>1, <3>1, NearExact
    <3> QED
      BY <3>1, <3>2, <3>3
  <2>4. Matches(q, x) <=> d <= q.budget
    BY <1>1, <1>4, <2>2, <2>3 DEF Matches
  <2>5. x \in Wanted(trie, q) <=> d <= q.budget
    BY <1>4 DEF Wanted, Covered
  <2>6. ASSUME d <= q.budget PROVE DistanceTo(q, x) = d
    <3>1. d \in Budgets
      BY <2>2, <2>6 DEF Budgets
    <3>2. N \in SUBSET Int /\ d \in N /\ \A j \in N : d <= j
      BY <2>2, <2>3, <3>1 DEF Budgets
    <3>3. DistanceTo(q, x) = Min(N)
      BY <1>4 DEF DistanceTo
    <3> HIDE DEF N, d, s
    <3>4. Min(N) = d
      BY <3>2, MinIs
    <3> QED
      BY <3>3, <3>4
  <2> QED
    BY <2>4, <2>5, <2>6
<1> QED
  BY <1>3, <1>4, SearchAssumption

(* What a query should find is a hit for every term wanted.                *)
LEMMA HitsAre ==
  ASSUME Trie(trie), NEW q \in Queries
  PROVE  Hits(q) = {EntryOf(trie, q, x) : x \in Wanted(trie, q)} /\ IsFiniteSet(Hits(q))
<1>1. /\ Held(trie) \subseteq Terms /\ IsFiniteSet(Held(trie))
      /\ \A t \in Terms :
           /\ Stored(trie, t) <=> t \in Held(trie)
           /\ Frequency(trie, t) = IF t \in Held(trie) THEN trie[t].frequency ELSE Absent
  BY HeldIs
<1> DEFINE W == {u \in Terms : Matches(q, u)}
           F(t) == [score |-> Frequency(trie, t), term |-> t, distance |-> DistanceTo(q, t)]
<1>2. W = Wanted(trie, q)
  <2>1. \A u \in Wanted(trie, q) : u \in Held(trie)
    BY DEF Wanted
  <2>2. \A u \in W : u \in Held(trie)
    BY <1>1 DEF Matches
  <2>3. \A u \in Held(trie) : u \in Terms /\ (Matches(q, u) <=> u \in Wanted(trie, q))
    BY <1>1, MatchesAre
  <2> QED
    BY <2>1, <2>2, <2>3
<1>3. \A t \in Wanted(trie, q) : F(t) = EntryOf(trie, q, t)
  <2>1. \A t \in Wanted(trie, q) : t \in Held(trie) /\ t \in Terms
    BY <1>1 DEF Wanted
  <2>2. \A t \in Wanted(trie, q) : DistanceTo(q, t) = Far(q, t)
    BY <2>1, MatchesAre
  <2> QED
    BY <1>1, <2>1, <2>2 DEF EntryOf
<1>4. Hits(q) = {F(t) : t \in W}
  BY DEF Hits
<1> HIDE DEF W, F
<1>5. Hits(q) = {EntryOf(trie, q, x) : x \in Wanted(trie, q)}
  BY <1>2, <1>3, <1>4
<1>6. IsFiniteSet(Wanted(trie, q))
  <2>1. Wanted(trie, q) \in SUBSET Held(trie)
    BY DEF Wanted
  <2> QED
    BY <1>1, <2>1, FS_Subset
<1>7. IsFiniteSet({EntryOf(trie, q, x) : x \in Wanted(trie, q)})
  <2> DEFINE A == Wanted(trie, q)
             B == {EntryOf(trie, q, x) : x \in A}
             f == [x \in A |-> EntryOf(trie, q, x)]
  <2>1. f \in Surjection(A, B)
    BY DEF Surjection
  <2>2. IsFiniteSet(A)
    BY <1>6
  <2> HIDE DEF A, B, f
  <2>3. IsFiniteSet(B)
    BY <2>1, <2>2, FS_Surjection
  <2> QED
    BY <2>3 DEF A, B
<1> QED
  BY <1>5, <1>7

(* With no subtree left to come, the heap holds the k best of them.        *)
LEMMA EndIsTopK ==
  ASSUME Trie(trie), NEW q \in Queries, NEW H,
         Entries(H), Cardinality(H) <= q.k, Accounted(trie, q, H, {})
  PROVE  H = {h \in Hits(q) : Cardinality({g \in Hits(q) : Better(g, h)}) < q.k}
<1> DEFINE S == Hits(q)
           k == q.k
           Ahead(h) == {g \in S : Better(g, h)}
<1>1. S = {EntryOf(trie, q, x) : x \in Wanted(trie, q)} /\ IsFiniteSet(S) /\ k \in Nat
  BY HitsAre, SearchAssumption
<1>2. /\ H \subseteq S
      /\ \A f \in S : f \in H \/ Outdone(f, H, k)
      /\ \A f \in S : IsEntry(f)
  <2>1. \A x \in Wanted(trie, q) : IsEntry(EntryOf(trie, q, x))
    BY EntriesOf DEF Wanted
  <2> QED
    BY <1>1, <2>1 DEF Accounted
<1>3. IsFiniteSet(H) /\ Cardinality(H) \in Nat
  BY FS_CardinalityType DEF Entries
<1>4. ASSUME NEW h \in S PROVE IsFiniteSet(Ahead(h)) /\ Cardinality(Ahead(h)) \in Nat
  <2>1. Ahead(h) \in SUBSET S
    OBVIOUS
  <2> HIDE DEF Ahead, S
  <2> QED
    BY <1>1, <2>1, FS_Subset, FS_CardinalityType
<1>5. ASSUME NEW h \in H PROVE Cardinality(Ahead(h)) < k
  <2>1. Ahead(h) \subseteq H \ {h}
    <3> SUFFICES ASSUME NEW g \in S, Better(g, h) PROVE g \in H /\ g # h
      OBVIOUS
    <3>1. IsEntry(g) /\ IsEntry(h)
      BY <1>2
    <3>2. g # h /\ ~Better(h, g)
      BY <3>1, BetterOrder
    <3> QED
      BY <1>2, <3>2 DEF Outdone
  <2>2. IsFiniteSet(H \ {h}) /\ Cardinality(H \ {h}) = Cardinality(H) - 1
    BY <1>3, FS_RemoveElement
  <2>3. h \in S
    BY <1>2
  <2>4. Ahead(h) \in SUBSET (H \ {h})
    BY <2>1
  <2>5. Cardinality(Ahead(h)) \in Nat
    BY <1>4, <2>3
  <2> HIDE DEF Ahead, S
  <2>6. Cardinality(Ahead(h)) <= Cardinality(H \ {h})
    BY <2>2, <2>4, FS_Subset
  <2>7. Cardinality(H) <= k
    OBVIOUS
  <2> HIDE DEF k
  <2> QED
    BY <1>1, <1>3, <2>2, <2>5, <2>6, <2>7
<1>6. ASSUME NEW h \in S, h \notin H PROVE ~ (Cardinality(Ahead(h)) < k)
  <2>1. Cardinality(H) = k /\ \A g \in H : Better(g, h)
    BY <1>2, <1>6 DEF Outdone
  <2>2. H \in SUBSET Ahead(h)
    BY <1>2, <2>1
  <2>3. IsFiniteSet(Ahead(h)) /\ Cardinality(Ahead(h)) \in Nat
    BY <1>4
  <2> HIDE DEF Ahead, S, k
  <2>4. Cardinality(H) <= Cardinality(Ahead(h))
    BY <2>2, <2>3, FS_Subset
  <2> QED
    BY <1>1, <2>1, <2>3, <2>4
<1> QED
  BY <1>2, <1>5, <1>6

----------------------------------------------------------------------------
(* The rows of a walk.                                                     *)

(* Every frame has the row behind the name of its node.                    *)
RowsFor(q, st) == \A i \in 1..Len(st) : RowFor(q, st[i].node, st[i].row)

(* A call on a child has the row behind the child's name.                  *)
LEMMA RowEntered ==
  ASSUME NEW q \in Queries, NEW p \in Name, NEW c \in Name, IsPrefix(p, c),
         NEW r, RowFor(q, p, r), Reachable(q, RowBehind(q, r, Edge(p, c)))
  PROVE  RowFor(q, c, RowBehind(q, r, Edge(p, c)))
<1> SUFFICES ASSUME q.fuzzy PROVE RowBehind(q, r, Edge(p, c)) = RowOf(q.text, c)
  BY DEF RowFor
<1> DEFINE e == Edge(p, c)
<1>1. e \in Name /\ p \o e = c /\ Reachable(q, RowBehind(q, r, e)) /\ r = RowOf(q.text, p)
  BY EdgeIs DEF RowFor
<1> HIDE DEF e
<1>2. RowBehind(q, r, e) = RowOf(q.text, p \o e)
  BY <1>1, RowBehindIs
<1> QED
  BY <1>1, <1>2 DEF e

(* Pushing such a frame.                                                   *)
LEMMA RowsPushed ==
  ASSUME NEW q, NEW st, IsSeq(st), RowsFor(q, st), NEW x, RowFor(q, x.node, x.row),
         NEW s, Pushed(s, st, x)
  PROVE  RowsFor(q, s)
<1>1. Len(st) \in Nat /\ Len(s) = Len(st) + 1
  BY SeqIs DEF Pushed
<1>2. \A i \in 1..Len(s) : i \in 1..Len(st) \/ i = Len(st) + 1
  BY <1>1
<1> QED
  BY <1>2 DEF RowsFor, Pushed

(* Popping one.                                                            *)
LEMMA RowsPopped ==
  ASSUME NEW q, NEW st, IsSeq(st), Len(st) > 0, RowsFor(q, st), NEW s, Popped(s, st)
  PROVE  RowsFor(q, s)
<1>1. Len(st) \in Nat /\ Len(s) = Len(st) - 1 /\ \A i \in 1..(Len(st) - 1) : s[i] = st[i]
  BY SeqIs, PopIs DEF Popped
<1>2. \A i \in 1..Len(s) : i \in 1..(Len(st) - 1) /\ i \in 1..Len(st)
  BY <1>1
<1> QED
  BY <1>1, <1>2 DEF RowsFor

(* The first row is the one behind the root's name.                        *)
LEMMA RowAtStart ==
  ASSUME NEW q \in Queries, NEW c \in Starts(q)
  PROVE  RowFor(q, c, IF q.fuzzy THEN InitialRow(Len(q.text)) ELSE <<>>)
<1> SUFFICES ASSUME q.fuzzy PROVE InitialRow(Len(q.text)) = RowOf(q.text, c)
  BY DEF RowFor
<1>1. q.text \in Name /\ c \in Name /\ Len(c) = 0
  BY SearchAssumption DEF Name, Starts, Root
<1> QED
  BY <1>1, RowOfIs

----------------------------------------------------------------------------
(* The invariant of a search.                                              *)

Searching(tr, q, st, H) ==
  /\ Walked(tr, q.k, st, H)
  /\ Accounted(tr, q, H, Pending(st))
  /\ RowsFor(q, st)

SearchInv ==
  /\ Inv
  /\ query \in Queries \cup {None}
  /\ query = None => stack = <<>> /\ heap = {} /\ answer = None
  /\ query # None => Searching(trie, query, stack, heap)
  /\ stack # <<>> => query # None /\ query.k > 0
  /\ answer # None => stack = <<>> /\ answer = Sorted(heap)

NeverFalls == query # None /\ query' = query => CutoffKept(heap, heap', query.k)

(* A search that has not begun to walk has nothing left to come to.        *)
LEMMA EmptyWalk ==
  /\ Pending(<<>>) = {} /\ Entries({}) /\ Cardinality({}) = 0
  /\ \A tr : \A k \in Nat : Walked(tr, k, <<>>, {})
<1>1. IsSeq(<<>>) /\ Len(<<>>) = 0
  <2> DEFINE S == {}
  <2>1. <<>> \in Seq(S) /\ Len(<<>>) = 0
    OBVIOUS
  <2> HIDE DEF S
  <2> QED
    BY <2>1 DEF IsSeq
<1>2. \A i \in 1..0 : FALSE
  OBVIOUS
<1>3. \A i \in 2..0 : FALSE
  OBVIOUS
<1>4. Pending(<<>>) = {}
  BY <1>1, <1>2 DEF Pending
<1>5. Entries({}) /\ Cardinality({}) = 0
  <2>1. Cardinality({}) = 0 /\ IsFiniteSet({})
    BY FS_EmptySet
  <2> QED
    BY <2>1 DEF Entries
<1>6. ASSUME NEW D PROVE Frames(<<>>, D)
  BY <1>1, <1>2, <1>3 DEF Frames
<1> QED
  BY <1>4, <1>5, <1>6 DEF Walked

(* The sorted entries of nothing are no entries.                           *)
LEMMA SortedNothing == Sorted({}) = <<>>
<1> DEFINE F == [1..Cardinality({}) -> {}]
           P(s) == \A i, j \in 1..Cardinality({}) : i < j => Better(s[i], s[j])
<1>1. Cardinality({}) = 0
  BY FS_EmptySet
<1>2. \A s \in F : s = <<>>
  <2> SUFFICES ASSUME NEW s \in F PROVE s = <<>>
    OBVIOUS
  <2>1. s \in [1..0 -> {}]
    BY <1>1
  <2>2. s \in Seq({}) /\ Len(s) = 0
    BY <2>1, SeqDef
  <2> QED
    BY <2>2, EmptySeq
<1>3. <<>> \in F /\ P(<<>>)
  <2>1. <<>> \in [1..0 -> {}]
    OBVIOUS
  <2>2. \A i \in 1..0 : FALSE
    OBVIOUS
  <2> QED
    BY <1>1, <2>1, <2>2
<1>4. Sorted({}) = CHOOSE s \in F : P(s)
  BY DEF Sorted
<1> HIDE DEF F, P
<1> QED
  BY <1>2, <1>3, <1>4

(* The stack of a walk has an innermost frame.                             *)
LEMMA StackLen ==
  ASSUME NEW D, NEW st, Frames(st, D), st # <<>>
  PROVE  Len(st) \in Nat \ {0}
<1>1. PICK S : st \in Seq(S)
  BY DEF Frames, IsSeq
<1>2. Len(st) \in Nat
  BY <1>1, LenProperties
<1>3. Len(st) # 0
  BY <1>1, EmptySeq
<1> QED
  BY <1>2, <1>3

(* The loop of the innermost frame comes to child c.                       *)
LEMMA LeaveWalk ==
  ASSUME Trie(trie), NEW k, Walked(trie, k, stack, heap), stack # <<>>,
         NEW c \in Top.pending, NEW s, s = Leaving(c)
  PROVE  /\ Walked(trie, k, s, heap) /\ Len(s) \in Nat \ {0} /\ SamePath(s, stack)
         /\ c \in Pending(stack) /\ Pending(s) = Pending(stack) \ {c}
         /\ c \in Below(DOMAIN trie, Here(s)) /\ AllApart(Pending(s), c)
         /\ Unkept(c, heap)
<1> DEFINE D == DOMAIN trie
           n == Len(stack)
<1>1. /\ D \subseteq Name /\ Frames(stack, D)
      /\ Entries(heap) /\ Cardinality(heap) <= k
      /\ \A d \in Pending(stack) : \A h \in heap : ~IsPrefix(d, h.term)
  BY DEF Walked, Trie, Tree, Names
<1>2. n \in Nat \ {0}
  BY <1>1, StackLen
<1>3. c \in Loop(stack) /\ DoneWith(s, stack, c)
  BY DEF Top, Loop, Leaving, Caller, DoneWith
<1>4. n = Len(stack)
  OBVIOUS
<1> HIDE DEF D, n
<1>5. /\ Frames(s, D) /\ SamePath(s, stack) /\ Here(s) = Here(stack)
      /\ Pending(s) = Pending(stack) \ {c}
      /\ c \in Below(D, Here(stack)) /\ c \in Pending(stack) /\ AllApart(Pending(s), c)
  BY <1>1, <1>2, <1>3, <1>4, LeaveFrames
<1>6. \A d \in Pending(s) : \A h \in heap : ~IsPrefix(d, h.term)
  BY <1>1, <1>5
<1> QED
  BY <1>1, <1>2, <1>4, <1>5, <1>6 DEF Walked, D, Unkept, SamePath

(* The row behind the innermost frame's node, which is above the child.    *)
LEMMA TopIs ==
  ASSUME Trie(trie), NEW q, NEW k, Walked(trie, k, stack, heap), RowsFor(q, stack),
         stack # <<>>, NEW c \in Top.pending
  PROVE  /\ Top.node \in Name /\ c \in Name /\ IsPrefix(Top.node, c)
         /\ RowFor(q, Top.node, Top.row)
<1> DEFINE D == DOMAIN trie
           n == Len(stack)
<1>1. D \subseteq Name /\ Frames(stack, D)
  BY DEF Walked, Trie, Tree, Names
<1>2. n \in 1..n /\ Top = stack[n]
  <2>1. n \in Nat \ {0}
    BY <1>1, StackLen
  <2> HIDE DEF n
  <2> QED
    BY <2>1 DEF Top, n
<1>3. RowFor(q, Top.node, Top.row)
  BY <1>2 DEF RowsFor
<1> HIDE DEF D
<1>4. Top.node \in D /\ Top.node \in Name /\ c \in Below(D, Top.node)
  BY <1>1, <1>2 DEF Frames
<1>5. c \in Name /\ IsPrefix(Top.node, c)
  <2> DEFINE p == Top.node
  <2>1. p \in Name /\ c \in Below(D, p)
    BY <1>4
  <2> HIDE DEF p
  <2>2. c \in Name /\ IsPrefix(p, c)
    BY <1>1, <2>1, ChildrenApart
  <2> QED
    BY <2>2 DEF p
<1> QED
  BY <1>3, <1>4, <1>5

(* A row does not keep a prefix search from a child.                       *)
LEMMA PrefixReaches ==
  ASSUME NEW q, ~q.fuzzy, NEW row
  PROVE  Reachable(q, row)
BY DEF Reachable

(* What changes nothing but the search keeps the trie.                     *)
LEMMA TrieKept ==
  ASSUME SearchInv, UNCHANGED <<trie, len>>
  PROVE  Inv'
<1>1. Inv /\ [Next]_vars
  BY DEF SearchInv, vars
<1> QED
  BY <1>1, InvStep

(* A step of the walk.                                                     *)
LEMMA WalkKeeps ==
  ASSUME SearchInv, UNCHANGED <<trie, len, query>>, stack # <<>>, UNCHANGED answer,
         Searching(trie, query, stack', heap')
  PROVE  SearchInv'
<1>1. Inv'
  BY TrieKept
<1>2. query \in Queries /\ query.k > 0 /\ answer = None /\ query # None
  BY SearchAssumption DEF SearchInv
<1>3. Searching(trie', query', stack', heap')
  OBVIOUS
<1> QED
  BY <1>1, <1>2, <1>3 DEF SearchInv

(* A search under way.                                                     *)
LEMMA UnderWay ==
  ASSUME SearchInv, stack # <<>>
  PROVE  /\ Trie(trie) /\ query \in Queries /\ query # None /\ query.k > 0 /\ answer = None
         /\ query.k \in Nat /\ Searching(trie, query, stack, heap)
         /\ Walked(trie, query.k, stack, heap)
         /\ Entries(heap) /\ Cardinality(heap) <= query.k
<1>1. /\ Trie(trie) /\ query \in Queries /\ query # None /\ query.k > 0 /\ answer = None
      /\ Searching(trie, query, stack, heap)
  BY SearchAssumption DEF SearchInv, Inv
<1>2. query.k \in Nat
  BY <1>1, SearchAssumption
<1> QED
  BY <1>1, <1>2 DEF Searching, Walked

(* Pruning.                                                                *)
LEMMA PruneStep ==
  ASSUME SearchInv, stack # <<>>, NEW c \in Top.pending, Prune(c)
  PROVE  SearchInv' /\ NeverFalls
<1> DEFINE s == stack'
           q == query
           P == Pending(stack)
           R == Pending(s)
<1>1. /\ Trie(trie) /\ q \in Queries /\ q.k \in Nat /\ Searching(trie, q, stack, heap)
      /\ Walked(trie, q.k, stack, heap) /\ Entries(heap) /\ Cardinality(heap) <= q.k
  BY UnderWay
<1>2. Prunable(q, c, heap) /\ s = Leaving(c) /\ UNCHANGED <<trie, len, query, heap, answer>>
  BY DEF Prune
<1>3. Walked(trie, q.k, s, heap) /\ c \in P /\ R = P \ {c} /\ SamePath(s, stack)
  <2> HIDE DEF s, q
  <2> QED
    BY <1>1, <1>2, LeaveWalk
<1>4. Accounted(trie, q, heap, R)
  <2>1. Accounted(trie, q, heap, P)
    BY <1>1 DEF Searching
  <2> HIDE DEF s, q, P, R
  <2> QED
    BY <1>1, <1>2, <1>3, <2>1, PruneAccounts
<1>5. Searching(trie, query, stack', heap')
  BY <1>1, <1>2, <1>3, <1>4 DEF Searching, RowsFor, SamePath
<1>6. CutoffKept(heap, heap', query.k)
  BY <1>1, <1>2, CutoffStays
<1> QED
  BY <1>2, <1>5, <1>6, WalkKeeps DEF NeverFalls

(* Abandoning, which a prefix search never does.                           *)
LEMMA AbandonStep ==
  ASSUME SearchInv, stack # <<>>, NEW c \in Top.pending, Abandon(c)
  PROVE  SearchInv' /\ NeverFalls
<1> DEFINE s == stack'
           q == query
           P == Pending(stack)
           R == Pending(s)
           p == Top.node
           row == Top.row
<1>1. /\ Trie(trie) /\ q \in Queries /\ q.k \in Nat /\ Searching(trie, q, stack, heap)
      /\ Walked(trie, q.k, stack, heap) /\ Entries(heap) /\ Cardinality(heap) <= q.k
  BY UnderWay
<1>2. /\ s = Leaving(c) /\ UNCHANGED <<trie, len, query, heap, answer>> /\ q.fuzzy
      /\ ~Reachable(q, RowBehind(q, row, Edge(p, c)))
  BY PrefixReaches DEF Abandon
<1>3. Walked(trie, q.k, s, heap) /\ c \in P /\ R = P \ {c} /\ SamePath(s, stack)
  <2> HIDE DEF s, q, p, row
  <2> QED
    BY <1>1, <1>2, LeaveWalk
<1>4. p \in Name /\ IsPrefix(p, c) /\ RowFor(q, p, row)
  <2>1. RowsFor(q, stack)
    BY <1>1 DEF Searching
  <2> HIDE DEF q
  <2> QED
    BY <1>1, <2>1, TopIs
<1>5. Accounted(trie, q, heap, R)
  <2>1. Accounted(trie, q, heap, P)
    BY <1>1 DEF Searching
  <2> HIDE DEF s, q, P, R, p, row
  <2> QED
    BY <1>1, <1>2, <1>3, <1>4, <2>1, AbandonAccounts
<1>6. Searching(trie, query, stack', heap')
  BY <1>1, <1>2, <1>3, <1>5 DEF Searching, RowsFor, SamePath
<1>7. CutoffKept(heap, heap', query.k)
  BY <1>1, <1>2, CutoffStays
<1> QED
  BY <1>2, <1>6, <1>7, WalkKeeps DEF NeverFalls

(* Entering.                                                               *)
LEMMA EnterStep ==
  ASSUME SearchInv, stack # <<>>, NEW c \in Top.pending, Enter(c)
  PROVE  SearchInv' /\ NeverFalls
<1> DEFINE q == query
           a == Leaving(c)
           row == RowBehind(query, Top.row, Edge(Top.node, c))
           x == Frame(c, row)
           s == stack'
           G == heap'
           P == Pending(stack)
           A == Pending(a)
           R == Pending(s)
<1>1. /\ Trie(trie) /\ q \in Queries /\ q.k \in Nat /\ q.k > 0
      /\ Searching(trie, q, stack, heap)
      /\ Walked(trie, q.k, stack, heap) /\ Entries(heap) /\ Cardinality(heap) <= q.k
  BY UnderWay
<1>2. /\ G = Arrive(q, c, row, heap) /\ s = Append(a, x)
      /\ UNCHANGED <<trie, len, query, answer>>
  BY DEF Enter
<1>3. /\ a = Leaving(c) /\ x = Frame(c, row)
      /\ x.node = c /\ x.row = row
  BY DEF Frame
<1>4. RowsFor(q, stack)
  BY <1>1 DEF Searching
<1>5. RowFor(q, c, row)
  <2> DEFINE p == Top.node
             r == Top.row
  <2>1. row = RowBehind(q, r, Edge(p, c)) /\ Reachable(q, RowBehind(q, r, Edge(p, c)))
    BY DEF Enter
  <2> HIDE DEF q, row
  <2>2. p \in Name /\ c \in Name /\ IsPrefix(p, c) /\ RowFor(q, p, r)
    BY <1>1, <1>4, TopIs
  <2> HIDE DEF p, r
  <2>3. RowFor(q, c, RowBehind(q, r, Edge(p, c)))
    BY <1>1, <2>1, <2>2, RowEntered
  <2> QED
    BY <2>1, <2>3
<1> HIDE DEF q, a, row, x, s, G
<1>6. /\ Walked(trie, q.k, a, heap) /\ Len(a) \in Nat \ {0} /\ SamePath(a, stack)
      /\ c \in P /\ A = P \ {c}
      /\ c \in Below(DOMAIN trie, Here(a)) /\ AllApart(A, c)
      /\ Unkept(c, heap)
  BY <1>1, <1>3, LeaveWalk
<1>7. Pushed(s, a, x) /\ RowsFor(q, s)
  <2>1. IsSeq(a)
    BY <1>6 DEF Walked, Frames
  <2>2. Pushed(s, a, x)
    BY <1>2, <2>1, PushIs
  <2>3. RowsFor(q, a)
    BY <1>6, <1>4 DEF RowsFor, SamePath
  <2>4. RowFor(q, x.node, x.row)
    BY <1>3, <1>5
  <2> QED
    BY <2>1, <2>2, <2>3, <2>4, RowsPushed
<1>8. /\ Walked(trie, q.k, s, G) /\ CutoffKept(heap, G, q.k)
      /\ Offered(G, heap, trie, q, c)
      /\ R = A \cup Below(DOMAIN trie, c)
  <2> DEFINE k == q.k
  <2>1. k = q.k /\ k > 0 /\ Walked(trie, k, a, heap)
    BY <1>1, <1>6
  <2> HIDE DEF k
  <2>2. Visited(q, k, s, G, a, heap, c)
    <3> HIDE DEF P, A, R
    <3>1. AllApart(Pending(a), c)
      BY <1>6 DEF A
    <3> QED
      BY <1>1, <1>2, <1>3, <1>6, <1>7, <1>5, <2>1, <3>1, EnterWalk
  <2> QED
    BY <2>1, <2>2 DEF Visited
<1>9. Accounted(trie, q, G, R)
  <2>1. Accounted(trie, q, heap, P)
    BY <1>1 DEF Searching
  <2>2. R = (P \ {c}) \cup Below(DOMAIN trie, c)
    BY <1>6, <1>8
  <2> HIDE DEF P, A, R
  <2> QED
    BY <1>1, <1>6, <1>8, <2>1, <2>2, EnterAccounts
<1>10. Searching(trie, query, stack', heap')
  BY <1>7, <1>8, <1>9 DEF Searching, q, s, G
<1>11. CutoffKept(heap, heap', query.k)
  BY <1>8 DEF G, q
<1> QED
  BY <1>2, <1>10, <1>11, WalkKeeps DEF NeverFalls

(* Returning: the outermost call leaves nothing to come to.                *)
LEMMA ReturnStep ==
  ASSUME SearchInv, stack # <<>>, Return
  PROVE  SearchInv' /\ NeverFalls
<1> DEFINE q == query
           s == stack'
<1>1. /\ Trie(trie) /\ q \in Queries /\ q # None /\ q.k \in Nat /\ q.k > 0
      /\ Searching(trie, q, stack, heap)
      /\ Walked(trie, q.k, stack, heap) /\ Entries(heap) /\ Cardinality(heap) <= q.k
  BY UnderWay
<1>2. /\ Loop(stack) = {} /\ Popped(s, stack)
      /\ UNCHANGED <<trie, len, query, heap>>
      /\ answer' = IF s = <<>> THEN Sorted(heap) ELSE None
  BY DEF Return, Top, Loop, Caller, Popped
<1>3. Frames(stack, DOMAIN trie) /\ Len(stack) \in Nat \ {0}
  BY <1>1, StackLen DEF Walked
<1>4. Frames(s, DOMAIN trie) /\ Pending(s) = Pending(stack)
  <2> DEFINE D == DOMAIN trie
  <2>1. Frames(stack, D)
    BY <1>3
  <2> HIDE DEF s, D
  <2>2. Frames(s, D) /\ Pending(s) = Pending(stack)
    BY <1>2, <1>3, <2>1, ReturnFrames
  <2> QED
    BY <2>2 DEF D
<1>5. RowsFor(q, s)
  <2>1. RowsFor(q, stack) /\ IsSeq(stack) /\ Len(stack) > 0
    BY <1>1, <1>3 DEF Searching, Frames
  <2> HIDE DEF q, s
  <2> QED
    BY <1>2, <2>1, RowsPopped
<1>6. Searching(trie', query', stack', heap')
  BY <1>1, <1>2, <1>4, <1>5 DEF Searching, Walked
<1>7. Inv'
  BY <1>2, TrieKept
<1>8. CutoffKept(heap, heap', query.k)
  BY <1>1, <1>2, CutoffStays
<1> QED
  BY <1>1, <1>2, <1>6, <1>7, <1>8 DEF SearchInv, NeverFalls

(* A query that wants nothing, or whose prefix no node covers.             *)
LEMMA NothingStep ==
  ASSUME SearchInv, NEW q \in Queries, AnswerNothing(q)
  PROVE  SearchInv'
<1>1. /\ Trie(trie) /\ q.k \in Nat /\ q # None /\ q.text \in Name /\ Names(DOMAIN trie)
  BY SearchAssumption DEF SearchInv, Inv, Trie, Tree, Name
<1>2. /\ stack' = <<>> /\ heap' = {} /\ query' = q /\ answer' = <<>>
      /\ UNCHANGED <<trie, len>> /\ (q.k = 0 \/ Starts(q) = {})
  BY DEF AnswerNothing, SearchInv
<1>3. Walked(trie, q.k, <<>>, {}) /\ Pending(<<>>) = {} /\ Cardinality({}) = 0
  BY <1>1, EmptyWalk
<1>4. ASSUME NEW x \in Wanted(trie, q)
      PROVE  Outdone(EntryOf(trie, q, x), {}, q.k)
  <2>1. CASE q.k = 0
    BY <1>3, <2>1 DEF Outdone
  <2>2. CASE Starts(q) = {}
    <3>1. Descend(trie, q.text) = {} /\ ~q.fuzzy
      BY <1>1, <2>2 DEF Starts
    <3>2. x \in DOMAIN trie /\ IsPrefix(q.text, x)
      BY <3>1 DEF Wanted, Covered, Held
    <3>3. \A r \in DOMAIN trie : IsPrefix(q.text, r) =>
            \E p \in Descend(trie, q.text) : IsPrefix(p, r)
      BY <1>1, DescendIs
    <3> QED
      BY <3>1, <3>2, <3>3
  <2> QED
    BY <1>2, <2>1, <2>2
<1>5. Accounted(trie, q, {}, {})
  BY <1>4 DEF Accounted
<1>6. Searching(trie, q, <<>>, {})
  <2>1. \A i \in 1..Len(<<>>) : FALSE
    OBVIOUS
  <2> QED
    BY <1>3, <1>5, <2>1 DEF Searching, RowsFor
<1>7. Searching(trie', query', stack', heap')
  BY <1>2, <1>6
<1>8. Inv'
  BY <1>2, TrieKept
<1>9. answer' = Sorted(heap')
  BY <1>2, SortedNothing
<1> QED
  BY <1>1, <1>2, <1>7, <1>8, <1>9 DEF SearchInv

(* The walk begins.                                                        *)
LEMMA BeginStep ==
  ASSUME SearchInv, NEW q \in Queries, Begin(q)
  PROVE  SearchInv'
<1>1. /\ Trie(trie) /\ q.k \in Nat /\ q # None /\ Names(DOMAIN trie)
      /\ q.text \in Name
  BY SearchAssumption DEF SearchInv, Inv, Trie, Tree, Name
<1> DEFINE row == IF q.fuzzy THEN InitialRow(Len(q.text)) ELSE <<>>
<1>2. PICK c \in Starts(q) : stack' = <<Frame(c, row)>> /\ heap' = Arrive(q, c, row, {})
  BY DEF Begin
<1>3. /\ query' = q /\ q.k > 0 /\ query = None
      /\ UNCHANGED <<trie, len, answer>>
  BY DEF Begin
<1>4. c \in DOMAIN trie /\ Accounted(trie, q, {}, {c}) /\ RowFor(q, c, row)
  BY <1>1, StartAccounts, RowAtStart
<1> DEFINE s == stack'
           G == heap'
           H == {}
           P == {c}
           R == Pending(s)
<1>5. s = <<Frame(c, row)>> /\ G = Arrive(q, c, row, {})
  BY <1>2
<1> HIDE DEF row, s, G
<1>6. /\ Walked(trie, q.k, s, G) /\ s # <<>>
      /\ Offered(G, {}, trie, q, c)
      /\ Pending(s) = Below(DOMAIN trie, c)
  BY <1>1, <1>3, <1>4, <1>5, BeginWalk
<1>7. Accounted(trie, q, G, R)
  <2>1. Accounted(trie, q, H, P)
    BY <1>4
  <2>2. c \in P /\ R = (P \ {c}) \cup Below(DOMAIN trie, c) /\ Offered(G, H, trie, q, c)
    BY <1>6
  <2> HIDE DEF H, P, R
  <2> QED
    BY <1>1, <2>1, <2>2, EnterAccounts
<1>8. RowsFor(q, s)
  <2> DEFINE x == Frame(c, row)
  <2>1. s = <<x>> /\ x.node = c /\ x.row = row
    BY <1>5 DEF Frame
  <2> HIDE DEF x
  <2>2. Len(s) = 1 /\ s[1] = x /\ \A i \in 1..1 : i = 1
    BY <2>1
  <2> QED
    BY <1>4, <2>1, <2>2 DEF RowsFor
<1>9. Searching(trie', query', stack', heap')
  BY <1>3, <1>6, <1>7, <1>8 DEF Searching, s, G
<1>10. Inv'
  BY <1>3, TrieKept
<1>11. answer' = None
  BY <1>3 DEF SearchInv
<1> QED
  BY <1>1, <1>3, <1>9, <1>10, <1>11 DEF SearchInv

(* Every step keeps the invariant and lets no cutoff fall.                 *)
LEMMA SearchStep == SearchInv /\ [SearchNext]_allVars => SearchInv' /\ NeverFalls
<1> SUFFICES ASSUME SearchInv, [SearchNext]_allVars PROVE SearchInv' /\ NeverFalls
  OBVIOUS
<1>1. ASSUME Write PROVE SearchInv' /\ NeverFalls
  <2>1. query = None /\ UNCHANGED searchVars /\ Inv'
    BY <1>1, InvStep DEF Write, SearchInv
  <2> QED
    BY <2>1 DEF searchVars, SearchInv, NeverFalls
<1>2. ASSUME NEW q \in Queries, AnswerNothing(q) PROVE SearchInv' /\ NeverFalls
  <2>1. SearchInv'
    BY <1>2, NothingStep
  <2>2. query = None
    BY <1>2 DEF AnswerNothing
  <2> QED
    BY <2>1, <2>2 DEF NeverFalls
<1>3. ASSUME NEW q \in Queries, Begin(q) PROVE SearchInv' /\ NeverFalls
  <2>1. SearchInv'
    BY <1>3, BeginStep
  <2>2. query = None
    BY <1>3 DEF Begin
  <2> QED
    BY <2>1, <2>2 DEF NeverFalls
<1>4. ASSUME Walk PROVE SearchInv' /\ NeverFalls
  <2>1. stack # <<>>
    BY <1>4 DEF Walk
  <2>2. ASSUME NEW c \in Top.pending, Prune(c) PROVE SearchInv' /\ NeverFalls
    BY <2>1, <2>2, PruneStep
  <2>3. ASSUME NEW c \in Top.pending, Abandon(c) PROVE SearchInv' /\ NeverFalls
    BY <2>1, <2>3, AbandonStep
  <2>4. ASSUME NEW c \in Top.pending, Enter(c) PROVE SearchInv' /\ NeverFalls
    BY <2>1, <2>4, EnterStep
  <2>5. ASSUME Return PROVE SearchInv' /\ NeverFalls
    BY <2>1, <2>5, ReturnStep
  <2> QED
    BY <1>4, <2>2, <2>3, <2>4, <2>5 DEF Walk
<1>5. ASSUME Release PROVE SearchInv' /\ NeverFalls
  <2>1. /\ stack' = <<>> /\ query' = None /\ heap' = {} /\ answer' = None
        /\ UNCHANGED <<trie, len>>
    BY <1>5 DEF Release, SearchInv
  <2>2. Inv'
    BY <2>1, TrieKept
  <2> QED
    BY <2>1, <2>2 DEF SearchInv, NeverFalls
<1>6. ASSUME UNCHANGED allVars PROVE SearchInv' /\ NeverFalls
  <2>1. UNCHANGED <<trie, len, query, stack, heap, answer>>
    BY <1>6 DEF allVars, searchVars
  <2>2. Inv'
    BY <2>1, TrieKept
  <2>3. SearchInv'
    BY <2>1, <2>2 DEF SearchInv
  <2>4. NeverFalls
    <3> SUFFICES ASSUME query # None PROVE CutoffKept(heap, heap', query.k)
      BY DEF NeverFalls
    <3>1. query \in Queries /\ Searching(trie, query, stack, heap)
      BY DEF SearchInv
    <3>2. query.k \in Nat /\ Entries(heap) /\ Cardinality(heap) <= query.k
      BY <3>1, SearchAssumption DEF Searching, Walked
    <3> QED
      BY <2>1, <3>2, CutoffStays
  <2> QED
    BY <2>3, <2>4
<1> QED
  BY <1>1, <1>2, <1>3, <1>4, <1>5, <1>6 DEF SearchNext

(* The first state has no search under way.                                *)
LEMMA SearchStart == SearchInit => SearchInv
BY InvInit DEF SearchInit, SearchInv

(* The invariant holds in every state.                                     *)
LEMMA SearchInvariant == SearchSpec => []SearchInv
<1> QED
  BY SearchStart, SearchStep, PTL DEF SearchSpec

----------------------------------------------------------------------------
(* The end of a walk.                                                      *)

(* The nodes a walk may still come to.                                     *)
Ahead(D, P) == {x \in D : \E d \in P : IsPrefix(d, x)}

Fuel(D, st) == 2 * Cardinality(Ahead(D, Pending(st))) + Len(st)

(* They and the open calls are what bounds the steps.                      *)
LEMMA FuelIs ==
  ASSUME NEW D, NEW st, Frames(st, D)
  PROVE  2 * Cardinality({x \in D : \E i \in DOMAIN st : \E d \in st[i].pending : IsPrefix(d, x)})
           + Len(st) = Fuel(D, st)
<1>1. DOMAIN st = 1..Len(st)
  BY SeqIs DEF Frames
<1>2. {x \in D : \E i \in DOMAIN st : \E d \in st[i].pending : IsPrefix(d, x)}
        = Ahead(D, Pending(st))
  BY <1>1 DEF Ahead, Pending
<1> QED
  BY <1>2 DEF Fuel

(* From P to R a child was come to: what is in R is below P, and is not on *)
(* the way to the child.                                                   *)
Passed(R, P, c) ==
  \A d \in R : d \in Name /\ ~IsPrefix(d, c) /\ \E e \in P : IsPrefix(e, d)

(* So the child at least is not ahead any more.                            *)
LEMMA AheadShrinks ==
  ASSUME NEW D, D \subseteq Name, IsFiniteSet(D), NEW P, P \subseteq Name,
         NEW c \in P, c \in D, NEW R, Passed(R, P, c)
  PROVE  /\ Cardinality(Ahead(D, R)) \in Nat /\ Cardinality(Ahead(D, P)) \in Nat
         /\ Cardinality(Ahead(D, R)) < Cardinality(Ahead(D, P))
<1> DEFINE A == Ahead(D, P)
           B == Ahead(D, R)
<1>1. A \in SUBSET D /\ B \in SUBSET D
  BY DEF Ahead
<1>2. c \in A /\ c \notin B
  <2>1. IsPrefix(c, c)
    BY PrefixOrder
  <2> QED
    BY <2>1 DEF Ahead, Passed
<1>3. ASSUME NEW x \in B PROVE x \in A
  <2>1. x \in D /\ x \in Name
    BY DEF Ahead
  <2>2. PICK d \in R : IsPrefix(d, x)
    BY DEF Ahead
  <2>3. d \in Name
    BY DEF Passed
  <2>4. PICK e \in P : IsPrefix(e, d)
    BY DEF Passed
  <2>5. e \in Name
    OBVIOUS
  <2>6. IsPrefix(e, x)
    BY <2>1, <2>2, <2>3, <2>4, <2>5, PrefixOrder
  <2> QED
    BY <2>1, <2>6 DEF Ahead
<1>4. B \in SUBSET (A \ {c})
  BY <1>2, <1>3
<1> HIDE DEF A, B
<1>5. IsFiniteSet(A) /\ IsFiniteSet(B)
  BY <1>1, FS_Subset
<1>6. Cardinality(A) \in Nat /\ Cardinality(B) \in Nat
  BY <1>5, FS_CardinalityType
<1>7. IsFiniteSet(A \ {c}) /\ Cardinality(A \ {c}) = Cardinality(A) - 1
  BY <1>2, <1>5, FS_RemoveElement
<1>8. Cardinality(B) <= Cardinality(A \ {c})
  BY <1>4, <1>7, FS_Subset
<1> QED
  BY <1>6, <1>7, <1>8 DEF A, B

(* A turn of a loop, at whose end one more call may be open.               *)
LEMMA FuelBurns ==
  ASSUME Trie(trie), NEW st, Frames(st, DOMAIN trie), NEW s, Frames(s, DOMAIN trie),
         NEW c \in Pending(st), Passed(Pending(s), Pending(st), c),
         Len(s) <= Len(st) + 1
  PROVE  Fuel(DOMAIN trie, s) < Fuel(DOMAIN trie, st)
<1> DEFINE D == DOMAIN trie
           P == Pending(st)
           R == Pending(s)
<1>1. D \subseteq Name /\ IsFiniteSet(D)
  BY DEF Trie, Tree, Names
<1>2. P \subseteq D
  BY DEF Pending, Frames, Below
<1>3. Len(st) \in Nat /\ Len(s) \in Nat
  BY SeqIs DEF Frames
<1>4. /\ c \in P /\ c \in D /\ P \subseteq Name /\ Passed(R, P, c)
  BY <1>1, <1>2
<1> HIDE DEF D, P, R
<1>5. /\ Cardinality(Ahead(D, R)) \in Nat /\ Cardinality(Ahead(D, P)) \in Nat
      /\ Cardinality(Ahead(D, R)) < Cardinality(Ahead(D, P))
  BY <1>1, <1>4, AheadShrinks
<1> DEFINE a == Cardinality(Ahead(D, P))
           b == Cardinality(Ahead(D, R))
           m == Len(st)
           n == Len(s)
<1>6. a \in Nat /\ b \in Nat /\ b < a /\ m \in Nat /\ n \in Nat /\ n <= m + 1
  BY <1>3, <1>5
<1> HIDE DEF a, b, m, n
<1>7. 2 * b + n < 2 * a + m
  BY <1>6
<1> QED
  BY <1>7 DEF Fuel, a, b, m, n, D, P, R

(* Of a step of the walk the child that is come to, or the call that ends. *)
LEMMA WalkBurns ==
  ASSUME SearchInv, stack # <<>>, Walk, Frames(stack', DOMAIN trie)
  PROVE  Fuel(DOMAIN trie, stack') < Fuel(DOMAIN trie, stack)
<1> DEFINE D == DOMAIN trie
           k == query.k
           s == stack'
           st == stack
<1>1. /\ Trie(trie) /\ Walked(trie, k, st, heap) /\ Frames(st, D) /\ Frames(s, D)
      /\ D \subseteq Name
  BY UnderWay DEF Walked, Trie, Tree, Names
<1>2. ASSUME NEW c \in Top.pending, NEW a, a = Leaving(c)
      PROVE  /\ Walked(trie, k, a, heap) /\ Len(a) = Len(st)
             /\ c \in Pending(st) /\ Pending(a) = Pending(st) \ {c}
             /\ Passed(Pending(a), Pending(st), c) /\ c \in D /\ c \in Name
  <2> HIDE DEF k, s, D
  <2>1. /\ Walked(trie, k, a, heap) /\ SamePath(a, st)
        /\ c \in Pending(st) /\ Pending(a) = Pending(st) \ {c}
        /\ AllApart(Pending(a), c)
    BY <1>1, <1>2, LeaveWalk
  <2>2. Pending(st) \subseteq D
    BY <1>1 DEF Pending, Frames, Below
  <2>3. \A d \in Pending(a) : d \in Name /\ ~IsPrefix(d, c) /\ IsPrefix(d, d) /\ d \in Pending(st)
    BY <1>1, <2>1, <2>2, PrefixOrder DEF AllApart, Apart
  <2>4. Passed(Pending(a), Pending(st), c)
    BY <2>3 DEF Passed
  <2> QED
    BY <1>1, <2>1, <2>2, <2>4 DEF SamePath
<1>3. ASSUME NEW c \in Top.pending, s = Leaving(c)
      PROVE  Fuel(D, s) < Fuel(D, st)
  <2>1. c \in Pending(st) /\ Passed(Pending(s), Pending(st), c) /\ Len(s) = Len(st)
    BY <1>2, <1>3
  <2>2. Len(s) <= Len(st) + 1
    BY <1>1, <2>1, SeqIs DEF Frames
  <2> HIDE DEF s, st
  <2> QED
    BY <1>1, <2>1, <2>2, FuelBurns
<1>4. ASSUME NEW c \in Top.pending, Enter(c)
      PROVE  Fuel(D, s) < Fuel(D, st)
  <2> DEFINE a == Leaving(c)
             row == RowBehind(query, Top.row, Edge(Top.node, c))
             x == Frame(c, row)
  <2>1. s = Append(a, x)
    BY <1>4 DEF Enter
  <2>2. x.pending = Below(D, c)
    BY ChildrenAre DEF Frame
  <2> HIDE DEF a, x
  <2>3. /\ Walked(trie, k, a, heap) /\ Len(a) = Len(st)
        /\ c \in Pending(st) /\ Pending(a) = Pending(st) \ {c}
        /\ Passed(Pending(a), Pending(st), c) /\ c \in D /\ c \in Name
    BY <1>2 DEF a
  <2>4. Pushed(s, a, x)
    <3>1. IsSeq(a)
      BY <2>3 DEF Walked, Frames
    <3> HIDE DEF s
    <3> QED
      BY <2>1, <3>1, PushIs
  <2>5. Len(s) = Len(st) + 1
    BY <2>3, <2>4 DEF Pushed
  <2>6. ASSUME NEW d \in Pending(s) PROVE d \in Pending(a) \/ d \in Below(D, c)
    <3>1. Len(a) \in Nat
      BY <1>1, <2>3, SeqIs DEF Frames
    <3>2. PICK i \in 1..(Len(a) + 1) : d \in s[i].pending
      BY <2>4 DEF Pending, Pushed
    <3>3. CASE i = Len(a) + 1
      BY <2>2, <2>4, <3>2, <3>3 DEF Pushed
    <3>4. CASE i # Len(a) + 1
      <4>1. i \in 1..Len(a)
        BY <3>1, <3>4
      <4> QED
        BY <2>4, <3>2, <4>1 DEF Pending, Pushed
    <3> QED
      BY <3>3, <3>4
  <2>7. ASSUME NEW d \in Below(D, c) PROVE d \in Name /\ IsPrefix(c, d) /\ ~IsPrefix(d, c)
    <3> HIDE DEF D
    <3> QED
      BY <1>1, <2>3, <2>7, ChildrenApart
  <2>8. Passed(Pending(s), Pending(st), c)
    BY <2>3, <2>6, <2>7 DEF Passed
  <2>9. Len(s) <= Len(st) + 1
    BY <1>1, <2>5, SeqIs DEF Frames
  <2> HIDE DEF s, st
  <2> QED
    BY <1>1, <2>3, <2>8, <2>9, FuelBurns
<1>5. ASSUME Return PROVE Fuel(D, s) < Fuel(D, st)
  <2>1. Loop(st) = {} /\ Popped(s, st)
    BY <1>5 DEF Return, Top, Loop, Caller, Popped
  <2>2. Len(st) \in Nat \ {0}
    BY <1>1, StackLen
  <2>3. Pending(s) = Pending(st)
    <3> HIDE DEF D, s, st
    <3> QED
      BY <1>1, <2>1, <2>2, ReturnFrames
  <2>4. Len(s) = Len(st) - 1
    <3>1. IsSeq(st) /\ Len(st) > 0 /\ s = SubSeq(st, 1, Len(st) - 1)
      BY <1>1, <2>1, <2>2 DEF Frames, Popped
    <3> HIDE DEF s, st
    <3> QED
      BY <3>1, PopIs
  <2>5. Cardinality(Ahead(D, Pending(st))) \in Nat
    <3>1. IsFiniteSet(D) /\ Ahead(D, Pending(st)) \in SUBSET D
      BY <1>1 DEF Trie, Tree, Names, Ahead
    <3> HIDE DEF D, st
    <3> QED
      BY <3>1, FS_Subset, FS_CardinalityType
  <2> QED
    BY <2>2, <2>3, <2>4, <2>5 DEF Fuel
<1> QED
  BY <1>3, <1>4, <1>5 DEF Walk, Prune, Abandon

----------------------------------------------------------------------------
(* What a caller relies on.                                                *)

(* RadixTrie::collect_top and collect_fuzzy: a walk is a path of frames    *)
(* each with children of its own node left, and the heap never outgrows k. *)
THEOREM SearchTypeCorrect == SearchSpec => []SearchTypeOK
<1>1. SearchInv => SearchTypeOK
  <2> SUFFICES ASSUME SearchInv PROVE SearchTypeOK
    OBVIOUS
  <2>1. CASE query = None
    <3>1. stack = <<>> /\ heap = {} /\ answer = None
      BY <2>1 DEF SearchInv
    <3>2. DOMAIN stack = {}
      BY <3>1
    <3> QED
      BY <2>1, <3>1, <3>2 DEF SearchTypeOK
  <2>2. CASE query # None
    <3>1. /\ query \in Queries /\ Cardinality(heap) <= query.k
          /\ Frames(stack, DOMAIN trie) /\ DOMAIN trie \subseteq Name
      BY <2>2 DEF SearchInv, Inv, Trie, Tree, Names, Searching, Walked
    <3>2. DOMAIN stack = 1..Len(stack) /\ Len(stack) \in Nat
      BY <3>1, SeqIs DEF Frames
    <3>3. ASSUME NEW i \in 1..Len(stack)
          PROVE  stack[i].pending \subseteq Children(trie, stack[i].node)
      BY <3>1, ChildrenAre DEF Frames
    <3>4. ASSUME NEW i \in 1..Len(stack), i > 1
          PROVE  /\ stack[i].node \in Children(trie, stack[i - 1].node)
                 /\ stack[i].node \notin stack[i - 1].pending
      <4>1. i \in 2..Len(stack) /\ i - 1 \in 1..(i - 1)
        BY <3>2, <3>4
      <4>2. stack[i].node \in Below(DOMAIN trie, stack[i - 1].node)
        BY <3>1, <4>1 DEF Frames
      <4>3. \A d \in stack[i - 1].pending : Apart(d, stack[i].node)
        BY <3>1, <4>1 DEF Frames
      <4>4. IsPrefix(stack[i].node, stack[i].node)
        <5>1. stack[i].node \in Name
          BY <3>1 DEF Frames
        <5> QED
          BY <5>1, PrefixOrder
      <4> QED
        BY <4>2, <4>3, <4>4, ChildrenAre DEF Apart
    <3> QED
      BY <2>2, <3>1, <3>2, <3>3, <3>4 DEF SearchTypeOK
  <2> QED
    BY <2>1, <2>2
<1> QED
  BY <1>1, SearchInvariant, PTL

(* TopK::offer and cutoff: what a search compares a subtree's maximum with *)
(* never falls while it walks, be it by prefix or with typos.              *)
THEOREM CutoffNeverFalls == SearchSpec => CutoffOnlyRises
<1>1. SearchInv /\ [SearchNext]_allVars =>
        [query # None /\ query' = query =>
           \A c \in Cutoff(query.k, heap) :
             \E d \in Cutoff(query.k, heap') : d >= c]_allVars
  BY SearchStep DEF NeverFalls, CutoffKept
<1> QED
  BY <1>1, SearchInvariant, PTL DEF SearchSpec, CutoffOnlyRises

(* collect_top_k and fuzzy_walk: while a search walks every step, a child  *)
(* pruned, abandoned or entered or a call that returns, brings it nearer   *)
(* to its end, so it comes to no node twice and gives its lock back.       *)
THEOREM WalksMustEnd == SearchSpec => WalksEnd
<1>1. SearchInv /\ [SearchNext]_allVars => [stack # <<>> => StepsLeft' < StepsLeft]_allVars
  <2> SUFFICES ASSUME SearchInv, SearchNext, stack # <<>> PROVE StepsLeft' < StepsLeft
    OBVIOUS
  <2>1. query # None /\ answer = None
    BY DEF SearchInv
  <2>2. Walk
    BY <2>1 DEF SearchNext, Write, AnswerNothing, Begin, Release
  <2>3. trie' = trie /\ query' = query
    BY <2>2 DEF Walk, Prune, Abandon, Enter, Return
  <2>4. Frames(stack, DOMAIN trie)
    BY <2>1 DEF SearchInv, Searching, Walked
  <2>5. Frames(stack', DOMAIN trie)
    <3>1. SearchInv'
      BY SearchStep
    <3> QED
      BY <2>1, <2>3, <3>1 DEF SearchInv, Searching, Walked
  <2>6. Fuel(DOMAIN trie, stack') < Fuel(DOMAIN trie, stack)
    BY <2>2, <2>5, WalkBurns
  <2>7. StepsLeft = Fuel(DOMAIN trie, stack)
    BY <2>4, FuelIs DEF StepsLeft
  <2>8. StepsLeft' = Fuel(DOMAIN trie, stack')
    <3> DEFINE s == stack'
    <3>1. StepsLeft' = 2 * Cardinality({x \in DOMAIN trie :
                         \E i \in DOMAIN s : \E d \in s[i].pending : IsPrefix(d, x)}) + Len(s)
      BY <2>3 DEF StepsLeft
    <3>2. Frames(s, DOMAIN trie)
      BY <2>5
    <3> HIDE DEF s
    <3>3. StepsLeft' = Fuel(DOMAIN trie, s)
      BY <3>1, <3>2, FuelIs
    <3> QED
      BY <3>3 DEF s
  <2> QED
    BY <2>6, <2>7, <2>8
<1> QED
  BY <1>1, SearchInvariant, PTL DEF SearchSpec, WalksEnd

(* RadixTrie::top_k and fuzzy_top_k: whatever order the children come in   *)
(* and whatever is pruned or abandoned on the way, a search answers with   *)
(* the k best stored terms that begin with the prefix, or are within the   *)
(* budget of edits, each with its exact distance, and with no others.      *)
THEOREM AnswersRight == SearchSpec => []AnswerIsTopK
<1>1. SearchInv => AnswerIsTopK
  <2> SUFFICES ASSUME SearchInv, answer # None
               PROVE  answer = Sorted({h \in Hits(query) :
                                 Cardinality({g \in Hits(query) : Better(g, h)}) < query.k})
    BY DEF AnswerIsTopK
  <2> DEFINE q == query
             H == heap
  <2>1. /\ Trie(trie) /\ q \in Queries /\ answer = Sorted(H)
        /\ Searching(trie, q, <<>>, H)
    BY DEF SearchInv, Inv
  <2>2. /\ Entries(H) /\ Cardinality(H) <= q.k /\ Accounted(trie, q, H, {})
    BY <2>1, EmptyWalk DEF Searching, Walked
  <2> HIDE DEF q, H
  <2>3. H = {h \in Hits(q) : Cardinality({g \in Hits(q) : Better(g, h)}) < q.k}
    BY <2>1, <2>2, EndIsTopK
  <2> QED
    BY <2>1, <2>3 DEF q
<1> QED
  BY <1>1, SearchInvariant, PTL

(* collect_fuzzy: a row computed a byte at a time on the way to a node,    *)
(* the loop over an edge ending early or not, has the edit distances from  *)
(* the node's name to every beginning of the query, within the budget.     *)
THEOREM RowsRight == SearchSpec => []RowsAreDistances
<1>1. SearchInv => RowsAreDistances
  <2> SUFFICES ASSUME SearchInv, query # None, query.fuzzy, NEW i \in DOMAIN stack,
                      NEW j \in 0..Len(query.text), NEW n \in 0..query.budget
               PROVE  stack[i].row[j] <= n
                        <=> stack[i].node \in Near[SubSeq(query.text, 1, j)][n]
    BY DEF RowsAreDistances
  <2> DEFINE s == query.text
             w == stack[i].node
  <2>1. /\ Trie(trie) /\ query \in Queries /\ RowsFor(query, stack)
        /\ Frames(stack, DOMAIN trie)
    BY DEF SearchInv, Inv, Searching, Walked
  <2>2. i \in 1..Len(stack)
    BY <2>1, SeqIs DEF Frames
  <2>3. w \in DOMAIN trie /\ stack[i].row = RowOf(s, w)
    BY <2>1, <2>2 DEF Frames, RowsFor, RowFor
  <2>4. n \in Budgets
    BY <2>1, SearchAssumption DEF Budgets
  <2>5. IsTypo(s) /\ j \in 0..Len(s)
    BY <2>1 DEF IsTypo
  <2> HIDE DEF s, w
  <2>6. w \in Word
    BY <2>1, <2>3, WordsAre
  <2>7. RowOf(s, w)[j] <= n <=> w \in Near[Part(s, j)][n]
    BY <2>4, <2>5, <2>6, NearExact
  <2> QED
    BY <2>3, <2>7 DEF s, w, Part
<1> QED
  BY <1>1, SearchInvariant, PTL

(* TopK::into_sorted_vec: an answer, with typos or without, lists what the *)
(* walk kept, each entry once and every better one before a worse.         *)
THEOREM AnswersListed == SearchSpec => [](answer # None => Listed(answer, heap))
<1>1. SearchInv => (answer # None => Listed(answer, heap))
  BY SortedIs DEF SearchInv, Searching, Walked
<1> QED
  BY <1>1, SearchInvariant, PTL

(* typo.rs distance: it is only the reference of the tests, and the walk   *)
(* computes rows without it, yet every hit of a fuzzy search is a stored   *)
(* term with the distance it gives, and within the budget.                 *)
THEOREM HitsMeasured ==
  SearchSpec => [](answer # None /\ query.fuzzy =>
                     \A i \in DOMAIN answer :
                       /\ Stored(trie, answer[i].term)
                       /\ answer[i].distance = Distance(answer[i].term, query.text)
                       /\ answer[i].distance <= query.budget)
<1>1. ASSUME SearchInv, answer # None, query.fuzzy, NEW h \in heap
      PROVE  /\ Stored(trie, h.term) /\ h.distance = Distance(h.term, query.text)
             /\ h.distance <= query.budget
  <2>1. query \in Queries /\ Trie(trie) /\ query.text \in Name
    BY <1>1, SearchAssumption DEF SearchInv, Inv, Name
  <2>2. PICK x \in Wanted(trie, query) : h = EntryOf(trie, query, x)
    BY <1>1 DEF SearchInv, Searching, Accounted
  <2>3. x \in Held(trie) /\ Far(query, x) <= query.budget
    BY DEF Wanted
  <2>4. x \in Terms /\ Stored(trie, x) /\ x \in DOMAIN trie
    BY <2>1, <2>3, HeldIs DEF Held
  <2>5. Distance(x, query.text) = RowOf(query.text, x)[Len(query.text)]
    <3>1. x \in Name
      BY <2>1, <2>4, WordsAre DEF Word
    <3> QED
      BY <2>1, <3>1, DistanceIs
  <2>6. h.term = x /\ h.distance = Far(query, x)
    BY <2>2 DEF EntryOf
  <2> QED
    BY <1>1, <2>3, <2>4, <2>5, <2>6 DEF Far
<1>2. SearchInv /\ answer # None => Listed(answer, heap)
  BY SortedIs DEF SearchInv, Searching, Walked
<1>3. SearchInv => (answer # None /\ query.fuzzy =>
                      \A i \in DOMAIN answer :
                        /\ Stored(trie, answer[i].term)
                        /\ answer[i].distance = Distance(answer[i].term, query.text)
                        /\ answer[i].distance <= query.budget)
  <2> SUFFICES ASSUME SearchInv, answer # None, query.fuzzy, NEW i \in DOMAIN answer
               PROVE  answer[i] \in heap
    BY <1>1
  <2> QED
    BY <1>2 DEF Listed
<1> QED
  BY <1>3, SearchInvariant, PTL
=============================================================================
