-------------------------- MODULE RadixTrieProofs --------------------------
(***************************************************************************)
(* The trie keeps its shape and its cached maxima, and implements a map,   *)
(* for any terms, weights and largest frequency.                           *)
(***************************************************************************)
EXTENDS RadixTrie, FoldProofs, SequenceTheorems, TLAPS

Name == Seq(Nat)

----------------------------------------------------------------------------
(* Names and their beginnings.                                             *)

(* A name begins with another byte by byte.                                *)
LEMMA PrefixBytes ==
  ASSUME NEW s \in Name, NEW t \in Name
  PROVE  IsPrefix(s, t) <=> Len(s) <= Len(t) /\ \A i \in 1..Len(s) : s[i] = t[i]
<1>1. /\ Len(s) \in Nat /\ Len(t) \in Nat
      /\ \A i \in 1..Len(s) : s[i] \in Nat
      /\ \A i \in 1..Len(t) : t[i] \in Nat
  BY LenProperties, ElementOfSeq DEF Name
<1> SUFFICES ASSUME Len(s) <= Len(t)
             PROVE  SubSeq(s, 1, Len(s)) = SubSeq(t, 1, Len(s)) <=>
                      \A i \in 1..Len(s) : s[i] = t[i]
  BY DEF IsPrefix
<1> DEFINE n == Len(s)
           a == SubSeq(s, 1, n)
           b == SubSeq(t, 1, n)
<1>2. a \in Name /\ Len(a) = n /\ \A i \in 1..n : a[i] = s[i]
  <2>1. /\ a \in Seq(Nat) /\ Len(a) = IF 1 <= n THEN n - 1 + 1 ELSE 0
        /\ \A i \in 1..(n - 1 + 1) : a[i] = s[1 + i - 1]
    BY <1>1, SubSeqProperties
  <2> HIDE DEF a
  <2> QED
    BY <1>1, <2>1 DEF Name
<1>3. b \in Name /\ Len(b) = n /\ \A i \in 1..n : b[i] = t[i]
  <2>1. \A i \in 1..n : t[i] \in Nat
    BY <1>1
  <2>2. /\ b \in Seq(Nat) /\ Len(b) = IF 1 <= n THEN n - 1 + 1 ELSE 0
        /\ \A i \in 1..(n - 1 + 1) : b[i] = t[1 + i - 1]
    BY <1>1, <2>1, SubSeqProperties
  <2> HIDE DEF b
  <2> QED
    BY <1>1, <2>2 DEF Name
<1> HIDE DEF a, b, n
<1>4. (\A i \in 1..n : s[i] = t[i]) => a = b
  <2> SUFFICES ASSUME \A i \in 1..n : s[i] = t[i] PROVE a = b
    OBVIOUS
  <2>1. \A i \in 1..Len(a) : a[i] = b[i]
    BY <1>2, <1>3
  <2> QED
    BY <1>2, <1>3, <2>1, SeqEqual DEF Name
<1>5. a = b => \A i \in 1..n : s[i] = t[i]
  BY <1>2, <1>3
<1> QED
  BY <1>4, <1>5 DEF a, b, n

(* The first n bytes of a name.                                            *)
LEMMA Cut ==
  ASSUME NEW t \in Name, NEW n \in 0..Len(t)
  PROVE  /\ SubSeq(t, 1, n) \in Name
         /\ Len(SubSeq(t, 1, n)) = n
         /\ \A i \in 1..n : SubSeq(t, 1, n)[i] = t[i]
         /\ IsPrefix(SubSeq(t, 1, n), t)
<1> DEFINE a == SubSeq(t, 1, n)
<1>1. Len(t) \in Nat /\ \A i \in 1..n : t[i] \in Nat
  <2>1. Len(t) \in Nat /\ \A i \in 1..Len(t) : t[i] \in Nat
    BY LenProperties, ElementOfSeq DEF Name
  <2> QED
    BY <2>1
<1>2. /\ a \in Seq(Nat) /\ Len(a) = IF 1 <= n THEN n - 1 + 1 ELSE 0
      /\ \A i \in 1..(n - 1 + 1) : a[i] = t[1 + i - 1]
  BY <1>1, SubSeqProperties
<1> HIDE DEF a
<1>3. a \in Name /\ Len(a) = n /\ \A i \in 1..n : a[i] = t[i]
  BY <1>1, <1>2 DEF Name
<1>4. IsPrefix(a, t)
  BY <1>1, <1>3, PrefixBytes
<1> QED
  BY <1>3, <1>4 DEF a

(* Two names with the same bytes are one.                                  *)
LEMMA SameName ==
  ASSUME NEW s \in Name, NEW t \in Name, Len(s) = Len(t),
         \A i \in 1..Len(s) : s[i] = t[i]
  PROVE  s = t
BY SeqEqual DEF Name

(* Beginnings are ordered, those of one name by their length.              *)
LEMMA PrefixOrder ==
  ASSUME NEW a \in Name, NEW b \in Name, NEW c \in Name
  PROVE  /\ IsPrefix(a, a) /\ IsPrefix(Root, a)
         /\ IsPrefix(a, b) /\ IsPrefix(b, c) => IsPrefix(a, c)
         /\ IsPrefix(a, c) /\ IsPrefix(b, c) /\ Len(a) <= Len(b) => IsPrefix(a, b)
         /\ IsPrefix(a, b) /\ Len(a) = Len(b) => a = b
         /\ IsPrefix(a, b) => Len(a) <= Len(b) /\ a = SubSeq(b, 1, Len(a))
<1>1. Len(a) \in Nat /\ Len(b) \in Nat /\ Len(c) \in Nat
  BY LenProperties DEF Name
<1>2. Root \in Name /\ Len(Root) = 0
  BY DEF Root, Name
<1>3. IsPrefix(a, a) /\ IsPrefix(Root, a)
  BY <1>1, <1>2, PrefixBytes
<1>4. IsPrefix(a, b) /\ IsPrefix(b, c) => IsPrefix(a, c)
  BY <1>1, PrefixBytes
<1>5. IsPrefix(a, c) /\ IsPrefix(b, c) /\ Len(a) <= Len(b) => IsPrefix(a, b)
  BY <1>1, PrefixBytes
<1>6. IsPrefix(a, b) /\ Len(a) = Len(b) => a = b
  BY PrefixBytes, SameName
<1>7. ASSUME IsPrefix(a, b) PROVE Len(a) <= Len(b) /\ a = SubSeq(b, 1, Len(a))
  <2>1. Len(a) <= Len(b) /\ \A i \in 1..Len(a) : a[i] = b[i]
    BY <1>7, PrefixBytes
  <2>2. Len(a) \in 0..Len(b)
    BY <1>1, <2>1
  <2> DEFINE x == SubSeq(b, 1, Len(a))
  <2>3. x \in Name /\ Len(x) = Len(a) /\ \A i \in 1..Len(a) : x[i] = b[i]
    BY <2>2, Cut
  <2> HIDE DEF x
  <2>4. a = x
    BY <2>1, <2>3, SameName
  <2> QED
    BY <2>1, <2>4 DEF x
<1> QED
  BY <1>3, <1>4, <1>5, <1>6, <1>7

(* A node is above those with longer names that begin with its own.        *)
LEMMA AboveIs ==
  ASSUME NEW a \in Name, NEW b \in Name
  PROVE  /\ Above(a, b) <=> IsPrefix(a, b) /\ Len(a) < Len(b)
         /\ Len(a) \in Nat /\ Len(b) \in Nat
<1>1. Len(a) \in Nat /\ Len(b) \in Nat
  BY LenProperties DEF Name
<1>2. IsPrefix(a, b) => Len(a) <= Len(b) /\ (Len(a) = Len(b) => a = b)
  BY PrefixOrder
<1> QED
  BY <1>1, <1>2 DEF Above, IsStrictPrefix

(* Two names part behind their first n bytes.                              *)
PartAt(a, b, n) ==
  /\ n < Len(b)
  /\ \A i \in 1..n : a[i] = b[i]
  /\ a[n + 1] # b[n + 1]

(* Of two names one begins with the other, or they part.                   *)
LEMMA PartOrPrefix ==
  ASSUME NEW a \in Name, NEW b \in Name
  PROVE  IsPrefix(a, b) \/ IsPrefix(b, a) \/ \E n \in 0..(Len(a) - 1) : PartAt(a, b, n)
<1> SUFFICES ASSUME ~IsPrefix(a, b), ~IsPrefix(b, a)
             PROVE  \E n \in 0..(Len(a) - 1) : PartAt(a, b, n)
  OBVIOUS
<1>1. Len(a) \in Nat /\ Len(b) \in Nat
  BY LenProperties DEF Name
<1> DEFINE T == {i \in Nat : i \in 1..Len(a) /\ i <= Len(b) /\ a[i] # b[i]}
<1>2. T # {}
  <2>1. CASE Len(a) <= Len(b)
    <3>1. PICK i \in 1..Len(a) : a[i] # b[i]
      BY <2>1, PrefixBytes
    <3>2. i \in T
      BY <1>1, <2>1, <3>1
    <3> QED
      BY <3>2
  <2>2. CASE Len(b) <= Len(a)
    <3>1. PICK i \in 1..Len(b) : a[i] # b[i]
      BY <2>2, PrefixBytes
    <3>2. i \in T
      BY <1>1, <2>2, <3>1
    <3> QED
      BY <3>2
  <2> QED
    BY <1>1, <2>1, <2>2
<1>3. PICK m \in T : \A j \in T : m <= j
  <2>1. T \in SUBSET Nat
    OBVIOUS
  <2> HIDE DEF T
  <2> QED
    BY <1>2, <2>1, LeastExists
<1>4. m \in 1..Len(a) /\ m <= Len(b) /\ a[m] # b[m] /\ m \in Nat
  BY <1>3
<1>5. \A i \in 1..(m - 1) : a[i] = b[i]
  <2> SUFFICES ASSUME NEW i \in 1..(m - 1), a[i] # b[i] PROVE FALSE
    OBVIOUS
  <2>1. i \in T /\ ~ (m <= i)
    BY <1>1, <1>4
  <2> QED
    BY <1>3, <2>1
<1>6. m - 1 \in 0..(Len(a) - 1) /\ m - 1 < Len(b) /\ (m - 1) + 1 = m
  BY <1>1, <1>4
<1>7. PartAt(a, b, m - 1)
  BY <1>4, <1>5, <1>6 DEF PartAt
<1> QED
  BY <1>6, <1>7

----------------------------------------------------------------------------
(* Sets of names.                                                          *)

(* Where two names part there is a node.                                   *)
Parts(N) == \A a, b \in N : \A n \in 0..(Len(a) - 1) :
              PartAt(a, b, n) => SubSeq(a, 1, n) \in N

Names(N) == N \subseteq Name /\ Root \in N /\ IsFiniteSet(N) /\ Parts(N)

(* The children of a node depend on the names only.                        *)
Below(N, p) ==
  {q \in N : Above(p, q) /\ ~ \E m \in N : Above(p, m) /\ Above(m, q)}

Branching(N, p) ==
  \E q, r \in N : Above(p, q) /\ Above(p, r) /\ q[Len(p) + 1] # r[Len(p) + 1]

(* What the model takes for children are the next names below.             *)
LEMMA ChildrenAre ==
  ASSUME NEW tr, NEW p
  PROVE  Children(tr, p) = Below(DOMAIN tr, p)
BY DEF Children, Below

(* On the way to a node below there is a child.                            *)
LEMMA ChildTowards ==
  ASSUME NEW N, N \subseteq Name, NEW p \in Name, NEW r \in N, Above(p, r)
  PROVE  \E c \in Below(N, p) : IsPrefix(c, r) /\ c[Len(p) + 1] = r[Len(p) + 1]
<1> DEFINE On(x) == Above(p, x) /\ IsPrefix(x, r)
           T == {Len(x) : x \in {y \in N : On(y)}}
<1>1. \A x \in N : x \in Name /\ Len(x) \in Nat
  BY LenProperties DEF Name
<1>2. Len(r) \in T
  <2>1. IsPrefix(r, r)
    BY PrefixOrder
  <2> QED
    BY <2>1
<1>3. PICK m \in T : \A j \in T : m <= j
  <2>1. T \in SUBSET Nat
    BY <1>1
  <2> HIDE DEF T
  <2> QED
    BY <1>2, <2>1, LeastExists
<1>4. PICK c \in N : On(c) /\ m = Len(c)
  OBVIOUS
<1>5. ASSUME NEW x \in N, Above(p, x), Above(x, c) PROVE FALSE
  <2>1. IsPrefix(x, c) /\ Len(x) < Len(c)
    BY <1>1, <1>5, AboveIs
  <2>2. IsPrefix(x, r)
    BY <1>1, <1>4, <2>1, PrefixOrder
  <2>3. Len(x) \in T
    BY <1>5, <2>2
  <2> QED
    BY <1>1, <1>3, <1>4, <2>1, <2>3
<1>6. c \in Below(N, p)
  BY <1>4, <1>5 DEF Below
<1>7. c[Len(p) + 1] = r[Len(p) + 1]
  <2>1. Len(p) \in Nat /\ Len(c) \in Nat /\ Len(p) < Len(c)
    BY <1>1, <1>4, AboveIs
  <2>2. \A i \in 1..Len(c) : c[i] = r[i]
    BY <1>1, <1>4, PrefixBytes
  <2>3. Len(p) + 1 \in 1..Len(c)
    BY <2>1
  <2> QED
    BY <2>2, <2>3
<1> QED
  BY <1>4, <1>6, <1>7

(* Two children of a node begin with different bytes.                      *)
LEMMA ChildrenPart ==
  ASSUME NEW N, N \subseteq Name, Parts(N), NEW p \in Name,
         NEW q \in Below(N, p), NEW r \in Below(N, p), q # r
  PROVE  q[Len(p) + 1] # r[Len(p) + 1]
<1> SUFFICES ASSUME q[Len(p) + 1] = r[Len(p) + 1] PROVE FALSE
  OBVIOUS
<1>1. /\ q \in N /\ r \in N /\ q \in Name /\ r \in Name
      /\ Above(p, q) /\ Above(p, r)
      /\ \A m \in N : Above(p, m) => ~Above(m, q) /\ ~Above(m, r)
  BY DEF Below
<1>2. /\ IsPrefix(p, q) /\ IsPrefix(p, r) /\ Len(p) < Len(q) /\ Len(p) < Len(r)
      /\ Len(p) \in Nat /\ Len(q) \in Nat /\ Len(r) \in Nat
  BY <1>1, AboveIs
<1>3. ~IsPrefix(q, r) /\ ~IsPrefix(r, q)
  BY <1>1 DEF Above, IsStrictPrefix
<1>4. PICK n \in 0..(Len(q) - 1) : PartAt(q, r, n)
  BY <1>1, <1>3, PartOrPrefix
<1>5. \A i \in 1..(Len(p) + 1) : q[i] = r[i]
  <2>1. \A i \in 1..Len(p) : p[i] = q[i] /\ p[i] = r[i]
    BY <1>1, <1>2, PrefixBytes
  <2>2. \A i \in 1..(Len(p) + 1) : i \in 1..Len(p) \/ i = Len(p) + 1
    BY <1>2
  <2> QED
    BY <2>1, <2>2
<1>6. n > Len(p)
  <2> SUFFICES ASSUME n <= Len(p) PROVE FALSE
    BY <1>2
  <2>1. n + 1 \in 1..(Len(p) + 1)
    BY <1>2
  <2> QED
    BY <1>4, <1>5, <2>1 DEF PartAt
<1> DEFINE m == SubSeq(q, 1, n)
<1>7. m \in N /\ m \in Name /\ Len(m) = n /\ IsPrefix(m, q)
  <2>1. n \in 0..Len(q)
    BY <1>2
  <2>2. m \in Name /\ Len(m) = n /\ IsPrefix(m, q)
    BY <1>1, <2>1, Cut
  <2> QED
    BY <1>1, <1>4, <2>2 DEF Parts
<1> HIDE DEF m
<1>8. Above(m, q)
  BY <1>1, <1>2, <1>7, AboveIs
<1>9. Above(p, m)
  <2>1. IsPrefix(p, m)
    BY <1>1, <1>2, <1>6, <1>7, PrefixOrder
  <2> QED
    BY <1>6, <1>7, <2>1, AboveIs
<1> QED
  BY <1>1, <1>7, <1>8, <1>9

(* A finite set has two elements or at most one.                           *)
LEMMA TwoElements ==
  ASSUME NEW S, IsFiniteSet(S)
  PROVE  /\ Cardinality(S) \in Nat
         /\ Cardinality(S) >= 2 <=> \E a, b \in S : a # b
<1>1. Cardinality(S) \in Nat
  BY FS_CardinalityType
<1>2. ASSUME NEW a \in S, NEW b \in S, a # b PROVE Cardinality(S) >= 2
  <2>1. IsFiniteSet(S \ {a}) /\ Cardinality(S \ {a}) = Cardinality(S) - 1
    BY FS_RemoveElement
  <2>2. S \ {a} # {}
    BY <1>2
  <2>3. Cardinality(S \ {a}) # 0 /\ Cardinality(S \ {a}) \in Nat
    BY <2>1, <2>2, FS_EmptySet, FS_CardinalityType
  <2> QED
    BY <1>1, <2>1, <2>3
<1>3. ASSUME Cardinality(S) >= 2 PROVE \E a, b \in S : a # b
  <2>1. S # {}
    BY <1>3, FS_EmptySet
  <2>2. PICK a \in S : TRUE
    BY <2>1
  <2>3. IsFiniteSet(S \ {a}) /\ Cardinality(S \ {a}) = Cardinality(S) - 1
    BY FS_RemoveElement
  <2>4. Cardinality(S \ {a}) # 0
    BY <1>1, <1>3, <2>3
  <2>5. S \ {a} # {}
    BY <2>3, <2>4, FS_EmptySet
  <2> QED
    BY <2>5
<1> QED
  BY <1>1, <1>2, <1>3

(* Branching is having two children.                                       *)
LEMMA BranchingIs ==
  ASSUME NEW N, Names(N), NEW p \in Name
  PROVE  /\ IsFiniteSet(Below(N, p)) /\ Cardinality(Below(N, p)) \in Nat
         /\ Branching(N, p) <=> Cardinality(Below(N, p)) >= 2
<1>1. N \subseteq Name /\ Parts(N) /\ IsFiniteSet(N)
  BY DEF Names
<1>2. IsFiniteSet(Below(N, p))
  <2>1. Below(N, p) \in SUBSET N
    BY DEF Below
  <2> QED
    BY <1>1, <2>1, FS_Subset
<1>3. Branching(N, p) => \E a, b \in Below(N, p) : a # b
  <2> SUFFICES ASSUME NEW q \in N, NEW r \in N, Above(p, q), Above(p, r),
                      q[Len(p) + 1] # r[Len(p) + 1]
               PROVE  \E a, b \in Below(N, p) : a # b
    BY DEF Branching
  <2>1. PICK a \in Below(N, p) : a[Len(p) + 1] = q[Len(p) + 1]
    BY <1>1, ChildTowards
  <2>2. PICK b \in Below(N, p) : b[Len(p) + 1] = r[Len(p) + 1]
    BY <1>1, ChildTowards
  <2> QED
    BY <2>1, <2>2
<1>4. (\E a, b \in Below(N, p) : a # b) => Branching(N, p)
  <2> SUFFICES ASSUME NEW a \in Below(N, p), NEW b \in Below(N, p), a # b
               PROVE  Branching(N, p)
    OBVIOUS
  <2>1. a[Len(p) + 1] # b[Len(p) + 1]
    BY <1>1, ChildrenPart
  <2>2. a \in N /\ b \in N /\ Above(p, a) /\ Above(p, b)
    BY DEF Below
  <2> QED
    BY <2>1, <2>2 DEF Branching
<1>5. /\ Cardinality(Below(N, p)) \in Nat
      /\ Cardinality(Below(N, p)) >= 2 <=> \E a, b \in Below(N, p) : a # b
  BY <1>2, TwoElements
<1> QED
  BY <1>2, <1>3, <1>4, <1>5

----------------------------------------------------------------------------
(* Descending.                                                             *)

(* The walk stops at the last node on the way.                             *)
LEMMA ReachedIs ==
  ASSUME NEW tr, Names(DOMAIN tr), NEW key \in Name
  PROVE  /\ Reached(tr, key) \in DOMAIN tr /\ Reached(tr, key) \in Name
         /\ IsPrefix(Reached(tr, key), key)
         /\ \A x \in DOMAIN tr : IsPrefix(x, key) => Len(x) <= Len(Reached(tr, key))
         /\ key \in DOMAIN tr <=> Reached(tr, key) = key
<1> DEFINE T == {n \in 0..Len(key) : SubSeq(key, 1, n) \in DOMAIN tr}
           m == Max(T)
           p == SubSeq(key, 1, m)
<1>1. DOMAIN tr \subseteq Name /\ Root \in DOMAIN tr /\ Len(key) \in Nat
  BY LenProperties DEF Names, Name
<1>2. ASSUME NEW x \in DOMAIN tr, IsPrefix(x, key) PROVE Len(x) \in T
  <2>1. x \in Name /\ Len(x) \in Nat
    BY <1>1, LenProperties DEF Name
  <2>2. Len(x) <= Len(key) /\ x = SubSeq(key, 1, Len(x))
    BY <1>2, <2>1, PrefixOrder
  <2>3. Len(x) \in 0..Len(key)
    BY <1>1, <2>1, <2>2
  <2> QED
    BY <2>2, <2>3
<1>3. T # {} /\ T \in SUBSET (0..Len(key))
  <2>1. IsPrefix(Root, key)
    BY PrefixOrder
  <2> QED
    BY <1>1, <1>2, <2>1
<1>4. m \in T /\ \A j \in T : j <= m
  <2> HIDE DEF T
  <2> QED
    BY <1>1, <1>3, EndsExist
<1>5. m \in 0..Len(key) /\ p \in DOMAIN tr
  BY <1>4
<1> HIDE DEF T
<1>6. Reached(tr, key) = p
  BY DEF Reached, T
<1> HIDE DEF p, m
<1>7. p \in Name /\ Len(p) = m /\ IsPrefix(p, key)
  BY <1>5, Cut DEF p
<1>8. \A x \in DOMAIN tr : IsPrefix(x, key) => Len(x) <= Len(p)
  BY <1>2, <1>4, <1>7
<1>9. key \in DOMAIN tr => p = key
  <2> SUFFICES ASSUME key \in DOMAIN tr PROVE p = key
    OBVIOUS
  <2>1. IsPrefix(key, key)
    BY PrefixOrder
  <2>2. Len(key) <= Len(p) /\ Len(p) <= Len(key)
    BY <1>1, <1>5, <1>7, <1>8, <2>1
  <2>3. Len(p) = Len(key)
    BY <1>1, <1>5, <1>7, <2>2
  <2> QED
    BY <1>7, <2>3, PrefixOrder
<1> QED
  BY <1>5, <1>6, <1>7, <1>8, <1>9

(* There is at most one edge to follow, and it is not followed to its end. *)
LEMMA NextChildIs ==
  ASSUME NEW tr, Names(DOMAIN tr), NEW key \in Name, key \notin DOMAIN tr,
         NEW p, p = Reached(tr, key)
  PROVE  /\ \A q, r \in NextChild(tr, p, key) : q = r
         /\ \A q \in NextChild(tr, p, key) :
              /\ q \in DOMAIN tr /\ q \in Name /\ Above(p, q)
              /\ q \in Below(DOMAIN tr, p)
              /\ q[Len(p) + 1] = key[Len(p) + 1]
              /\ ~IsPrefix(q, key)
         /\ \A r \in DOMAIN tr :
              Above(p, r) /\ r[Len(p) + 1] = key[Len(p) + 1] =>
                \E q \in NextChild(tr, p, key) : IsPrefix(q, r)
<1>1. /\ DOMAIN tr \subseteq Name /\ Parts(DOMAIN tr) /\ p \in Name
      /\ \A x \in DOMAIN tr : IsPrefix(x, key) => Len(x) <= Len(p)
  BY ReachedIs DEF Names
<1>2. NextChild(tr, p, key) =
        {q \in Below(DOMAIN tr, p) : q[Len(p) + 1] = key[Len(p) + 1]}
  BY ChildrenAre DEF NextChild
<1> DEFINE hit == NextChild(tr, p, key)
<1> HIDE DEF hit
<1>3. \A q, r \in Below(DOMAIN tr, p) : q[Len(p) + 1] = r[Len(p) + 1] => q = r
  BY <1>1, ChildrenPart
<1>4. \A q, r \in hit : q = r
  BY <1>2, <1>3 DEF hit
<1>5. ASSUME NEW q \in hit
      PROVE  /\ q \in DOMAIN tr /\ q \in Name /\ Above(p, q)
             /\ q \in Below(DOMAIN tr, p)
             /\ q[Len(p) + 1] = key[Len(p) + 1]
             /\ ~IsPrefix(q, key)
  <2>1. q \in Below(DOMAIN tr, p) /\ q[Len(p) + 1] = key[Len(p) + 1]
    BY <1>2 DEF hit
  <2>2. q \in DOMAIN tr /\ q \in Name /\ Above(p, q)
    BY <1>1, <2>1 DEF Below
  <2>3. Len(p) < Len(q) /\ Len(p) \in Nat /\ Len(q) \in Nat
    BY <1>1, <2>2, AboveIs
  <2>4. ~IsPrefix(q, key)
    BY <1>1, <2>2, <2>3
  <2> QED
    BY <2>1, <2>2, <2>4
<1>6. ASSUME NEW r \in DOMAIN tr, Above(p, r), r[Len(p) + 1] = key[Len(p) + 1]
      PROVE  \E q \in hit : IsPrefix(q, r)
  <2>1. PICK q \in Below(DOMAIN tr, p) : IsPrefix(q, r) /\ q[Len(p) + 1] = r[Len(p) + 1]
    BY <1>1, <1>6, ChildTowards
  <2>2. q \in hit
    BY <1>2, <1>6, <2>1 DEF hit
  <2> QED
    BY <2>1, <2>2
<1> QED
  BY <1>4, <1>5, <1>6 DEF hit

(* descend finds the top of what lies below a key, wherever that ends.     *)
LEMMA DescendIs ==
  ASSUME NEW tr, Names(DOMAIN tr), NEW key \in Name
  PROVE  /\ \A q \in Descend(tr, key) : q \in DOMAIN tr /\ IsPrefix(key, q)
         /\ \A r \in DOMAIN tr : IsPrefix(key, r) =>
              \E q \in Descend(tr, key) : IsPrefix(q, r)
<1> DEFINE p == Reached(tr, key)
<1>1. /\ DOMAIN tr \subseteq Name /\ p \in DOMAIN tr /\ p \in Name /\ IsPrefix(p, key)
      /\ \A x \in DOMAIN tr : IsPrefix(x, key) => Len(x) <= Len(p)
      /\ key \in DOMAIN tr <=> p = key
  BY ReachedIs DEF Names
<1>2. CASE p = key
  <2>1. Descend(tr, key) = {key}
    BY <1>2 DEF Descend
  <2> QED
    BY <1>1, <1>2, <2>1, PrefixOrder
<1>3. CASE p # key
  <2>1. key \notin DOMAIN tr
    BY <1>1, <1>3
  <2> DEFINE hit == NextChild(tr, p, key)
  <2>2. Descend(tr, key) = {q \in hit : IsPrefix(key, q)}
    BY <1>3 DEF Descend
  <2> HIDE DEF p
  <2>3. /\ \A q \in hit : q \in DOMAIN tr /\ q \in Name /\ Above(p, q) /\ ~IsPrefix(q, key)
        /\ \A r \in DOMAIN tr :
              Above(p, r) /\ r[Len(p) + 1] = key[Len(p) + 1] =>
                \E q \in hit : IsPrefix(q, r)
    BY <2>1, NextChildIs DEF p
  <2> HIDE DEF hit
  <2>4. ASSUME NEW r \in DOMAIN tr, IsPrefix(key, r)
        PROVE  \E q \in hit : IsPrefix(key, q) /\ IsPrefix(q, r)
    <3>1. r \in Name /\ Len(p) < Len(key) /\ Len(p) \in Nat /\ Len(key) \in Nat
      <4>1. Above(p, key)
        BY <1>1, <1>3 DEF Above, IsStrictPrefix
      <4> QED
        BY <1>1, <4>1, AboveIs
    <3>2. IsPrefix(p, r)
      BY <1>1, <2>4, <3>1, PrefixOrder
    <3>3. Len(key) <= Len(r) /\ Len(r) \in Nat /\ \A i \in 1..Len(key) : key[i] = r[i]
      BY <2>4, <3>1, PrefixBytes, LenProperties DEF Name
    <3>4. Above(p, r)
      BY <1>1, <3>1, <3>2, <3>3, AboveIs
    <3>5. r[Len(p) + 1] = key[Len(p) + 1]
      <4>1. Len(p) + 1 \in 1..Len(key)
        BY <3>1
      <4> QED
        BY <3>3, <4>1
    <3>6. PICK q \in hit : IsPrefix(q, r)
      BY <2>3, <3>4, <3>5
    <3>7. q \in Name /\ Len(q) \in Nat /\ ~IsPrefix(q, key)
      BY <2>3, LenProperties DEF Name
    <3>8. ~ (Len(q) <= Len(key))
      BY <2>4, <3>1, <3>6, <3>7, PrefixOrder
    <3>9. IsPrefix(key, q)
      <4>1. Len(key) <= Len(q)
        BY <3>1, <3>7, <3>8
      <4> QED
        BY <2>4, <3>1, <3>6, <3>7, <4>1, PrefixOrder
    <3> QED
      BY <3>6, <3>9
  <2> QED
    BY <2>2, <2>3, <2>4
<1> QED
  BY <1>2, <1>3

(* frequency finds the node of a term.                                     *)
LEMMA StoredIs ==
  ASSUME NEW tr, Names(DOMAIN tr), NEW t \in Name
  PROVE  Stored(tr, t) <=> t \in DOMAIN tr /\ tr[t].terminal
<1>1. DOMAIN tr \subseteq Name
  BY DEF Names
<1>2. ASSUME t \in DOMAIN tr PROVE t \in Descend(tr, t)
  <2>1. Reached(tr, t) = t
    BY <1>2, ReachedIs
  <2> QED
    BY <2>1 DEF Descend
<1>3. \A q \in Descend(tr, t) : q \in DOMAIN tr
  BY DescendIs
<1> QED
  BY <1>2, <1>3 DEF Stored

----------------------------------------------------------------------------
(* Payload and maxima.                                                     *)

Tries(D) == UNION {[N -> Node] : N \in SUBSET D}

Tree(tr) ==
  /\ Names(DOMAIN tr)
  /\ tr \in [DOMAIN tr -> Node]
  /\ \A p \in DOMAIN tr : ~tr[p].terminal => tr[p].frequency = 0

Held(tr) == {q \in DOMAIN tr : tr[q].terminal}
Heights(tr, p) == {0} \cup {tr[q].frequency : q \in {r \in Held(tr) : IsPrefix(p, r)}}
Exact(tr, p) == tr[p].max = Max(Heights(tr, p))

SameTerms(u, v) ==
  Held(u) = Held(v) /\ \A q \in Held(u) : u[q].frequency = v[q].frequency

(* The frequencies below a node depend on the terms only.                  *)
LEMMA SameHeights ==
  ASSUME NEW u, NEW v, SameTerms(u, v), NEW p
  PROVE  Heights(u, p) = Heights(v, p)
BY DEF SameTerms, Heights

(* The highest of some frequencies.                                        *)
LEMMA MaxOfFreqs ==
  ASSUME NEW T \in SUBSET (0..MaxFreq), T # {}
  PROVE  Max(T) \in T /\ Max(T) \in 0..MaxFreq /\ \A j \in T : j <= Max(T)
BY EndsExist, TrieAssumption

(* The highest is the one that none exceeds.                               *)
LEMMA MaxFreqIs ==
  ASSUME NEW T \in SUBSET (0..MaxFreq), NEW m \in T, \A j \in T : j <= m
  PROVE  Max(T) = m
<1>1. T \in SUBSET Int
  BY TrieAssumption
<1> QED
  BY <1>1, MaxIs

(* There is a highest frequency below every node.                          *)
LEMMA HeightsType ==
  ASSUME NEW tr, tr \in [DOMAIN tr -> Node], NEW p
  PROVE  /\ Heights(tr, p) \in SUBSET (0..MaxFreq) /\ Heights(tr, p) # {}
         /\ Max(Heights(tr, p)) \in Heights(tr, p)
         /\ \A h \in Heights(tr, p) : h <= Max(Heights(tr, p))
<1>1. 0 \in 0..MaxFreq
  BY TrieAssumption
<1>2. \A q \in DOMAIN tr : tr[q].frequency \in 0..MaxFreq
  BY DEF Node
<1>3. Heights(tr, p) \in SUBSET (0..MaxFreq) /\ Heights(tr, p) # {}
  BY <1>1, <1>2 DEF Heights, Held
<1> QED
  BY <1>3, MaxOfFreqs

SameButMax(u, tr, p) ==
  \A q \in DOMAIN tr : /\ u[q].terminal = tr[q].terminal
                       /\ u[q].frequency = tr[q].frequency
                       /\ q # p => u[q] = tr[q]

(* recompute_max changes one maximum.                                      *)
LEMMA RecomputeEffect ==
  ASSUME NEW tr, tr \in [DOMAIN tr -> Node], NEW p, NEW u, u = RecomputeMax(tr, p)
  PROVE  /\ DOMAIN u = DOMAIN tr /\ u \in [DOMAIN tr -> Node]
         /\ SameTerms(u, tr) /\ SameButMax(u, tr, p)
         /\ p \in DOMAIN tr =>
              u[p].max = Max({Own(tr[p])} \cup {tr[q].max : q \in Below(DOMAIN tr, p)})
<1>1. CASE p \notin DOMAIN tr
  <2>1. u = tr
    BY <1>1 DEF RecomputeMax
  <2> QED
    BY <1>1, <2>1 DEF SameTerms, SameButMax
<1>2. CASE p \in DOMAIN tr
  <2> DEFINE T == {Own(tr[p])} \cup {tr[q].max : q \in Below(DOMAIN tr, p)}
             m == Max(T)
             node == [tr[p] EXCEPT !.max = m]
  <2>1. \A q \in DOMAIN tr : /\ tr[q].max \in 0..MaxFreq
                             /\ Own(tr[q]) \in 0..MaxFreq /\ tr[q] \in Node
    BY TrieAssumption DEF Node, Own
  <2>2. T \in SUBSET (0..MaxFreq) /\ T # {}
    BY <1>2, <2>1 DEF Below
  <2>3. m \in 0..MaxFreq
    <3> HIDE DEF T
    <3> QED
      BY <2>2, MaxOfFreqs
  <2>4. u = [q \in DOMAIN tr \cup {p} |-> IF q = p THEN node ELSE tr[q]]
    BY <1>2, ChildrenAre DEF RecomputeMax, HighestBelow, AddNode
  <2> HIDE DEF m
  <2>5. /\ node \in Node /\ node.max = m /\ node.terminal = tr[p].terminal
        /\ node.frequency = tr[p].frequency
    BY <1>2, <2>1, <2>3 DEF Node
  <2> HIDE DEF node
  <2>6. DOMAIN u = DOMAIN tr /\ \A q \in DOMAIN tr : u[q] = IF q = p THEN node ELSE tr[q]
    BY <1>2, <2>4
  <2>7. u \in [DOMAIN tr -> Node]
    BY <1>2, <2>1, <2>4, <2>5
  <2>8. SameButMax(u, tr, p)
    BY <2>5, <2>6 DEF SameButMax
  <2>9. SameTerms(u, tr)
    BY <2>6, <2>8 DEF SameTerms, SameButMax, Held
  <2> QED
    BY <1>2, <2>5, <2>6, <2>7, <2>8, <2>9 DEF m
<1> QED
  BY <1>1, <1>2

(* Children that are exact make their parent exact.                        *)
LEMMA RecomputeExact ==
  ASSUME NEW tr, Tree(tr), NEW p \in DOMAIN tr,
         \A c \in Below(DOMAIN tr, p) : Exact(tr, c)
  PROVE  Exact(RecomputeMax(tr, p), p)
<1> DEFINE u == RecomputeMax(tr, p)
           K == Below(DOMAIN tr, p)
           T == {Own(tr[p])} \cup {tr[q].max : q \in K}
           H == Heights(tr, p)
           M == Max(H)
<1>1. /\ DOMAIN tr \subseteq Name /\ tr \in [DOMAIN tr -> Node] /\ p \in Name
      /\ \A q \in DOMAIN tr : /\ tr[q].max \in 0..MaxFreq /\ tr[q] \in Node
                              /\ tr[q].frequency \in 0..MaxFreq
                              /\ tr[q].terminal \in BOOLEAN
                              /\ Own(tr[q]) \in 0..MaxFreq
  BY TrieAssumption DEF Tree, Names, Node, Own
<1>2. SameTerms(u, tr) /\ u[p].max = Max(T)
  BY <1>1, RecomputeEffect
<1>3. /\ K \subseteq DOMAIN tr
      /\ \A c \in K : Above(p, c) /\ tr[c].max \in Heights(tr, c)
                      /\ \A h \in Heights(tr, c) : h <= tr[c].max
  <2>1. K \subseteq DOMAIN tr /\ \A c \in K : Above(p, c)
    BY DEF Below
  <2> HIDE DEF K
  <2>2. ASSUME NEW c \in K
        PROVE  tr[c].max \in Heights(tr, c) /\ \A h \in Heights(tr, c) : h <= tr[c].max
    <3>1. tr[c].max = Max(Heights(tr, c))
      BY DEF K, Exact
    <3> QED
      BY <1>1, <3>1, HeightsType
  <2> QED
    BY <2>1, <2>2
<1>4. /\ H \in SUBSET (0..MaxFreq) /\ M \in H /\ \A h \in H : h <= M
  BY <1>1, HeightsType
<1> HIDE DEF K, u, M
<1>5. \A c \in K : Heights(tr, c) \subseteq H
  <2> SUFFICES ASSUME NEW c \in K, NEW r \in Held(tr), IsPrefix(c, r)
               PROVE  IsPrefix(p, r)
    BY DEF Heights
  <2>1. c \in Name /\ r \in Name /\ IsPrefix(p, c)
    BY <1>1, <1>3, AboveIs DEF Held
  <2> QED
    BY <1>1, <2>1, PrefixOrder
<1>6. Own(tr[p]) \in H
  BY <1>1, PrefixOrder DEF Own, Heights, Held
<1>7. T \in SUBSET (0..MaxFreq) /\ T \subseteq H
  BY <1>1, <1>3, <1>5, <1>6
<1>8. M \in T \/ \E x \in T : M <= x
  <2>1. CASE M = 0
    <3>1. Own(tr[p]) >= 0
      BY <1>1
    <3> QED
      BY <2>1, <3>1
  <2>2. CASE M # 0
    <3>1. PICK r \in Held(tr) : IsPrefix(p, r) /\ M = tr[r].frequency
      BY <1>4, <2>2 DEF Heights
    <3>2. r \in DOMAIN tr /\ tr[r].terminal /\ r \in Name
      BY <1>1 DEF Held
    <3>3. CASE r = p
      <4>1. Own(tr[p]) = M
        BY <3>1, <3>2, <3>3 DEF Own
      <4> QED
        BY <4>1
    <3>4. CASE r # p
      <4>1. Above(p, r)
        BY <3>1, <3>4 DEF Above, IsStrictPrefix
      <4>2. PICK c \in K : IsPrefix(c, r)
        BY <1>1, <3>2, <4>1, ChildTowards DEF K
      <4>3. tr[r].frequency \in Heights(tr, c)
        BY <4>2 DEF Heights
      <4>4. M <= tr[c].max /\ tr[c].max \in T
        BY <1>3, <3>1, <4>3
      <4> QED
        BY <4>4
    <3> QED
      BY <3>3, <3>4
  <2> QED
    BY <2>1, <2>2
<1> HIDE DEF T
<1>9. M \in T /\ \A x \in T : x <= M
  <2>1. \A x \in T : x \in Int /\ x <= M
    BY <1>4, <1>7
  <2>2. M \in Int
    BY <1>4
  <2>3. M \in T
    <3>1. CASE \E x \in T : M <= x
      <4>1. PICK x \in T : M <= x
        BY <3>1
      <4>2. x = M
        BY <2>1, <2>2, <4>1
      <4> QED
        BY <4>2
    <3> QED
      BY <1>8, <3>1
  <2> QED
    BY <2>1, <2>3
<1>10. Max(T) = M
  BY <1>7, <1>9, MaxFreqIs
<1>11. Heights(u, p) = H
  BY <1>2, SameHeights
<1> QED
  BY <1>2, <1>10, <1>11 DEF Exact, M, u

(* ... and nothing else less exact.                                        *)
LEMMA RecomputeKeeps ==
  ASSUME NEW tr, Tree(tr), NEW p
  PROVE  /\ Tree(RecomputeMax(tr, p))
         /\ \A r \in DOMAIN tr : r # p => (Exact(RecomputeMax(tr, p), r) <=> Exact(tr, r))
<1> DEFINE u == RecomputeMax(tr, p)
<1>1. /\ DOMAIN u = DOMAIN tr /\ u \in [DOMAIN tr -> Node]
      /\ SameTerms(u, tr) /\ SameButMax(u, tr, p)
  <2>1. tr \in [DOMAIN tr -> Node] /\ u = RecomputeMax(tr, p)
    BY DEF Tree
  <2> HIDE DEF u
  <2> QED
    BY <2>1, RecomputeEffect
<1> HIDE DEF u
<1>2. Tree(u)
  BY <1>1 DEF Tree, SameButMax
<1>3. \A r : Heights(u, r) = Heights(tr, r)
  BY <1>1, SameHeights
<1>4. \A r \in DOMAIN tr : r # p => (Exact(u, r) <=> Exact(tr, r))
  BY <1>1, <1>3 DEF Exact, SameButMax
<1> QED
  BY <1>2, <1>4 DEF u

----------------------------------------------------------------------------
(* The way up.                                                             *)

(* It passes the beginnings of a key, the key itself first, the root last. *)
LEMMA WayUpIs ==
  ASSUME NEW t \in Name
  PROVE  /\ Len(t) \in Nat /\ Len(WayUp(t)) = Len(t) + 1
         /\ DOMAIN WayUp(t) = 1..Len(WayUp(t))
         /\ \A i \in 1..(Len(t) + 1) : WayUp(t)[i] = SubSeq(t, 1, Len(t) + 1 - i)
<1>1. Len(t) \in Nat
  BY LenProperties DEF Name
<1>2. DOMAIN WayUp(t) = 1..(Len(t) + 1)
  BY DEF WayUp
<1>3. Len(WayUp(t)) = Len(t) + 1
  <2>1. WayUp(t) \in Seq({SubSeq(t, 1, Len(t) + 1 - i) : i \in 1..(Len(t) + 1)})
    BY <1>1, SeqDef DEF WayUp
  <2> QED
    BY <1>1, <1>2, <2>1, LenProperties
<1> QED
  BY <1>1, <1>2, <1>3 DEF WayUp

(* What holds at first and is handed on by recompute_max holds at the end. *)
LEMMA PutFolds ==
  ASSUME NEW t \in Name, NEW S, NEW base \in S,
         \A p : \A x \in S : RecomputeMax(x, p) \in S,
         NEW I \in [0..(Len(t) + 1) -> SUBSET S], base \in I[0],
         \A i \in 1..(Len(t) + 1) : \A x \in I[i - 1] :
           RecomputeMax(x, WayUp(t)[i]) \in I[i]
  PROVE  FoldLeft(RecomputeMax, base, WayUp(t)) \in I[Len(t) + 1]
<1> DEFINE way == WayUp(t)
           n == Len(way)
           D == 1..n
           pick == [s \in SUBSET D |-> Max(s)]
           step == [i \in D |-> [x \in S |-> RecomputeMax(x, way[i])]]
           Folds(h) == h = [s \in SUBSET D |->
                             IF s = {} THEN base
                             ELSE RecomputeMax(h[s \ {Max(s)}], way[Max(s)])]
<1>1. n = Len(t) + 1 /\ n \in Nat /\ DOMAIN way = D
  BY WayUpIs
<1> HIDE DEF way, n
<1>2. Picks(pick, D)
  <2>1. ASSUME NEW s \in SUBSET D, s # {} PROVE Max(s) \in s
    <3>1. s \in SUBSET (0..n)
      OBVIOUS
    <3> QED
      BY <1>1, <2>1, <3>1, EndsExist
  <2> QED
    BY <2>1 DEF Picks
<1>3. step \in Steps(D, S)
  BY DEF Steps
<1>4. IsFiniteSet(D)
  BY <1>1, FS_Interval
<1>5. PICK h : IsFold(h, D, S, base, step, pick)
  <2> HIDE DEF D, step, pick
  <2> QED
    BY <1>2, <1>3, <1>4, FoldExists
<1>6. Folds(h)
  <2>1. ASSUME NEW s \in SUBSET D, s # {}
        PROVE  step[pick[s]][h[s \ {pick[s]}]] = RecomputeMax(h[s \ {Max(s)}], way[Max(s)])
    <3>1. pick[s] = Max(s) /\ Max(s) \in D
      BY <1>2, <2>1 DEF Picks
    <3>2. h[s \ {Max(s)}] \in S
      BY <1>5 DEF IsFold
    <3> QED
      BY <3>1, <3>2
  <2>2. \A s \in SUBSET D :
          h[s] = IF s = {} THEN base ELSE RecomputeMax(h[s \ {Max(s)}], way[Max(s)])
    <3> HIDE DEF step, pick
    <3> QED
      BY <1>5, <2>1 DEF IsFold
  <2>3. h = [s \in SUBSET D |-> h[s]]
    BY <1>5 DEF IsFold
  <2> HIDE DEF D
  <2> QED
    BY <2>2, <2>3
<1> DEFINE fold == CHOOSE g : Folds(g)
<1>7. Folds(fold)
  BY <1>6
<1>8. FoldLeft(RecomputeMax, base, way) = fold[D]
  BY <1>1 DEF FoldLeft, MapThenFoldSet
<1> HIDE DEF fold
<1>9. fold[{}] = base /\ \A s \in SUBSET D : s # {} =>
        fold[s] = RecomputeMax(fold[s \ {Max(s)}], way[Max(s)])
  BY <1>7
<1>10. ASSUME NEW i \in 1..n PROVE fold[1..i] = RecomputeMax(fold[1..(i - 1)], way[i])
  <2>1. Max(1..i) = i
    <3>1. 1..i \in SUBSET Int /\ i \in 1..i /\ \A j \in 1..i : j <= i
      BY <1>1
    <3> QED
      BY <3>1, MaxIs
  <2>2. (1..i) \ {i} = 1..(i - 1)
    <3>1. \A j \in Nat \ {0} : (1..j) \ {j} = 1..(j - 1)
      OBVIOUS
    <3> QED
      BY <1>1, <3>1
  <2>3. 1..i \in SUBSET D /\ 1..i # {}
    <3>1. \A j \in 1..i : j \in 1..n
      BY <1>1
    <3>2. i \in 1..i
      BY <1>1
    <3> QED
      BY <3>1, <3>2
  <2> QED
    BY <1>9, <2>1, <2>2, <2>3
<1> DEFINE Bad == {k \in 0..n : fold[1..k] \notin I[k]}
<1>11. Bad = {}
  <2> SUFFICES ASSUME Bad # {} PROVE FALSE
    OBVIOUS
  <2>1. PICK m \in Bad : \A j \in Bad : m <= j
    <3>1. Bad \in SUBSET Nat
      BY <1>1
    <3> HIDE DEF Bad
    <3> QED
      BY <3>1, LeastExists
  <2>2. 1..0 = {} /\ fold[1..0] \in I[0]
    BY <1>9
  <2>3. m \in 1..n /\ m - 1 \in 0..n /\ ~ (m <= m - 1)
    BY <1>1, <2>2
  <2>4. fold[1..(m - 1)] \in I[m - 1]
    BY <2>1, <2>3
  <2>5. fold[1..m] = RecomputeMax(fold[1..(m - 1)], way[m])
    BY <1>10, <2>3
  <2>6. fold[1..m] \in I[m]
    BY <1>1, <2>3, <2>4, <2>5 DEF way
  <2> QED
    BY <2>6
<1>12. fold[D] \in I[n]
  BY <1>1, <1>11
<1> QED
  BY <1>1, <1>8, <1>12 DEF way

(* The same for the way up of a removal.                                   *)
LEMMA TakeFolds ==
  ASSUME NEW t \in Name, NEW S, NEW base \in S,
         \A p : \A x \in S : Unwind(x, p) \in S,
         NEW I \in [0..(Len(t) + 1) -> SUBSET S], base \in I[0],
         \A i \in 1..(Len(t) + 1) : \A x \in I[i - 1] :
           Unwind(x, WayUp(t)[i]) \in I[i]
  PROVE  FoldLeft(Unwind, base, WayUp(t)) \in I[Len(t) + 1]
<1> DEFINE way == WayUp(t)
           n == Len(way)
           D == 1..n
           pick == [s \in SUBSET D |-> Max(s)]
           step == [i \in D |-> [x \in S |-> Unwind(x, way[i])]]
           Folds(h) == h = [s \in SUBSET D |->
                             IF s = {} THEN base
                             ELSE Unwind(h[s \ {Max(s)}], way[Max(s)])]
<1>1. n = Len(t) + 1 /\ n \in Nat /\ DOMAIN way = D
  BY WayUpIs
<1> HIDE DEF way, n
<1>2. Picks(pick, D)
  <2>1. ASSUME NEW s \in SUBSET D, s # {} PROVE Max(s) \in s
    <3>1. s \in SUBSET (0..n)
      OBVIOUS
    <3> QED
      BY <1>1, <2>1, <3>1, EndsExist
  <2> QED
    BY <2>1 DEF Picks
<1>3. step \in Steps(D, S)
  BY DEF Steps
<1>4. IsFiniteSet(D)
  BY <1>1, FS_Interval
<1>5. PICK h : IsFold(h, D, S, base, step, pick)
  <2> HIDE DEF D, step, pick
  <2> QED
    BY <1>2, <1>3, <1>4, FoldExists
<1>6. Folds(h)
  <2>1. ASSUME NEW s \in SUBSET D, s # {}
        PROVE  step[pick[s]][h[s \ {pick[s]}]] = Unwind(h[s \ {Max(s)}], way[Max(s)])
    <3>1. pick[s] = Max(s) /\ Max(s) \in D
      BY <1>2, <2>1 DEF Picks
    <3>2. h[s \ {Max(s)}] \in S
      BY <1>5 DEF IsFold
    <3> QED
      BY <3>1, <3>2
  <2>2. \A s \in SUBSET D :
          h[s] = IF s = {} THEN base ELSE Unwind(h[s \ {Max(s)}], way[Max(s)])
    <3> HIDE DEF step, pick
    <3> QED
      BY <1>5, <2>1 DEF IsFold
  <2>3. h = [s \in SUBSET D |-> h[s]]
    BY <1>5 DEF IsFold
  <2> HIDE DEF D
  <2> QED
    BY <2>2, <2>3
<1> DEFINE fold == CHOOSE g : Folds(g)
<1>7. Folds(fold)
  BY <1>6
<1>8. FoldLeft(Unwind, base, way) = fold[D]
  BY <1>1 DEF FoldLeft, MapThenFoldSet
<1> HIDE DEF fold
<1>9. fold[{}] = base /\ \A s \in SUBSET D : s # {} =>
        fold[s] = Unwind(fold[s \ {Max(s)}], way[Max(s)])
  BY <1>7
<1>10. ASSUME NEW i \in 1..n PROVE fold[1..i] = Unwind(fold[1..(i - 1)], way[i])
  <2>1. Max(1..i) = i
    <3>1. 1..i \in SUBSET Int /\ i \in 1..i /\ \A j \in 1..i : j <= i
      BY <1>1
    <3> QED
      BY <3>1, MaxIs
  <2>2. (1..i) \ {i} = 1..(i - 1)
    <3>1. \A j \in Nat \ {0} : (1..j) \ {j} = 1..(j - 1)
      OBVIOUS
    <3> QED
      BY <1>1, <3>1
  <2>3. 1..i \in SUBSET D /\ 1..i # {}
    <3>1. \A j \in 1..i : j \in 1..n
      BY <1>1
    <3>2. i \in 1..i
      BY <1>1
    <3> QED
      BY <3>1, <3>2
  <2> QED
    BY <1>9, <2>1, <2>2, <2>3
<1> DEFINE Bad == {k \in 0..n : fold[1..k] \notin I[k]}
<1>11. Bad = {}
  <2> SUFFICES ASSUME Bad # {} PROVE FALSE
    OBVIOUS
  <2>1. PICK m \in Bad : \A j \in Bad : m <= j
    <3>1. Bad \in SUBSET Nat
      BY <1>1
    <3> HIDE DEF Bad
    <3> QED
      BY <3>1, LeastExists
  <2>2. 1..0 = {} /\ fold[1..0] \in I[0]
    BY <1>9
  <2>3. m \in 1..n /\ m - 1 \in 0..n /\ ~ (m <= m - 1)
    BY <1>1, <2>2
  <2>4. fold[1..(m - 1)] \in I[m - 1]
    BY <2>1, <2>3
  <2>5. fold[1..m] = Unwind(fold[1..(m - 1)], way[m])
    BY <1>10, <2>3
  <2>6. fold[1..m] \in I[m]
    BY <1>1, <2>3, <2>4, <2>5 DEF way
  <2> QED
    BY <2>6
<1>12. fold[D] \in I[n]
  BY <1>1, <1>11
<1> QED
  BY <1>1, <1>8, <1>12 DEF way

----------------------------------------------------------------------------
(* Writing a term.                                                         *)

(* On the way up the maxima still to be recomputed are those of beginnings *)
(* of the term shorter than what has been passed.                          *)
Rising(tr, t, n) ==
  /\ Tree(tr)
  /\ \A r \in DOMAIN tr : (IsPrefix(r, t) /\ Len(r) < n) \/ Exact(tr, r)

(* Recomputing the next of them leaves one fewer.                          *)
LEMMA RisingStep ==
  ASSUME NEW tr, NEW t \in Name, NEW n \in 1..(Len(t) + 1), Rising(tr, t, n),
         NEW p, p = SubSeq(t, 1, n - 1), NEW u, u = RecomputeMax(tr, p)
  PROVE  /\ Rising(u, t, n - 1) /\ DOMAIN u = DOMAIN tr /\ SameTerms(u, tr)
         /\ u \in [DOMAIN tr -> Node]
<1>1. Tree(tr) /\ tr \in [DOMAIN tr -> Node] /\ DOMAIN tr \subseteq Name
  BY DEF Rising, Tree, Names
<1>2. DOMAIN u = DOMAIN tr /\ SameTerms(u, tr) /\ u \in [DOMAIN tr -> Node]
  BY <1>1, RecomputeEffect
<1>3. /\ Tree(u)
      /\ \A r \in DOMAIN tr : r # p => (Exact(u, r) <=> Exact(tr, r))
  BY <1>1, RecomputeKeeps
<1>4. p \in Name /\ Len(p) = n - 1
  <2>1. Len(t) \in Nat
    BY LenProperties DEF Name
  <2>2. n - 1 \in 0..Len(t)
    BY <2>1
  <2> QED
    BY <2>2, Cut
<1>5. ASSUME NEW r \in DOMAIN tr
      PROVE  (IsPrefix(r, t) /\ Len(r) < n - 1) \/ Exact(u, r)
  <2>1. r \in Name /\ Len(r) \in Nat
    BY <1>1, LenProperties DEF Name
  <2>2. (IsPrefix(r, t) /\ Len(r) < n) \/ Exact(tr, r)
    BY DEF Rising
  <2>3. CASE r = p
    <3>1. ASSUME NEW c \in Below(DOMAIN tr, p) PROVE Exact(tr, c)
      <4>1. c \in DOMAIN tr /\ c \in Name /\ Above(p, c)
        BY <1>1 DEF Below
      <4>2. Len(p) < Len(c) /\ Len(c) \in Nat
        BY <1>4, <4>1, AboveIs
      <4>3. ~ (Len(c) < n)
        BY <1>4, <4>2
      <4> QED
        BY <4>1, <4>3 DEF Rising
    <3>2. Exact(u, p)
      BY <1>1, <2>3, <3>1, RecomputeExact
    <3> QED
      BY <2>3, <3>2
  <2>4. CASE r # p
    <3>1. IsPrefix(r, t) => Len(r) # n - 1
      <4>1. IsPrefix(r, t) => r = SubSeq(t, 1, Len(r))
        BY <2>1, PrefixOrder
      <4> QED
        BY <2>4, <4>1
    <3>2. IsPrefix(r, t) /\ Len(r) < n => Len(r) < n - 1
      BY <2>1, <3>1
    <3> QED
      BY <1>3, <2>2, <2>4, <3>2
  <2> QED
    BY <2>3, <2>4
<1> QED
  BY <1>2, <1>3, <1>5 DEF Rising

(* At the top none is left.                                                *)
LEMMA PutRises ==
  ASSUME NEW m, NEW t \in Name, Rising(m, t, Len(t) + 1),
         NEW u, u = FoldLeft(RecomputeMax, m, WayUp(t))
  PROVE  /\ Tree(u) /\ DOMAIN u = DOMAIN m /\ SameTerms(u, m)
         /\ \A r \in DOMAIN u : Exact(u, r)
<1> DEFINE D == DOMAIN m
           k == Len(t) + 1
           S == {x \in [D -> Node] : Tree(x)}
           Set(n) == {x \in S : SameTerms(x, m) /\ Rising(x, t, n)}
           I == [i \in 0..k |-> Set(k - i)]
<1>1. Len(t) \in Nat /\ k \in Nat
  BY LenProperties DEF Name
<1>2. m \in S /\ m \in Set(k)
  <2>1. Tree(m) /\ m \in [D -> Node]
    BY DEF Rising, Tree
  <2> QED
    BY <2>1 DEF SameTerms
<1>3. \A p : \A x \in S : RecomputeMax(x, p) \in S
  <2> SUFFICES ASSUME NEW p, NEW x \in S PROVE RecomputeMax(x, p) \in S
    OBVIOUS
  <2>1. Tree(x) /\ x \in [DOMAIN x -> Node] /\ DOMAIN x = D
    OBVIOUS
  <2> DEFINE y == RecomputeMax(x, p)
  <2>2. Tree(y)
    BY <2>1, RecomputeKeeps
  <2> HIDE DEF S, y
  <2>3. y \in [DOMAIN x -> Node]
    BY <2>1, RecomputeEffect DEF y
  <2> QED
    BY <2>1, <2>2, <2>3 DEF S, y
<1>4. ASSUME NEW i \in 1..k, NEW x \in Set(k - (i - 1))
      PROVE  RecomputeMax(x, WayUp(t)[i]) \in Set(k - i)
  <2> DEFINE n == k - (i - 1)
             p == WayUp(t)[i]
             y == RecomputeMax(x, p)
  <2>1. n \in 1..(Len(t) + 1) /\ Len(t) + 1 - i = n - 1 /\ k - i = n - 1
    BY <1>1
  <2>2. p = SubSeq(t, 1, n - 1)
    <3>1. p = SubSeq(t, 1, Len(t) + 1 - i)
      BY WayUpIs
    <3> QED
      BY <2>1, <3>1
  <2>3. Rising(x, t, n) /\ DOMAIN x = D /\ SameTerms(x, m)
    OBVIOUS
  <2> HIDE DEF n, p, y, S
  <2>4. /\ Rising(y, t, n - 1) /\ DOMAIN y = DOMAIN x /\ SameTerms(y, x)
        /\ y \in [DOMAIN x -> Node]
    BY <2>1, <2>2, <2>3, RisingStep DEF y
  <2>5. SameTerms(y, m)
    BY <2>3, <2>4 DEF SameTerms
  <2>6. y \in S
    BY <2>3, <2>4 DEF S, Rising
  <2> QED
    BY <2>1, <2>4, <2>5, <2>6 DEF y, p
<1>5. I \in [0..k -> SUBSET S]
  OBVIOUS
<1>6. m \in I[0]
  BY <1>1, <1>2
<1>7. \A i \in 1..k : \A x \in I[i - 1] : RecomputeMax(x, WayUp(t)[i]) \in I[i]
  <2>1. \A i \in 1..k : i \in 0..k /\ i - 1 \in 0..k
    BY <1>1
  <2> QED
    BY <1>4, <2>1
<1>8. u \in I[k]
  <2> HIDE DEF I, S
  <2> QED
    BY <1>2, <1>3, <1>5, <1>6, <1>7, PutFolds
<1>9. u \in Set(0)
  <2>1. k \in 0..k /\ k - k = 0
    BY <1>1
  <2> QED
    BY <1>8, <2>1
<1>10. u \in [D -> Node] /\ Tree(u) /\ SameTerms(u, m) /\ Rising(u, t, 0)
  BY <1>9
<1>11. ASSUME NEW r \in DOMAIN u PROVE Exact(u, r)
  <2>1. r \in Name
    BY <1>10 DEF Tree, Names
  <2>2. ~ (Len(r) < 0)
    BY <2>1, LenProperties DEF Name
  <2> QED
    BY <1>10, <2>2 DEF Rising
<1> QED
  BY <1>10, <1>11

(* Where two sequences of bytes stop being the same.                       *)
LEMMA CommonIs ==
  ASSUME NEW q \in Name, NEW t \in Name, NEW m, m = LongestCommonPrefix({q, t})
  PROVE  /\ m \in Name /\ IsPrefix(m, q) /\ IsPrefix(m, t)
         /\ Len(m) < Len(q) /\ Len(m) < Len(t) => q[Len(m) + 1] # t[Len(m) + 1]
<1> DEFINE C == CommonPrefixes({q, t})
           T == {n \in 0..Len(q) : SubSeq(q, 1, n) \in C}
<1>1. Len(q) \in Nat /\ Len(t) \in Nat
  BY LenProperties DEF Name
<1>2. \A x \in C : x \in Name /\ IsPrefix(x, q) /\ IsPrefix(x, t)
  <2> SUFFICES ASSUME NEW x \in C PROVE x \in Name /\ IsPrefix(x, q) /\ IsPrefix(x, t)
    OBVIOUS
  <2>1. /\ \E s \in {q, t} : x \in Prefixes(s)
        /\ \A s \in {q, t} : IsPrefix(x, s)
    BY DEF CommonPrefixes
  <2>2. PICK s \in {q, t} : x \in Prefixes(s)
    BY <2>1
  <2>3. s \in Name
    OBVIOUS
  <2>4. x \in Name
    <3>1. PICK n \in 0..Len(s) : x = SubSeq(s, 1, n)
      BY <2>2 DEF Prefixes
    <3> QED
      BY <2>3, <3>1, Cut
  <2> QED
    BY <2>1, <2>4
<1>3. ASSUME NEW n \in 0..Len(q), IsPrefix(SubSeq(q, 1, n), t) PROVE SubSeq(q, 1, n) \in C
  <2> DEFINE x == SubSeq(q, 1, n)
  <2>1. IsPrefix(x, q) /\ Len(x) = n
    BY Cut
  <2>2. x \in Prefixes(q)
    BY DEF Prefixes
  <2> HIDE DEF x
  <2>3. x \in UNION {Prefixes(s) : s \in {q, t}}
    BY <2>2
  <2>4. \A s \in {q, t} : IsPrefix(x, s)
    BY <1>3, <2>1 DEF x
  <2>5. x \in C
    BY <2>3, <2>4 DEF CommonPrefixes
  <2> QED
    BY <2>5 DEF x
<1> HIDE DEF C
<1>4. \A x \in C : Len(x) \in T /\ x = SubSeq(q, 1, Len(x))
  <2> SUFFICES ASSUME NEW x \in C PROVE Len(x) \in T /\ x = SubSeq(q, 1, Len(x))
    OBVIOUS
  <2>1. x = SubSeq(q, 1, Len(x)) /\ Len(x) <= Len(q) /\ Len(x) \in Nat
    BY <1>2, PrefixOrder, LenProperties DEF Name
  <2>2. Len(x) \in 0..Len(q)
    BY <1>1, <2>1
  <2> QED
    BY <2>1, <2>2
<1>5. T # {} /\ T \in SUBSET (0..Len(q))
  <2>1. SubSeq(q, 1, 0) = <<>> /\ IsPrefix(<<>>, t) /\ 0 \in 0..Len(q)
    BY <1>1, PrefixOrder DEF Root
  <2>2. SubSeq(q, 1, 0) \in C
    BY <1>3, <2>1
  <2> QED
    BY <2>1, <2>2
<1>6. Max(T) \in T /\ \A j \in T : j <= Max(T)
  <2> HIDE DEF T
  <2> QED
    BY <1>1, <1>5, EndsExist
<1>7. \E x \in C : \A y \in C : Len(y) <= Len(x)
  <2> DEFINE x == SubSeq(q, 1, Max(T))
  <2>1. x \in C /\ Len(x) = Max(T)
    <3>1. Max(T) \in 0..Len(q)
      BY <1>6
    <3> QED
      BY <1>6, <3>1, Cut
  <2> HIDE DEF x
  <2>2. \A y \in C : Len(y) <= Len(x)
    BY <1>4, <1>6, <2>1
  <2> QED
    BY <2>1, <2>2
<1>8. m \in C /\ \A y \in C : Len(y) <= Len(m)
  <2>1. m = CHOOSE x \in C : \A y \in C : Len(y) <= Len(x)
    BY DEF LongestCommonPrefix, C
  <2> QED
    BY <1>7, <2>1
<1>9. m \in Name /\ IsPrefix(m, q) /\ IsPrefix(m, t)
  BY <1>2, <1>8
<1>10. ASSUME Len(m) < Len(q), Len(m) < Len(t), q[Len(m) + 1] = t[Len(m) + 1]
       PROVE  FALSE
  <2> DEFINE n == Len(m) + 1
             x == SubSeq(q, 1, n)
  <2>1. Len(m) \in Nat
    BY <1>9, LenProperties DEF Name
  <2>2. n \in 0..Len(q) /\ n <= Len(t)
    BY <1>1, <1>10, <2>1
  <2>3. x \in Name /\ Len(x) = n /\ \A i \in 1..n : x[i] = q[i]
    BY <2>2, Cut
  <2>4. \A i \in 1..n : q[i] = t[i]
    <3>1. \A i \in 1..Len(m) : m[i] = q[i] /\ m[i] = t[i]
      BY <1>9, PrefixBytes
    <3>2. \A i \in 1..n : i \in 1..Len(m) \/ i = Len(m) + 1
      BY <2>1
    <3> QED
      BY <1>10, <3>1, <3>2
  <2>5. IsPrefix(x, t)
    <3> HIDE DEF x, n
    <3> QED
      BY <2>2, <2>3, <2>4, PrefixBytes
  <2>6. x \in C
    BY <1>3, <2>2, <2>5
  <2>7. Len(x) <= Len(m) /\ Len(x) = Len(m) + 1
    <3>1. Len(x) = Len(m) + 1
      BY <2>3
    <3> HIDE DEF x
    <3> QED
      BY <1>8, <2>6, <3>1
  <2> QED
    BY <2>1, <2>7
<1> QED
  BY <1>9, <1>10

(* They part once.                                                         *)
LEMMA PartOnce ==
  ASSUME NEW a, NEW b, NEW n \in Nat, NEW l \in Nat, PartAt(a, b, n),
         \A i \in 1..l : a[i] = b[i]
  PROVE  l <= n
<1> SUFFICES ASSUME n < l PROVE FALSE
  OBVIOUS
<1>1. n + 1 \in 1..l
  OBVIOUS
<1> QED
  BY <1>1 DEF PartAt

(* Longer names part where their beginnings do.                            *)
LEMMA PartLonger ==
  ASSUME NEW a \in Name, NEW b \in Name, NEW c \in Name, NEW d \in Name,
         IsPrefix(a, c), IsPrefix(b, d), NEW n \in 0..(Len(a) - 1), PartAt(a, b, n)
  PROVE  /\ n \in 0..(Len(c) - 1) /\ PartAt(c, d, n)
         /\ SubSeq(c, 1, n) = SubSeq(a, 1, n)
<1>1. /\ Len(a) \in Nat /\ Len(b) \in Nat /\ Len(c) \in Nat /\ Len(d) \in Nat
      /\ Len(a) <= Len(c) /\ Len(b) <= Len(d)
      /\ \A i \in 1..Len(a) : a[i] = c[i]
      /\ \A i \in 1..Len(b) : b[i] = d[i]
  BY PrefixBytes, LenProperties DEF Name
<1>2. n \in Nat /\ n < Len(a) /\ n < Len(b)
  BY <1>1 DEF PartAt
<1>3. \A i \in 1..(n + 1) : i \in 1..Len(a) /\ i \in 1..Len(b)
  BY <1>1, <1>2
<1>4. \A i \in 1..(n + 1) : a[i] = c[i] /\ b[i] = d[i]
  BY <1>1, <1>3
<1>5. n + 1 \in 1..(n + 1) /\ \A i \in 1..n : i \in 1..(n + 1)
  BY <1>2
<1>6. n \in 0..(Len(c) - 1) /\ n < Len(d)
  BY <1>1, <1>2
<1>7. PartAt(c, d, n)
  BY <1>4, <1>5, <1>6 DEF PartAt
<1> DEFINE x == SubSeq(a, 1, n)
           y == SubSeq(c, 1, n)
<1>8. n \in 0..Len(a) /\ n \in 0..Len(c)
  BY <1>1, <1>2
<1>9. /\ x \in Name /\ Len(x) = n /\ \A i \in 1..n : x[i] = a[i]
      /\ y \in Name /\ Len(y) = n /\ \A i \in 1..n : y[i] = c[i]
  BY <1>8, Cut
<1> HIDE DEF x, y
<1>10. x = y
  BY <1>4, <1>5, <1>9, SameName
<1> QED
  BY <1>6, <1>7, <1>10 DEF x, y

(* Beginnings of names bring no new place where names part.                *)
LEMMA BeginningsPart ==
  ASSUME NEW N, N \subseteq Name, Parts(N), NEW M, M \subseteq Name,
         \A m \in M : \E q \in N : IsPrefix(m, q)
  PROVE  Parts(N \cup M)
<1> SUFFICES ASSUME NEW a \in N \cup M, NEW b \in N \cup M,
                    NEW n \in 0..(Len(a) - 1), PartAt(a, b, n)
             PROVE  SubSeq(a, 1, n) \in N \cup M
  BY DEF Parts
<1>1. PICK c \in N : c \in Name /\ IsPrefix(a, c)
  BY PrefixOrder
<1>2. PICK d \in N : d \in Name /\ IsPrefix(b, d)
  BY PrefixOrder
<1>3. /\ n \in 0..(Len(c) - 1) /\ PartAt(c, d, n)
      /\ SubSeq(c, 1, n) = SubSeq(a, 1, n)
  BY <1>1, <1>2, PartLonger
<1>4. SubSeq(c, 1, n) \in N
  BY <1>3 DEF Parts
<1> QED
  BY <1>3, <1>4

(* A name joins the others if the places where it leaves them are nodes.   *)
LEMMA PartsWith ==
  ASSUME NEW N, N \subseteq Name, Parts(N), NEW t \in Name,
         \A r \in N : \A n \in 0..(Len(t) - 1) : PartAt(t, r, n) => SubSeq(t, 1, n) \in N
  PROVE  Parts(N \cup {t})
<1> SUFFICES ASSUME NEW a \in N \cup {t}, NEW b \in N \cup {t},
                    NEW n \in 0..(Len(a) - 1), PartAt(a, b, n)
             PROVE  SubSeq(a, 1, n) \in N \cup {t}
  BY DEF Parts
<1>1. a \in Name /\ b \in Name /\ a # b
  BY DEF PartAt
<1>2. CASE a \in N /\ b \in N
  BY <1>2 DEF Parts
<1>3. CASE a = t
  BY <1>1, <1>3
<1>4. CASE b = t /\ a \in N
  <2>1. Len(a) \in Nat /\ Len(t) \in Nat
    BY <1>1, LenProperties DEF Name
  <2>2. n \in 0..(Len(t) - 1) /\ n < Len(a) /\ n \in 0..Len(a) /\ n \in 0..Len(t)
    BY <1>4, <2>1 DEF PartAt
  <2>3. PartAt(t, a, n)
    BY <1>4, <2>2 DEF PartAt
  <2>4. SubSeq(t, 1, n) \in N
    BY <1>4, <2>2, <2>3
  <2> DEFINE x == SubSeq(a, 1, n)
             y == SubSeq(t, 1, n)
  <2>5. /\ x \in Name /\ Len(x) = n /\ \A i \in 1..n : x[i] = a[i]
        /\ y \in Name /\ Len(y) = n /\ \A i \in 1..n : y[i] = t[i]
    BY <1>1, <2>2, Cut
  <2>6. \A i \in 1..n : a[i] = t[i]
    BY <2>3 DEF PartAt
  <2> HIDE DEF x, y
  <2>7. x = y
    BY <2>5, <2>6, SameName
  <2> QED
    BY <2>4, <2>7 DEF x, y
<1> QED
  BY <1>2, <1>3, <1>4

(* Where the walk to a missing key stops, the nodes that go on like the    *)
(* key for another byte are those behind the edge followed.                *)
LEMMA WalkParts ==
  ASSUME NEW tr, Names(DOMAIN tr), NEW t \in Name, t \notin DOMAIN tr,
         NEW p, p = Reached(tr, t),
         NEW r \in DOMAIN tr, NEW n \in 0..(Len(t) - 1), PartAt(t, r, n)
  PROVE  SubSeq(t, 1, n) \in DOMAIN tr \/ (n > Len(p) /\ \E q \in NextChild(tr, p, t) : IsPrefix(q, r))
<1>1. /\ DOMAIN tr \subseteq Name /\ Parts(DOMAIN tr) /\ p \in DOMAIN tr
      /\ p \in Name /\ r \in Name /\ IsPrefix(p, t)
  BY ReachedIs DEF Names
<1>2. /\ Len(p) \in Nat /\ Len(t) \in Nat /\ Len(r) \in Nat /\ Len(p) <= Len(t)
      /\ \A i \in 1..Len(p) : p[i] = t[i]
      /\ n \in Nat /\ n < Len(t) /\ n < Len(r) /\ n \in 0..Len(t)
  <2>1. Len(p) \in Nat /\ Len(t) \in Nat /\ Len(r) \in Nat
    BY <1>1, LenProperties DEF Name
  <2>2. Len(p) <= Len(t) /\ \A i \in 1..Len(p) : p[i] = t[i]
    BY <1>1, PrefixBytes
  <2> QED
    BY <2>1, <2>2 DEF PartAt
<1>3. CASE n < Len(p)
  <2>1. n \in 0..(Len(p) - 1) /\ n + 1 \in 1..Len(p) /\ \A i \in 1..n : i \in 1..Len(p)
    BY <1>2, <1>3
  <2>2. PartAt(p, r, n)
    BY <1>2, <2>1 DEF PartAt
  <2>3. SubSeq(p, 1, n) \in DOMAIN tr
    BY <1>1, <2>1, <2>2 DEF Parts
  <2>4. IsPrefix(r, r)
    BY <1>1, PrefixOrder
  <2>5. SubSeq(t, 1, n) = SubSeq(p, 1, n)
    BY <1>1, <2>1, <2>2, <2>4, PartLonger
  <2> QED
    BY <2>3, <2>5
<1>4. CASE n = Len(p)
  <2>1. p = SubSeq(t, 1, Len(p))
    BY <1>1, PrefixOrder
  <2> QED
    BY <1>1, <1>4, <2>1
<1>5. CASE n > Len(p)
  <2>1. \A i \in 1..n : t[i] = r[i]
    BY DEF PartAt
  <2>2. Len(p) + 1 \in 1..n /\ \A i \in 1..Len(p) : i \in 1..n
    BY <1>2, <1>5
  <2>3. r[Len(p) + 1] = t[Len(p) + 1]
    BY <2>1, <2>2
  <2>4. IsPrefix(p, r)
    <3>1. \A i \in 1..Len(p) : p[i] = r[i]
      BY <1>2, <2>1, <2>2
    <3>2. Len(p) <= Len(r)
      BY <1>2, <1>5
    <3> QED
      BY <1>1, <3>1, <3>2, PrefixBytes
  <2>5. Above(p, r)
    BY <1>1, <1>2, <1>5, <2>4, AboveIs
  <2>6. \E q \in NextChild(tr, p, t) : IsPrefix(q, r)
    BY <2>3, <2>5, NextChildIs
  <2> QED
    BY <1>5, <2>6
<1> QED
  BY <1>2, <1>3, <1>4, <1>5

(* An edge that a key leaves is opened strictly inside, where it does.     *)
LEMMA HitOpens ==
  ASSUME NEW tr, Names(DOMAIN tr), NEW t \in Name, t \notin DOMAIN tr,
         NEW p, p = Reached(tr, t), NEW q \in NextChild(tr, p, t),
         NEW m, m = LongestCommonPrefix({q, t})
  PROVE  /\ q \in DOMAIN tr /\ q \in Name /\ m \in Name /\ m \notin DOMAIN tr
         /\ IsPrefix(m, t) /\ IsPrefix(m, q) /\ Len(m) < Len(q)
         /\ m # t => Above(m, t) /\ Above(m, q) /\ q[Len(m) + 1] # t[Len(m) + 1]
<1>1. /\ p \in Name /\ IsPrefix(p, t) /\ p # t
      /\ \A x \in DOMAIN tr : IsPrefix(x, t) => Len(x) <= Len(p)
  BY ReachedIs
<1>2. /\ q \in DOMAIN tr /\ q \in Name /\ Above(p, q) /\ ~IsPrefix(q, t)
      /\ q[Len(p) + 1] = t[Len(p) + 1]
  BY NextChildIs
<1>3. /\ m \in Name /\ IsPrefix(m, q) /\ IsPrefix(m, t)
      /\ Len(m) < Len(q) /\ Len(m) < Len(t) => q[Len(m) + 1] # t[Len(m) + 1]
  BY <1>2, CommonIs
<1>4. /\ Len(p) \in Nat /\ Len(q) \in Nat /\ Len(m) \in Nat /\ Len(t) \in Nat
      /\ Len(p) < Len(q) /\ Len(p) < Len(t) /\ Len(m) <= Len(q) /\ Len(m) <= Len(t)
  <2>1. Above(p, t)
    BY <1>1 DEF Above, IsStrictPrefix
  <2>2. Len(p) < Len(t) /\ Len(p) < Len(q) /\ Len(p) \in Nat /\ Len(q) \in Nat /\ Len(t) \in Nat
    BY <1>1, <1>2, <2>1, AboveIs
  <2>3. Len(m) <= Len(q) /\ Len(m) <= Len(t)
    BY <1>2, <1>3, PrefixBytes
  <2>4. Len(m) \in Nat
    BY <1>3, LenProperties DEF Name
  <2> QED
    BY <2>2, <2>3, <2>4
<1>5. Len(m) # Len(q)
  <2>1. Len(m) = Len(q) => m = q
    BY <1>2, <1>3, PrefixOrder
  <2> QED
    BY <1>2, <1>3, <2>1
<1>6. Len(m) < Len(q)
  BY <1>4, <1>5
<1>7. \A i \in 1..(Len(p) + 1) : q[i] = t[i]
  <2>1. IsPrefix(p, q)
    BY <1>1, <1>2, AboveIs
  <2>2. \A i \in 1..Len(p) : p[i] = q[i] /\ p[i] = t[i]
    BY <1>1, <1>2, <2>1, PrefixBytes
  <2>3. \A i \in 1..(Len(p) + 1) : i \in 1..Len(p) \/ i = Len(p) + 1
    BY <1>4
  <2> QED
    BY <1>2, <2>2, <2>3
<1>8. Len(p) < Len(m)
  <2> SUFFICES ASSUME Len(m) <= Len(p) PROVE FALSE
    BY <1>4
  <2>1. Len(m) < Len(t) /\ Len(m) + 1 \in 1..(Len(p) + 1)
    BY <1>4
  <2> QED
    BY <1>3, <1>6, <1>7, <2>1
<1>9. m \notin DOMAIN tr
  <2> SUFFICES ASSUME m \in DOMAIN tr PROVE FALSE
    OBVIOUS
  <2>1. Len(m) <= Len(p)
    BY <1>1, <1>3
  <2> QED
    BY <1>4, <1>8, <2>1
<1>10. Above(m, q)
  BY <1>2, <1>3, <1>6, AboveIs
<1>11. m # t => Above(m, t) /\ q[Len(m) + 1] # t[Len(m) + 1]
  <2> SUFFICES ASSUME m # t PROVE Above(m, t) /\ q[Len(m) + 1] # t[Len(m) + 1]
    OBVIOUS
  <2>1. Above(m, t)
    BY <1>3 DEF Above, IsStrictPrefix
  <2>2. Len(m) < Len(t)
    BY <1>3, <2>1, AboveIs
  <2> QED
    BY <1>3, <1>6, <2>1, <2>2
<1> QED
  BY <1>2, <1>3, <1>6, <1>9, <1>10, <1>11

(* What the split leaves for a key: the nodes there were, perhaps a new    *)
(* one without a term that the key ends at or parts at, and a place for    *)
(* the key.                                                                *)
SplitFor(s, tr, t) ==
  /\ s \in [DOMAIN s -> Node]
  /\ DOMAIN tr \subseteq DOMAIN s /\ \A r \in DOMAIN tr : s[r] = tr[r]
  /\ \A m \in DOMAIN s \ DOMAIN tr :
       /\ ~s[m].terminal /\ s[m].frequency = 0
       /\ IsPrefix(m, t) /\ (m # t => Branching(DOMAIN s \cup {t}, m))
  /\ Names(DOMAIN s \cup {t})

(* With no edge to open the key joins the nodes.                           *)
LEMMA SplitNothing ==
  ASSUME NEW tr, Names(DOMAIN tr), tr \in [DOMAIN tr -> Node], NEW t \in Name,
         t \in DOMAIN tr \/ NextChild(tr, Reached(tr, t), t) = {}
  PROVE  SplitFor(tr, tr, t)
<1>1. DOMAIN tr \subseteq Name /\ Root \in DOMAIN tr /\ Parts(DOMAIN tr) /\ IsFiniteSet(DOMAIN tr)
  BY DEF Names
<1>2. Parts(DOMAIN tr \cup {t})
  <2>1. CASE t \in DOMAIN tr
    <3>1. DOMAIN tr \cup {t} = DOMAIN tr
      BY <2>1
    <3> QED
      BY <1>1, <3>1
  <2>2. CASE t \notin DOMAIN tr
    <3> DEFINE p == Reached(tr, t)
    <3>1. NextChild(tr, p, t) = {}
      BY <2>2
    <3> HIDE DEF p
    <3>2. \A r \in DOMAIN tr : \A n \in 0..(Len(t) - 1) :
            PartAt(t, r, n) => SubSeq(t, 1, n) \in DOMAIN tr
      BY <2>2, <3>1, WalkParts DEF p
    <3> QED
      BY <1>1, <3>2, PartsWith
  <2> QED
    BY <2>1, <2>2
<1>3. IsFiniteSet(DOMAIN tr \cup {t})
  BY <1>1, FS_AddElement
<1> QED
  BY <1>1, <1>2, <1>3 DEF SplitFor, Names

(* Opening an edge makes the one node the key needs.                       *)
LEMMA SplitEdge ==
  ASSUME NEW tr, Names(DOMAIN tr), tr \in [DOMAIN tr -> Node],
         NEW t \in Name, t \notin DOMAIN tr,
         NEW p, p = Reached(tr, t), NEW q \in NextChild(tr, p, t),
         NEW m, m = LongestCommonPrefix({q, t}),
         NEW s, s = AddNode(tr, m, [EmptyNode EXCEPT !.max = tr[q].max])
  PROVE  SplitFor(s, tr, t)
<1>1. DOMAIN tr \subseteq Name /\ Root \in DOMAIN tr /\ Parts(DOMAIN tr) /\ IsFiniteSet(DOMAIN tr)
  BY DEF Names
<1>2. /\ q \in DOMAIN tr /\ q \in Name /\ m \in Name /\ m \notin DOMAIN tr
      /\ IsPrefix(m, t) /\ IsPrefix(m, q) /\ Len(m) < Len(q)
      /\ m # t => Above(m, t) /\ Above(m, q) /\ q[Len(m) + 1] # t[Len(m) + 1]
  BY HitOpens
<1> DEFINE node == [EmptyNode EXCEPT !.max = tr[q].max]
<1>3. node \in Node /\ ~node.terminal /\ node.frequency = 0
  <2>1. tr[q] \in Node
    BY <1>2
  <2>2. tr[q].max \in 0..MaxFreq /\ 0 \in 0..MaxFreq
    BY <2>1, TrieAssumption DEF Node
  <2> QED
    BY <2>2 DEF Node, EmptyNode
<1> HIDE DEF node
<1>4. /\ DOMAIN s = DOMAIN tr \cup {m} /\ s[m] = node
      /\ \A r \in DOMAIN tr : s[r] = tr[r]
      /\ s \in [DOMAIN s -> Node]
  <2>1. s = [r \in DOMAIN tr \cup {m} |-> IF r = m THEN node ELSE tr[r]]
    BY DEF AddNode, node
  <2>2. s \in [DOMAIN s -> Node]
    BY <1>3, <2>1
  <2> QED
    BY <1>2, <2>1, <2>2
<1>5. Parts(DOMAIN s)
  <2>1. \A x \in {m} : \E y \in DOMAIN tr : IsPrefix(x, y)
    BY <1>2
  <2>2. {m} \subseteq Name
    BY <1>2
  <2>3. Parts(DOMAIN tr \cup {m})
    BY <1>1, <2>1, <2>2, BeginningsPart
  <2> QED
    BY <1>4, <2>3
<1>6. ASSUME NEW r \in DOMAIN tr, NEW n \in 0..(Len(t) - 1), PartAt(t, r, n)
      PROVE  SubSeq(t, 1, n) \in DOMAIN s
  <2>1. CASE SubSeq(t, 1, n) \in DOMAIN tr
    BY <1>4, <2>1
  <2>2. CASE \E c \in NextChild(tr, p, t) : IsPrefix(c, r)
    <3>1. IsPrefix(q, r) /\ r \in Name
      BY <1>1, <2>2, NextChildIs
    <3>2. /\ Len(m) \in Nat /\ Len(t) \in Nat /\ Len(q) \in Nat /\ Len(r) \in Nat
          /\ Len(m) <= Len(t) /\ Len(q) <= Len(r) /\ n \in Nat /\ n < Len(t)
          /\ \A i \in 1..Len(m) : m[i] = t[i]
          /\ \A i \in 1..Len(m) : m[i] = q[i]
          /\ \A i \in 1..Len(q) : q[i] = r[i]
      <4>1. Len(m) \in Nat /\ Len(t) \in Nat /\ Len(q) \in Nat /\ Len(r) \in Nat
        BY <1>2, <3>1, LenProperties DEF Name
      <4>2. Len(m) <= Len(t) /\ \A i \in 1..Len(m) : m[i] = t[i]
        BY <1>2, PrefixBytes
      <4>3. \A i \in 1..Len(m) : m[i] = q[i]
        BY <1>2, PrefixBytes
      <4>4. Len(q) <= Len(r) /\ \A i \in 1..Len(q) : q[i] = r[i]
        BY <1>2, <3>1, PrefixBytes
      <4>5. n \in Nat /\ n < Len(t)
        BY <4>1
      <4> QED
        BY <4>1, <4>2, <4>3, <4>4, <4>5
    <3>3. \A i \in 1..(Len(m) + 1) : i \in 1..Len(q)
      BY <1>2, <3>2
    <3>4. \A i \in 1..Len(m) : t[i] = r[i]
      <4>1. \A i \in 1..Len(m) : i \in 1..Len(q)
        BY <1>2, <3>2
      <4> QED
        BY <3>2, <4>1
    <3>5. Len(m) <= n
      BY <1>6, <3>2, <3>4, PartOnce
    <3>6. m # t
      BY <3>2, <3>5
    <3>7. n <= Len(m)
      <4> SUFFICES ASSUME Len(m) < n PROVE FALSE
        BY <3>2
      <4>1. Len(m) + 1 \in 1..n /\ Len(m) + 1 \in 1..(Len(m) + 1)
        BY <3>2
      <4>2. t[Len(m) + 1] = r[Len(m) + 1]
        BY <1>6, <4>1 DEF PartAt
      <4>3. q[Len(m) + 1] = r[Len(m) + 1]
        BY <3>2, <3>3, <4>1
      <4> QED
        BY <1>2, <3>6, <4>2, <4>3
    <3>8. n = Len(m)
      BY <3>2, <3>5, <3>7
    <3>9. m = SubSeq(t, 1, Len(m))
      BY <1>2, PrefixOrder
    <3> QED
      BY <1>4, <3>8, <3>9
  <2> QED
    BY <1>6, <2>1, <2>2, WalkParts
<1>7. ASSUME NEW n \in 0..(Len(t) - 1) PROVE ~PartAt(t, m, n)
  <2> SUFFICES ASSUME PartAt(t, m, n) PROVE FALSE
    OBVIOUS
  <2>1. Len(m) \in Nat /\ \A i \in 1..Len(m) : m[i] = t[i]
    BY <1>2, PrefixBytes, LenProperties DEF Name
  <2>2. n + 1 \in 1..Len(m)
    BY <2>1 DEF PartAt
  <2> QED
    BY <2>1, <2>2 DEF PartAt
<1>8. DOMAIN s \subseteq Name
  BY <1>1, <1>2, <1>4
<1>9. Parts(DOMAIN s \cup {t})
  <2>1. \A r \in DOMAIN s : \A n \in 0..(Len(t) - 1) :
          PartAt(t, r, n) => SubSeq(t, 1, n) \in DOMAIN s
    BY <1>4, <1>6, <1>7
  <2> QED
    BY <1>5, <1>8, <2>1, PartsWith
<1>10. Names(DOMAIN s \cup {t})
  <2>1. IsFiniteSet(DOMAIN s)
    BY <1>1, <1>4, FS_AddElement
  <2>2. IsFiniteSet(DOMAIN s \cup {t})
    BY <2>1, FS_AddElement
  <2> QED
    BY <1>1, <1>4, <1>8, <1>9, <2>2 DEF Names
<1>11. m # t => Branching(DOMAIN s \cup {t}, m)
  BY <1>2, <1>4 DEF Branching
<1>12. DOMAIN s \ DOMAIN tr \subseteq {m}
  BY <1>4
<1> QED
  BY <1>2, <1>3, <1>4, <1>10, <1>11, <1>12 DEF SplitFor

(* The split of insert_at and set_at prepares the nodes for the key.       *)
LEMMA SplitIs ==
  ASSUME NEW tr, Names(DOMAIN tr), tr \in [DOMAIN tr -> Node],
         NEW t \in Name, NEW s, s = Split(tr, t)
  PROVE  SplitFor(s, tr, t)
<1> DEFINE p == Reached(tr, t)
           hit == NextChild(tr, p, t)
<1>1. t \in DOMAIN tr <=> p = t
  BY ReachedIs
<1>2. CASE t \in DOMAIN tr \/ hit = {}
  <2>1. s = tr
    BY <1>1, <1>2 DEF Split
  <2> QED
    BY <1>2, <2>1, SplitNothing
<1>3. CASE t \notin DOMAIN tr /\ hit # {}
  <2> DEFINE q == CHOOSE c \in hit : TRUE
             m == LongestCommonPrefix({q, t})
  <2>1. s = AddNode(tr, m, [EmptyNode EXCEPT !.max = tr[q].max])
    BY <1>1, <1>3 DEF Split
  <2>2. q \in hit
    BY <1>3
  <2> HIDE DEF p, q, m
  <2>3. q \in NextChild(tr, p, t)
    BY <2>2
  <2> HIDE DEF hit
  <2> QED
    BY <1>3, <2>1, <2>3, SplitEdge DEF p, m
<1> QED
  BY <1>2, <1>3

(* Marking the node of a key, or attaching it.                             *)
Marked(s, t, f) ==
  AddNode(s, t, [(IF t \in DOMAIN s THEN s[t] ELSE EmptyNode)
                   EXCEPT !.terminal = TRUE, !.frequency = f])

MarkedIn(m, s, t, f) ==
  /\ DOMAIN m = DOMAIN s \cup {t} /\ m \in [DOMAIN m -> Node]
  /\ m[t].terminal = TRUE /\ m[t].frequency = f
  /\ \A r \in DOMAIN s : r # t => m[r] = s[r]

(* The node is a term of that frequency, and the others are as before.     *)
LEMMA MarkedNode ==
  ASSUME NEW s, s \in [DOMAIN s -> Node], NEW t, NEW f \in 0..MaxFreq,
         NEW m, m = Marked(s, t, f)
  PROVE  MarkedIn(m, s, t, f)
<1> DEFINE old == IF t \in DOMAIN s THEN s[t] ELSE EmptyNode
           node == [old EXCEPT !.terminal = TRUE, !.frequency = f]
<1>1. old \in Node
  <2>1. EmptyNode \in Node
    BY TrieAssumption DEF EmptyNode, Node
  <2> QED
    BY <2>1
<1> HIDE DEF old
<1>2. node \in Node /\ node.terminal = TRUE /\ node.frequency = f
  BY <1>1 DEF Node
<1>3. m = [q \in DOMAIN s \cup {t} |-> IF q = t THEN node ELSE s[q]]
  BY DEF Marked, AddNode, old
<1> HIDE DEF node
<1>4. /\ DOMAIN m = DOMAIN s \cup {t} /\ m[t] = node
      /\ \A r \in DOMAIN s : r # t => m[r] = s[r]
  BY <1>3
<1>5. m \in [DOMAIN m -> Node]
  BY <1>2, <1>3
<1> QED
  BY <1>2, <1>4, <1>5 DEF MarkedIn

(* Maxima are those of the children's and of their own frequency; every    *)
(* node but the root is there for a term, and is one or a branch.          *)
Placed(tr, p) ==
  /\ tr[p].terminal => p \in Terms
  /\ p # Root => /\ \E t \in Terms : IsPrefix(p, t)
                 /\ tr[p].terminal \/ Branching(DOMAIN tr, p)

Trie(tr) == Tree(tr) /\ \A p \in DOMAIN tr : Exact(tr, p) /\ Placed(tr, p)

Writes(u, tr, t, f) ==
  /\ Held(u) = Held(tr) \cup {t} /\ u[t].frequency = f
  /\ \A q \in Held(tr) : q # t => u[q].frequency = tr[q].frequency

(* With a term marked, all that is left to do is to recompute maxima.      *)
LEMMA MarkedRises ==
  ASSUME NEW tr, Trie(tr), NEW t \in Terms, NEW f \in 0..MaxFreq,
         NEW s, SplitFor(s, tr, t), NEW m, m = Marked(s, t, f)
  PROVE  /\ Rising(m, t, Len(t) + 1) /\ Writes(m, tr, t, f)
         /\ \A p \in DOMAIN m : Placed(m, p)
<1>1. /\ t \in Name /\ Names(DOMAIN tr) /\ tr \in [DOMAIN tr -> Node]
      /\ \A p \in DOMAIN tr : ~tr[p].terminal => tr[p].frequency = 0
  BY TrieAssumption DEF Trie, Tree, Name
<1>2. /\ DOMAIN tr \subseteq DOMAIN s /\ \A r \in DOMAIN tr : s[r] = tr[r]
      /\ \A x \in DOMAIN s \ DOMAIN tr :
           /\ ~s[x].terminal /\ s[x].frequency = 0
           /\ IsPrefix(x, t) /\ (x # t => Branching(DOMAIN s \cup {t}, x))
      /\ Names(DOMAIN s \cup {t})
  BY DEF SplitFor
<1>3. DOMAIN m = DOMAIN s \cup {t} /\ m \in [DOMAIN m -> Node]
      /\ m[t].terminal = TRUE /\ m[t].frequency = f
      /\ \A r \in DOMAIN s : r # t => m[r] = s[r]
  <2>1. s \in [DOMAIN s -> Node]
    BY DEF SplitFor
  <2>2. MarkedIn(m, s, t, f)
    BY <2>1, MarkedNode
  <2> QED
    BY <2>2 DEF MarkedIn
<1>4. \A r \in DOMAIN tr : r # t => r \in DOMAIN m /\ m[r] = tr[r]
  BY <1>2, <1>3
<1>5. \A r \in DOMAIN m : r \in DOMAIN tr \/ r = t \/
        (r \in DOMAIN s \ DOMAIN tr /\ ~m[r].terminal /\ m[r].frequency = 0)
  BY <1>2, <1>3
<1>6. Tree(m)
  BY <1>1, <1>2, <1>3, <1>4, <1>5 DEF Tree
<1>7. Held(m) = Held(tr) \cup {t}
  <2>1. t \in Held(m)
    BY <1>3 DEF Held
  <2>2. Held(tr) \subseteq Held(m)
    BY <1>4, <2>1 DEF Held
  <2>3. Held(m) \subseteq Held(tr) \cup {t}
    BY <1>4, <1>5 DEF Held
  <2> QED
    BY <2>1, <2>2, <2>3
<1>8. Writes(m, tr, t, f)
  BY <1>3, <1>4, <1>7 DEF Writes, Held
<1>9. ASSUME NEW p \in DOMAIN m PROVE Placed(m, p)
  <2>1. IsPrefix(t, t)
    BY <1>1, PrefixOrder
  <2>2. CASE p = t
    BY <1>3, <2>1, <2>2 DEF Placed
  <2>3. CASE p \in DOMAIN tr /\ p # t
    <3>1. Placed(tr, p) /\ m[p] = tr[p] /\ DOMAIN tr \subseteq DOMAIN m
      BY <1>2, <1>3, <1>4, <2>3 DEF Trie
    <3>2. Branching(DOMAIN tr, p) => Branching(DOMAIN m, p)
      BY <3>1 DEF Branching
    <3> QED
      BY <3>1, <3>2 DEF Placed
  <2>4. CASE p \in DOMAIN s \ DOMAIN tr /\ p # t
    <3>1. IsPrefix(p, t) /\ Branching(DOMAIN m, p) /\ ~m[p].terminal
      BY <1>2, <1>3, <1>5, <2>4
    <3> QED
      BY <3>1 DEF Placed
  <2> QED
    BY <1>5, <2>2, <2>3, <2>4
<1>10. ASSUME NEW r \in DOMAIN m
       PROVE  (IsPrefix(r, t) /\ Len(r) < Len(t) + 1) \/ Exact(m, r)
  <2>1. r \in Name /\ Len(r) \in Nat /\ Len(t) \in Nat
    BY <1>1, <1>2, <1>3, LenProperties DEF Names, Name
  <2>2. CASE IsPrefix(r, t)
    <3>1. Len(r) <= Len(t)
      BY <1>1, <2>1, <2>2, PrefixOrder
    <3> QED
      BY <2>1, <2>2, <3>1
  <2>3. CASE ~IsPrefix(r, t)
    <3>1. IsPrefix(t, t)
      BY <1>1, PrefixOrder
    <3>2. r \in DOMAIN tr /\ m[r] = tr[r]
      BY <1>2, <1>4, <1>5, <2>3, <3>1
    <3>3. Heights(m, r) = Heights(tr, r)
      <4>1. {x \in Held(m) : IsPrefix(r, x)} = {x \in Held(tr) : IsPrefix(r, x)}
        BY <1>7, <2>3
      <4>2. \A x \in Held(tr) : IsPrefix(r, x) => m[x].frequency = tr[x].frequency
        BY <1>8, <2>3 DEF Writes
      <4> QED
        BY <4>1, <4>2 DEF Heights
    <3> QED
      BY <3>2, <3>3 DEF Trie, Exact
  <2> QED
    BY <2>2, <2>3
<1> QED
  BY <1>6, <1>8, <1>9, <1>10 DEF Rising

(* A node's place depends on the nodes there are and which hold a term.    *)
LEMMA SamePlaces ==
  ASSUME NEW u, NEW v, DOMAIN u = DOMAIN v, Held(u) = Held(v),
         u \in [DOMAIN u -> Node], v \in [DOMAIN v -> Node],
         NEW p \in DOMAIN u, Placed(v, p)
  PROVE  Placed(u, p)
<1>1. u[p].terminal <=> v[p].terminal
  BY DEF Held, Node
<1> QED
  BY <1>1 DEF Placed

(* insert and set leave a trie in which the term has the new frequency.    *)
LEMMA PutKeeps ==
  ASSUME NEW tr, Trie(tr), NEW t \in Terms, NEW f \in 0..MaxFreq,
         NEW u, u = Put(Split(tr, t), t, f)
  PROVE  Trie(u) /\ Writes(u, tr, t, f)
<1> DEFINE s == Split(tr, t)
           m == Marked(s, t, f)
<1>1. t \in Name /\ Names(DOMAIN tr) /\ tr \in [DOMAIN tr -> Node]
  BY TrieAssumption DEF Trie, Tree, Name
<1>2. u = FoldLeft(RecomputeMax, m, WayUp(t))
  BY DEF Put, Marked
<1> HIDE DEF m, s
<1>3. SplitFor(s, tr, t)
  BY <1>1, SplitIs DEF s
<1>4. /\ Rising(m, t, Len(t) + 1) /\ Writes(m, tr, t, f)
      /\ \A p \in DOMAIN m : Placed(m, p)
  BY <1>3, MarkedRises DEF m
<1>5. /\ Tree(u) /\ DOMAIN u = DOMAIN m /\ SameTerms(u, m)
      /\ \A r \in DOMAIN u : Exact(u, r)
  BY <1>1, <1>2, <1>4, PutRises
<1>6. u \in [DOMAIN u -> Node] /\ m \in [DOMAIN m -> Node] /\ Held(u) = Held(m)
  BY <1>4, <1>5 DEF Tree, Rising, SameTerms
<1>7. \A p \in DOMAIN u : Placed(u, p)
  BY <1>4, <1>5, <1>6, SamePlaces
<1>8. Writes(u, tr, t, f)
  <2>1. t \in Held(m) /\ \A q \in Held(tr) : q \in Held(m)
    BY <1>4 DEF Writes
  <2> QED
    BY <1>4, <1>5, <2>1 DEF Writes, SameTerms
<1> QED
  BY <1>5, <1>7, <1>8 DEF Trie

(* An insert adds to the frequency of the term, to 0 if it is not stored.  *)
LEMMA BeforeIs ==
  ASSUME NEW tr, Trie(tr), NEW t \in Terms
  PROVE  /\ Before(Split(tr, t), t) \in 0..MaxFreq
         /\ Before(Split(tr, t), t) = IF t \in Held(tr) THEN tr[t].frequency ELSE 0
<1> DEFINE s == Split(tr, t)
<1>1. /\ t \in Name /\ Names(DOMAIN tr) /\ tr \in [DOMAIN tr -> Node]
      /\ \A p \in DOMAIN tr : ~tr[p].terminal => tr[p].frequency = 0
  BY TrieAssumption DEF Trie, Tree, Name
<1> HIDE DEF s
<1>2. SplitFor(s, tr, t)
  BY <1>1, SplitIs DEF s
<1>3. /\ DOMAIN tr \subseteq DOMAIN s /\ \A r \in DOMAIN tr : s[r] = tr[r]
      /\ \A x \in DOMAIN s \ DOMAIN tr : s[x].frequency = 0
  BY <1>2 DEF SplitFor
<1>4. Before(s, t) = IF t \in Held(tr) THEN tr[t].frequency ELSE 0
  BY <1>1, <1>3 DEF Before, Held
<1>5. Before(s, t) \in 0..MaxFreq
  <2>1. \A p \in DOMAIN tr : tr[p].frequency \in 0..MaxFreq
    BY <1>1 DEF Node
  <2> QED
    BY <1>4, <2>1, TrieAssumption DEF Held
<1> QED
  BY <1>4, <1>5 DEF s

----------------------------------------------------------------------------
(* Removing a term.                                                        *)

(* On the way up of a removal the node just passed may also have been left *)
(* with one child or none: those still to be compacted.                    *)
Unwinding(tr, t, n) ==
  /\ Rising(tr, t, n)
  /\ \A p \in DOMAIN tr : (IsPrefix(p, t) /\ Len(p) < n) \/ Placed(tr, p)
  /\ \A p \in DOMAIN tr : p # Root => \E x \in Terms : IsPrefix(p, x)
  /\ Held(tr) \subseteq Terms

(* A node that does not branch may be left out: no two names part there.   *)
LEMMA NamesWithout ==
  ASSUME NEW N, Names(N), NEW p \in N, p # Root, ~Branching(N, p)
  PROVE  Names(N \ {p})
<1>1. N \subseteq Name /\ Root \in N /\ IsFiniteSet(N) /\ Parts(N) /\ p \in Name
  BY DEF Names
<1>2. ASSUME NEW a \in N, NEW b \in N, NEW n \in 0..(Len(a) - 1), PartAt(a, b, n)
      PROVE  SubSeq(a, 1, n) # p
  <2> SUFFICES ASSUME SubSeq(a, 1, n) = p PROVE FALSE
    OBVIOUS
  <2>1. a \in Name /\ b \in Name /\ Len(a) \in Nat /\ Len(b) \in Nat
    BY <1>1, LenProperties DEF Name
  <2>2. n \in 0..Len(a) /\ n < Len(a) /\ n < Len(b) /\ n \in Nat
    BY <1>2, <2>1 DEF PartAt
  <2>3. Len(p) = n /\ IsPrefix(p, a) /\ \A i \in 1..n : p[i] = a[i]
    BY <2>1, <2>2, Cut
  <2>4. \A i \in 1..Len(p) : p[i] = b[i]
    BY <1>2, <2>3 DEF PartAt
  <2>5. IsPrefix(p, b)
    <3>1. Len(p) <= Len(b)
      BY <2>1, <2>2, <2>3
    <3> QED
      BY <1>1, <2>1, <2>4, <3>1, PrefixBytes
  <2>6. Above(p, a) /\ Above(p, b)
    BY <1>1, <2>1, <2>2, <2>3, <2>5, AboveIs
  <2>7. a[Len(p) + 1] # b[Len(p) + 1]
    BY <1>2, <2>3 DEF PartAt
  <2> QED
    BY <2>6, <2>7 DEF Branching
<1>3. Parts(N \ {p})
  BY <1>1, <1>2 DEF Parts
<1>4. IsFiniteSet(N \ {p})
  BY <1>1, FS_RemoveElement
<1> QED
  BY <1>1, <1>3, <1>4 DEF Names

(* What compacting does: nothing, or leave out a node.                     *)
LEMMA CompactIs ==
  ASSUME NEW v, Tree(v), NEW p \in Name, NEW u, u = Compact(v, p)
  PROVE  \/ /\ u = v
            /\ p \in DOMAIN v => p = Root \/ v[p].terminal \/ Branching(DOMAIN v, p)
         \/ /\ p \in DOMAIN v /\ p # Root /\ ~v[p].terminal /\ ~Branching(DOMAIN v, p)
            /\ u = Drop(v, p)
<1>1. /\ Cardinality(Children(v, p)) \in Nat
      /\ Branching(DOMAIN v, p) <=> Cardinality(Children(v, p)) >= 2
  BY ChildrenAre, BranchingIs DEF Tree
<1>2. Cardinality(Children(v, p)) <= 1 <=> ~Branching(DOMAIN v, p)
  BY <1>1
<1> QED
  BY <1>2 DEF Compact

Undisturbed(u, v) ==
  \A r \in DOMAIN u : u[r] = v[r] /\ (Exact(u, r) <=> Exact(v, r))

(* Leaving out a node that does not branch changes no term and no maximum. *)
LEMMA DropKeeps ==
  ASSUME NEW v, Tree(v), NEW p \in DOMAIN v, p # Root, ~v[p].terminal,
         ~Branching(DOMAIN v, p), NEW u, u = Drop(v, p)
  PROVE  /\ DOMAIN u = DOMAIN v \ {p} /\ Tree(u) /\ SameTerms(u, v)
         /\ Undisturbed(u, v)
<1>1. Names(DOMAIN v) /\ v \in [DOMAIN v -> Node]
  BY DEF Tree
<1>2. DOMAIN u = DOMAIN v \ {p} /\ \A r \in DOMAIN u : u[r] = v[r]
  BY DEF Drop
<1>3. Names(DOMAIN u)
  BY <1>1, <1>2, NamesWithout
<1>4. Tree(u)
  <2>1. u = [q \in DOMAIN v \ {p} |-> v[q]]
    BY DEF Drop
  <2>2. u \in [DOMAIN u -> Node]
    BY <1>1, <1>2, <2>1
  <2>3. \A q \in DOMAIN u : ~u[q].terminal => u[q].frequency = 0
    BY <1>2 DEF Tree
  <2> QED
    BY <1>3, <2>2, <2>3 DEF Tree
<1>5. SameTerms(u, v)
  BY <1>2 DEF SameTerms, Held
<1>6. \A r : Heights(u, r) = Heights(v, r)
  BY <1>5, SameHeights
<1> QED
  BY <1>2, <1>4, <1>5, <1>6 DEF Exact, Undisturbed

(* One node of the way up: recomputed, and compacted if it may be.         *)
LEMMA UnwindStep ==
  ASSUME NEW tr, NEW t \in Name, NEW n \in 1..(Len(t) + 1), Unwinding(tr, t, n),
         NEW p, p = SubSeq(t, 1, n - 1), NEW u, u = Unwind(tr, p)
  PROVE  /\ Unwinding(u, t, n - 1) /\ DOMAIN u \subseteq DOMAIN tr
         /\ SameTerms(u, tr)
<1> DEFINE v == RecomputeMax(tr, p)
<1>1. u = Compact(v, p)
  BY DEF Unwind
<1> HIDE DEF v
<1>2. /\ Rising(v, t, n - 1) /\ DOMAIN v = DOMAIN tr /\ SameTerms(v, tr)
      /\ v \in [DOMAIN v -> Node]
  <2>1. Rising(tr, t, n) /\ v = RecomputeMax(tr, p) /\ p = SubSeq(t, 1, n - 1)
    BY DEF Unwinding, v
  <2>2. Rising(v, t, n - 1)
    BY <2>1, RisingStep, Zenon
  <2>3. SameTerms(v, tr)
    BY <2>1, RisingStep, Zenon
  <2>4. v \in [DOMAIN tr -> Node]
    BY <2>1, RisingStep, Zenon
  <2>5. DOMAIN v = DOMAIN tr
    BY <2>4
  <2> QED
    BY <2>2, <2>3, <2>4, <2>5
<1>3. Tree(tr) /\ Tree(v) /\ DOMAIN tr \subseteq Name /\ Held(v) = Held(tr)
  BY <1>2 DEF Unwinding, Rising, Tree, Names, SameTerms
<1>4. p \in Name /\ Len(p) = n - 1 /\ IsPrefix(p, t)
  <2>1. Len(t) \in Nat
    BY LenProperties DEF Name
  <2>2. n - 1 \in 0..Len(t)
    BY <2>1
  <2> QED
    BY <2>2, Cut
<1>5. ASSUME NEW r \in DOMAIN tr, r # p
      PROVE  (IsPrefix(r, t) /\ Len(r) < n - 1) \/ Placed(v, r)
  <2>1. r \in Name /\ Len(r) \in Nat
    BY <1>3, LenProperties DEF Name
  <2>2. IsPrefix(r, t) => Len(r) # n - 1
    <3>1. IsPrefix(r, t) => r = SubSeq(t, 1, Len(r))
      BY <2>1, PrefixOrder
    <3> QED
      BY <1>5, <3>1
  <2>3. IsPrefix(r, t) /\ Len(r) < n => Len(r) < n - 1
    BY <2>1, <2>2
  <2>4. Placed(tr, r) => Placed(v, r)
    BY <1>2, <1>3, SamePlaces DEF Tree
  <2> QED
    BY <2>3, <2>4 DEF Unwinding
<1>6. /\ \A x \in DOMAIN v : x # Root => \E y \in Terms : IsPrefix(x, y)
      /\ Held(v) \subseteq Terms
  BY <1>2, <1>3 DEF Unwinding
<1>7. CASE /\ u = v
           /\ p \in DOMAIN v => p = Root \/ v[p].terminal \/ Branching(DOMAIN v, p)
  <2>1. p \in DOMAIN v => Placed(v, p)
    BY <1>6, <1>7 DEF Placed, Held
  <2> QED
    BY <1>2, <1>5, <1>6, <1>7, <2>1 DEF Unwinding
<1>8. CASE /\ p \in DOMAIN v /\ p # Root /\ ~v[p].terminal /\ ~Branching(DOMAIN v, p)
           /\ u = Drop(v, p)
  <2>1. /\ DOMAIN u = DOMAIN v \ {p} /\ Tree(u) /\ SameTerms(u, v)
        /\ Undisturbed(u, v)
    BY <1>3, <1>8, DropKeeps
  <2>2. Rising(u, t, n - 1)
    BY <1>2, <2>1 DEF Rising, Undisturbed
  <2>3. ASSUME NEW r \in DOMAIN u
        PROVE  (IsPrefix(r, t) /\ Len(r) < n - 1) \/ Placed(u, r)
    <3> SUFFICES ASSUME ~ (IsPrefix(r, t) /\ Len(r) < n - 1) PROVE Placed(u, r)
      OBVIOUS
    <3>1. r \in Name /\ r \in DOMAIN tr /\ r # p /\ Placed(v, r) /\ u[r] = v[r]
      BY <1>2, <1>3, <1>5, <2>1 DEF Undisturbed
    <3>2. ~Above(r, p)
      <4> SUFFICES ASSUME Above(r, p) PROVE FALSE
        OBVIOUS
      <4>1. IsPrefix(r, p) /\ Len(r) < n - 1
        BY <1>4, <3>1, AboveIs
      <4>2. IsPrefix(r, t)
        BY <1>4, <3>1, <4>1, PrefixOrder
      <4> QED
        BY <4>1, <4>2
    <3>3. Branching(DOMAIN v, r) => Branching(DOMAIN u, r)
      BY <2>1, <3>2 DEF Branching
    <3> QED
      BY <3>1, <3>3 DEF Placed
  <2>4. SameTerms(u, tr) /\ Held(u) = Held(v)
    BY <1>2, <2>1 DEF SameTerms
  <2> QED
    BY <1>2, <1>6, <2>1, <2>2, <2>3, <2>4 DEF Unwinding
<1>9. \/ /\ u = v
         /\ p \in DOMAIN v => p = Root \/ v[p].terminal \/ Branching(DOMAIN v, p)
      \/ /\ p \in DOMAIN v /\ p # Root /\ ~v[p].terminal /\ ~Branching(DOMAIN v, p)
         /\ u = Drop(v, p)
  BY <1>1, <1>3, <1>4, CompactIs
<1> QED
  BY <1>7, <1>8, <1>9

(* Clearing the node of a term.                                            *)
Cleared(tr, t) == AddNode(tr, t, [tr[t] EXCEPT !.terminal = FALSE, !.frequency = 0])

(* u has the terms of tr but for one.                                      *)
Without(u, tr, t) ==
  /\ Held(u) = Held(tr) \ {t}
  /\ \A q \in Held(u) : u[q].frequency = tr[q].frequency

ClearedIn(c, tr, t) ==
  /\ c \in [DOMAIN tr -> Node]
  /\ c[t].terminal = FALSE /\ c[t].frequency = 0
  /\ \A r \in DOMAIN tr \ {t} : c[r] = tr[r]

(* It loses its payload, and the others are as before.                     *)
LEMMA ClearedNode ==
  ASSUME NEW tr, tr \in [DOMAIN tr -> Node], NEW t \in DOMAIN tr,
         NEW c, c = Cleared(tr, t)
  PROVE  ClearedIn(c, tr, t)
<1> DEFINE node == [tr[t] EXCEPT !.terminal = FALSE, !.frequency = 0]
<1>1. node \in Node /\ node.terminal = FALSE /\ node.frequency = 0
  <2>1. tr[t] \in Node /\ 0 \in 0..MaxFreq
    BY TrieAssumption
  <2> QED
    BY <2>1 DEF Node
<1>2. c = [q \in DOMAIN tr \cup {t} |-> IF q = t THEN node ELSE tr[q]]
  BY DEF Cleared, AddNode
<1> HIDE DEF node
<1>3. c \in [DOMAIN tr -> Node]
  <2>1. DOMAIN tr \cup {t} = DOMAIN tr
    OBVIOUS
  <2> QED
    BY <1>1, <1>2, <2>1
<1>4. c[t] = node /\ \A r \in DOMAIN tr \ {t} : c[r] = tr[r]
  BY <1>2
<1> QED
  BY <1>1, <1>3, <1>4 DEF ClearedIn

(* With a term cleared, what is left to do is on the way up.               *)
LEMMA ClearedUnwinds ==
  ASSUME NEW tr, Trie(tr), NEW t \in Held(tr), NEW c, c = Cleared(tr, t)
  PROVE  /\ Unwinding(c, t, Len(t) + 1) /\ DOMAIN c = DOMAIN tr
         /\ Without(c, tr, t)
<1>1. /\ t \in DOMAIN tr /\ t \in Name /\ Names(DOMAIN tr) /\ DOMAIN tr \subseteq Name
      /\ tr \in [DOMAIN tr -> Node]
      /\ \A p \in DOMAIN tr : ~tr[p].terminal => tr[p].frequency = 0
      /\ Held(tr) \subseteq Terms
  BY DEF Trie, Tree, Names, Held, Placed
<1>2. /\ c \in [DOMAIN tr -> Node]
      /\ c[t].terminal = FALSE /\ c[t].frequency = 0
      /\ \A r \in DOMAIN tr \ {t} : c[r] = tr[r]
  <2>1. ClearedIn(c, tr, t)
    BY <1>1, ClearedNode
  <2> QED
    BY <2>1 DEF ClearedIn
<1>3. DOMAIN c = DOMAIN tr
  BY <1>2
<1>4. Tree(c)
  BY <1>1, <1>2, <1>3 DEF Tree
<1>5. Held(c) = Held(tr) \ {t}
  BY <1>2, <1>3 DEF Held
<1>6. Without(c, tr, t)
  <2>1. \A q \in Held(c) : q \in DOMAIN tr \ {t}
    BY <1>3, <1>5 DEF Held
  <2> QED
    BY <1>2, <1>5, <2>1 DEF Without
<1>7. ASSUME NEW r \in DOMAIN c
      PROVE  (IsPrefix(r, t) /\ Len(r) < Len(t) + 1) \/ (Exact(c, r) /\ Placed(c, r))
  <2>1. r \in Name /\ Len(r) \in Nat /\ Len(t) \in Nat /\ IsPrefix(t, t)
    BY <1>1, <1>3, PrefixOrder, LenProperties DEF Name
  <2>2. CASE IsPrefix(r, t)
    <3>1. Len(r) <= Len(t)
      BY <1>1, <2>1, <2>2, PrefixOrder
    <3> QED
      BY <2>1, <2>2, <3>1
  <2>3. CASE ~IsPrefix(r, t)
    <3>1. r # t /\ c[r] = tr[r] /\ Exact(tr, r) /\ Placed(tr, r)
      BY <1>2, <1>3, <2>1, <2>3 DEF Trie
    <3>2. Heights(c, r) = Heights(tr, r)
      <4>1. {x \in Held(c) : IsPrefix(r, x)} = {x \in Held(tr) : IsPrefix(r, x)}
        BY <1>5, <2>3
      <4> QED
        BY <1>6, <4>1 DEF Heights, Without
    <3>3. Placed(c, r)
      BY <1>3, <3>1 DEF Placed
    <3> QED
      BY <3>1, <3>2, <3>3 DEF Exact
  <2> QED
    BY <2>2, <2>3
<1>8. \A p \in DOMAIN c : p # Root => \E x \in Terms : IsPrefix(p, x)
  BY <1>3 DEF Trie, Placed
<1>9. Rising(c, t, Len(t) + 1)
  BY <1>4, <1>7 DEF Rising
<1> QED
  BY <1>1, <1>3, <1>5, <1>6, <1>7, <1>8, <1>9 DEF Unwinding

(* remove leaves a trie without the term.                                  *)
LEMMA TakeKeeps ==
  ASSUME NEW tr, Trie(tr), NEW t \in Held(tr), NEW u, u = Take(tr, t)
  PROVE  Trie(u) /\ Without(u, tr, t)
<1> DEFINE c == Cleared(tr, t)
           D == DOMAIN tr
           k == Len(t) + 1
           S == {x \in Tries(D) : Tree(x)}
           Set(n) == {x \in S : SameTerms(x, c) /\ Unwinding(x, t, n)}
           I == [i \in 0..k |-> Set(k - i)]
<1>1. t \in Name /\ Len(t) \in Nat /\ k \in Nat
  <2>1. t \in Name
    BY DEF Trie, Tree, Names, Held
  <2> QED
    BY <2>1, LenProperties DEF Name
<1>2. u = FoldLeft(Unwind, c, WayUp(t))
  BY DEF Take, Cleared
<1>3. Unwinding(c, t, k) /\ DOMAIN c = D /\ Without(c, tr, t)
  <2> HIDE DEF c
  <2> QED
    BY ClearedUnwinds DEF c
<1> HIDE DEF c
<1>4. c \in S /\ c \in Set(k)
  <2>1. Tree(c)
    BY <1>3 DEF Unwinding, Rising
  <2>2. c \in Tries(D)
    BY <1>3, <2>1 DEF Tree, Tries
  <2> QED
    BY <1>3, <2>1, <2>2 DEF SameTerms
<1>5. \A p : \A x \in S : Unwind(x, p) \in S
  <2> SUFFICES ASSUME NEW p, NEW x \in S PROVE Unwind(x, p) \in S
    OBVIOUS
  <2> DEFINE v == RecomputeMax(x, p)
             y == Compact(v, p)
  <2>1. Tree(x) /\ x \in [DOMAIN x -> Node] /\ DOMAIN x \subseteq D
    BY DEF Tree, Tries
  <2>2. Tree(v)
    BY <2>1, RecomputeKeeps
  <2> HIDE DEF S, v
  <2>3. v \in [DOMAIN x -> Node]
    BY <2>1, RecomputeEffect DEF v
  <2>4. Tree(y) /\ DOMAIN y \subseteq DOMAIN x
    <3>1. CASE p \notin DOMAIN v
      <4>1. y = v
        BY <3>1 DEF Compact
      <4> QED
        BY <2>2, <2>3, <4>1
    <3>2. CASE p \in DOMAIN v
      <4>1. p \in Name
        BY <2>2, <3>2 DEF Tree, Names
      <4> HIDE DEF y
      <4>2. \/ y = v
            \/ /\ p \in DOMAIN v /\ p # Root /\ ~v[p].terminal /\ ~Branching(DOMAIN v, p)
               /\ y = Drop(v, p)
        BY <2>2, <4>1, CompactIs DEF y
      <4>3. CASE y = v
        BY <2>2, <2>3, <4>3
      <4>4. CASE /\ p \in DOMAIN v /\ p # Root /\ ~v[p].terminal /\ ~Branching(DOMAIN v, p)
                 /\ y = Drop(v, p)
        <5>1. Tree(y) /\ DOMAIN y = DOMAIN v \ {p}
          BY <2>2, <4>4, DropKeeps
        <5> QED
          BY <2>3, <5>1
      <4> QED
        BY <4>2, <4>3, <4>4
    <3> QED
      BY <3>1, <3>2
  <2>5. y \in Tries(D)
    BY <2>1, <2>4 DEF Tree, Tries
  <2>6. y \in S
    BY <2>4, <2>5 DEF S
  <2> QED
    BY <2>6 DEF Unwind, v
<1>6. ASSUME NEW i \in 1..k, NEW x \in Set(k - (i - 1))
      PROVE  Unwind(x, WayUp(t)[i]) \in Set(k - i)
  <2> DEFINE n == k - (i - 1)
             p == WayUp(t)[i]
             y == Unwind(x, p)
  <2>1. n \in 1..(Len(t) + 1) /\ Len(t) + 1 - i = n - 1 /\ k - i = n - 1
    BY <1>1
  <2>2. p = SubSeq(t, 1, n - 1)
    <3>1. p = SubSeq(t, 1, Len(t) + 1 - i)
      BY <1>1, WayUpIs
    <3> QED
      BY <2>1, <3>1
  <2>3. Unwinding(x, t, n) /\ SameTerms(x, c) /\ x \in S
    OBVIOUS
  <2>4. y \in S
    BY <1>5, <2>3
  <2> HIDE DEF n, p, y, S
  <2>5. Unwinding(y, t, n - 1) /\ SameTerms(y, x)
    BY <1>1, <2>1, <2>2, <2>3, UnwindStep DEF y
  <2>6. SameTerms(y, c)
    BY <2>3, <2>5 DEF SameTerms
  <2> QED
    BY <2>1, <2>4, <2>5, <2>6 DEF y, p
<1>7. I \in [0..k -> SUBSET S]
  OBVIOUS
<1>8. c \in I[0]
  BY <1>1, <1>4
<1>9. \A i \in 1..k : \A x \in I[i - 1] : Unwind(x, WayUp(t)[i]) \in I[i]
  <2>1. \A i \in 1..k : i \in 0..k /\ i - 1 \in 0..k
    BY <1>1
  <2> QED
    BY <1>6, <2>1
<1>10. u \in I[k]
  <2>1. c \in S
    BY <1>4
  <2> HIDE DEF I, S
  <2> QED
    BY <1>1, <1>2, <1>5, <1>7, <1>8, <1>9, <2>1, TakeFolds
<1>11. SameTerms(u, c) /\ Unwinding(u, t, 0)
  <2>1. k \in 0..k /\ k - k = 0
    BY <1>1
  <2> QED
    BY <1>10, <2>1
<1>12. Tree(u) /\ \A r \in DOMAIN u : Exact(u, r) /\ Placed(u, r)
  <2>1. Tree(u)
    BY <1>11 DEF Unwinding, Rising
  <2>2. ASSUME NEW r \in DOMAIN u PROVE ~ (Len(r) < 0)
    <3>1. r \in Name
      BY <2>1 DEF Tree, Names
    <3> QED
      BY <3>1, LenProperties DEF Name
  <2> QED
    BY <1>11, <2>1, <2>2 DEF Unwinding, Rising
<1>13. Without(u, tr, t)
  BY <1>3, <1>11 DEF Without, SameTerms
<1> QED
  BY <1>12, <1>13 DEF Trie

----------------------------------------------------------------------------
(* Every operation keeps the invariant.                                    *)

Inv == Trie(trie) /\ len = Cardinality(Held(trie))

(* What a trie holds, and what frequency answers of it.                    *)
LEMMA HeldIs ==
  ASSUME NEW tr, Trie(tr)
  PROVE  /\ Held(tr) \subseteq Terms /\ IsFiniteSet(Held(tr))
         /\ Cardinality(Held(tr)) \in 0..Cardinality(Terms)
         /\ \A t \in Terms :
              /\ Stored(tr, t) <=> t \in Held(tr)
              /\ Frequency(tr, t) = IF t \in Held(tr) THEN tr[t].frequency ELSE Absent
<1>1. Held(tr) \subseteq Terms
  BY DEF Trie, Placed, Held
<1>2. /\ IsFiniteSet(Terms) /\ Cardinality(Terms) \in Nat /\ IsFiniteSet(Held(tr))
      /\ Cardinality(Held(tr)) <= Cardinality(Terms) /\ Cardinality(Held(tr)) \in Nat
  <2>1. IsFiniteSet(Terms)
    BY TrieAssumption
  <2>2. IsFiniteSet(Held(tr)) /\ Cardinality(Held(tr)) <= Cardinality(Terms)
    BY <1>1, <2>1, FS_Subset
  <2> QED
    BY <2>1, <2>2, FS_CardinalityType
<1>3. ASSUME NEW t \in Terms PROVE Stored(tr, t) <=> t \in Held(tr)
  <2>1. t \in Name /\ Names(DOMAIN tr)
    BY TrieAssumption DEF Name, Trie, Tree
  <2>2. Stored(tr, t) <=> t \in DOMAIN tr /\ tr[t].terminal
    BY <2>1, StoredIs
  <2> QED
    BY <2>2 DEF Held
<1> QED
  BY <1>1, <1>2, <1>3 DEF Frequency

(* A new trie.                                                             *)
LEMMA InvInit == Init => Inv
<1> SUFFICES ASSUME Init PROVE Inv
  OBVIOUS
<1>1. /\ DOMAIN trie = {Root} /\ trie[Root] = EmptyNode /\ len = 0
      /\ trie = [p \in {Root} |-> EmptyNode]
  BY DEF Init
<1>2. EmptyNode \in Node /\ ~EmptyNode.terminal /\ EmptyNode.frequency = 0 /\ EmptyNode.max = 0
  BY TrieAssumption DEF EmptyNode, Node
<1>3. Names({Root})
  <2>1. Root \in Name /\ Len(Root) = 0
    BY DEF Root, Name
  <2>2. Parts({Root})
    BY DEF Parts, PartAt
  <2>3. IsFiniteSet({Root})
    BY FS_Singleton
  <2> QED
    BY <2>1, <2>2, <2>3 DEF Names
<1>4. Tree(trie)
  BY <1>1, <1>2, <1>3 DEF Tree
<1>5. Held(trie) = {}
  BY <1>1, <1>2 DEF Held
<1>6. Exact(trie, Root)
  <2>1. Heights(trie, Root) = {0}
    BY <1>5 DEF Heights
  <2>2. Max({0}) = 0
    <3>1. {0} \in SUBSET (0..MaxFreq)
      BY TrieAssumption
    <3> QED
      BY <3>1, MaxFreqIs
  <2> QED
    BY <1>1, <1>2, <2>1, <2>2 DEF Exact
<1>7. Placed(trie, Root)
  BY <1>1, <1>2 DEF Placed
<1>8. Cardinality({}) = 0
  BY FS_EmptySet
<1> QED
  BY <1>1, <1>4, <1>5, <1>6, <1>7, <1>8 DEF Inv, Trie

(* Storing a term leaves the trie a map to which the term is added.        *)
LEMMA StoreStep ==
  ASSUME Inv, NEW t \in Terms, NEW f \in 0..MaxFreq,
         trie' = Put(Split(trie, t), t, f), CountNew(t)
  PROVE  Inv' /\ Writes(trie', trie, t, f)
<1>1. Trie(trie) /\ len = Cardinality(Held(trie))
  BY DEF Inv
<1> DEFINE u == trie'
<1>2. Trie(u) /\ Writes(u, trie, t, f)
  <2>1. u = Put(Split(trie, t), t, f)
    OBVIOUS
  <2> HIDE DEF u
  <2> QED
    BY <1>1, <2>1, PutKeeps
<1>3. Held(u) = Held(trie) \cup {t}
  BY <1>2 DEF Writes
<1>4. IsFiniteSet(Held(trie)) /\ (Stored(trie, t) <=> t \in Held(trie))
  BY <1>1, HeldIs
<1>5. len' = Cardinality(Held(u))
  <2>1. CASE t \in Held(trie)
    <3>1. Held(u) = Held(trie)
      BY <1>3, <2>1
    <3> QED
      BY <1>1, <1>4, <2>1, <3>1 DEF CountNew
  <2>2. CASE t \notin Held(trie)
    <3>1. Cardinality(Held(trie) \cup {t}) = Cardinality(Held(trie)) + 1
      BY <1>4, <2>2, FS_AddElement
    <3> QED
      BY <1>1, <1>3, <1>4, <2>2, <3>1 DEF CountNew
  <2> QED
    BY <2>1, <2>2
<1>6. Inv'
  BY <1>2, <1>5 DEF Inv
<1> QED
  BY <1>2, <1>6

(* Removing one leaves a map without it.                                   *)
LEMMA RemoveStep ==
  ASSUME Inv, NEW t \in Terms, RemoveTerm(t)
  PROVE  Inv' /\ Without(trie', trie, t) /\ t \in Held(trie)
<1>1. Trie(trie) /\ len = Cardinality(Held(trie))
  BY DEF Inv
<1>2. IsFiniteSet(Held(trie)) /\ (Stored(trie, t) <=> t \in Held(trie))
  BY <1>1, HeldIs
<1>3. t \in Held(trie)
  BY <1>2 DEF RemoveTerm
<1> DEFINE u == trie'
<1>4. Trie(u) /\ Without(u, trie, t)
  <2>1. u = Take(trie, t)
    BY DEF RemoveTerm
  <2> HIDE DEF u
  <2> QED
    BY <1>1, <1>3, <2>1, TakeKeeps
<1>5. len' = Cardinality(Held(u))
  <2>1. Cardinality(Held(trie) \ {t}) = Cardinality(Held(trie)) - 1
    BY <1>2, <1>3, FS_RemoveElement
  <2>2. Held(u) = Held(trie) \ {t}
    BY <1>4 DEF Without
  <2> QED
    BY <1>1, <2>1, <2>2 DEF RemoveTerm
<1>6. Inv'
  BY <1>4, <1>5 DEF Inv
<1> QED
  BY <1>3, <1>4, <1>6

(* The sum of an insert is a frequency.                                    *)
LEMMA InsertSum ==
  ASSUME NEW tr, Trie(tr), NEW t \in Terms, NEW w \in Weights
  PROVE  Saturated(Before(Split(tr, t), t) + w) \in 0..MaxFreq
<1> DEFINE b == Before(Split(tr, t), t)
<1>1. b \in 0..MaxFreq
  BY BeforeIs
<1>2. w \in 0..MaxFreq /\ MaxFreq \in Nat
  BY TrieAssumption
<1> HIDE DEF b
<1>3. Saturated(b + w) \in 0..MaxFreq
  BY <1>1, <1>2 DEF Saturated
<1> QED
  BY <1>3 DEF b

(* Every step keeps the invariant.                                         *)
LEMMA InvStep == Inv /\ [Next]_vars => Inv'
<1> SUFFICES ASSUME Inv, [Next]_vars PROVE Inv'
  OBVIOUS
<1>1. Trie(trie)
  BY DEF Inv
<1>2. ASSUME NEW t \in Terms, NEW w \in Weights, InsertTerm(t, w) PROVE Inv'
  <2> DEFINE f == Saturated(Before(Split(trie, t), t) + w)
  <2>1. trie' = Put(Split(trie, t), t, f) /\ CountNew(t)
    BY <1>2 DEF InsertTerm
  <2>2. f \in 0..MaxFreq
    BY <1>1, InsertSum
  <2> HIDE DEF f
  <2> QED
    BY <2>1, <2>2, StoreStep
<1>3. ASSUME NEW t \in Terms, NEW w \in Weights, SetTerm(t, w) PROVE Inv'
  <2>1. trie' = Put(Split(trie, t), t, w) /\ CountNew(t) /\ w \in 0..MaxFreq
    BY <1>3, TrieAssumption DEF SetTerm
  <2> QED
    BY <2>1, StoreStep
<1>4. ASSUME NEW t \in Terms, RemoveTerm(t) PROVE Inv'
  BY <1>4, RemoveStep
<1>5. CASE UNCHANGED vars
  BY <1>5 DEF vars, Inv
<1> QED
  BY <1>2, <1>3, <1>4, <1>5 DEF Next

(* The invariant holds in every state.                                     *)
LEMMA Invariant == Spec => []Inv
<1> QED
  BY InvInit, InvStep, PTL DEF Spec

----------------------------------------------------------------------------
(* What a user of the trie relies on.                                      *)

(* RadixTrie, Node: the nodes are well-formed, every one is on the way to  *)
(* a term that may be indexed, and len never exceeds the number of these.  *)
THEOREM TrieTypeCorrect == Spec => []TypeOK
<1>1. Inv => TypeOK
  <2> SUFFICES ASSUME Inv PROVE TypeOK
    OBVIOUS
  <2>1. /\ Trie(trie) /\ Root \in DOMAIN trie /\ trie \in [DOMAIN trie -> Node]
        /\ \A p \in DOMAIN trie : Placed(trie, p)
    BY DEF Inv, Trie, Tree, Names
  <2>2. len \in 0..Cardinality(Terms)
    BY <2>1, HeldIs DEF Inv
  <2> QED
    BY <2>1, <2>2 DEF TypeOK, Placed
<1> QED
  BY <1>1, Invariant, PTL

(* The documentation of src/trie, after every insert, set and remove: a    *)
(* node other than the root is a term or has two children, these begin     *)
(* with different bytes, and only terms carry a frequency.                 *)
THEOREM ShapeKept == Spec => []CanonicalShape
<1>1. Inv => CanonicalShape
  <2> SUFFICES ASSUME Inv, NEW p \in DOMAIN trie
               PROVE  /\ p = Root \/ trie[p].terminal \/ Cardinality(Children(trie, p)) >= 2
                      /\ \A q, r \in Children(trie, p) :
                           q # r => q[Len(p) + 1] # r[Len(p) + 1]
                      /\ trie[p].terminal \/ trie[p].frequency = 0
    BY DEF CanonicalShape
  <2>1. /\ Names(DOMAIN trie) /\ Placed(trie, p) /\ p \in Name
        /\ DOMAIN trie \subseteq Name /\ Parts(DOMAIN trie)
        /\ trie[p].terminal \/ trie[p].frequency = 0
    BY DEF Inv, Trie, Tree, Names
  <2>2. Children(trie, p) = Below(DOMAIN trie, p)
    BY ChildrenAre
  <2>3. Branching(DOMAIN trie, p) <=> Cardinality(Below(DOMAIN trie, p)) >= 2
    BY <2>1, BranchingIs
  <2>4. \A q, r \in Below(DOMAIN trie, p) : q # r => q[Len(p) + 1] # r[Len(p) + 1]
    BY <2>1, ChildrenPart
  <2> QED
    BY <2>1, <2>2, <2>3, <2>4 DEF Placed
<1> QED
  BY <1>1, Invariant, PTL

(* Node::recompute_max on the way up of an operation, from the maxima of   *)
(* the children alone, keeps every node's maximum the highest frequency    *)
(* below it, on and off the way.                                           *)
THEOREM MaximaKept == Spec => []MaximaExact
<1>1. Inv => MaximaExact
  <2> SUFFICES ASSUME Inv, NEW p \in DOMAIN trie
               PROVE  trie[p].max =
                        Max({0} \cup {trie[q].frequency : q \in {r \in DOMAIN trie :
                                           IsPrefix(p, r) /\ trie[r].terminal}})
    BY DEF MaximaExact
  <2>1. trie[p].max = Max(Heights(trie, p))
    BY DEF Inv, Trie, Exact
  <2>2. {r \in DOMAIN trie : IsPrefix(p, r) /\ trie[r].terminal}
          = {r \in Held(trie) : IsPrefix(p, r)}
    BY DEF Held
  <2> QED
    BY <2>1, <2>2 DEF Heights
<1> QED
  BY <1>1, Invariant, PTL

(* RadixTrie::descend, for a prefix of a term, that may end within an      *)
(* edge: it finds what holds exactly the terms that begin with it.         *)
THEOREM DescentCovers == Spec => []DescendCovers
<1>1. Inv => DescendCovers
  <2> SUFFICES ASSUME Inv, NEW t \in Terms, NEW key \in Prefixes(t)
               PROVE  {q \in DOMAIN trie : trie[q].terminal /\
                                           \E p \in Descend(trie, key) : IsPrefix(p, q)}
                        = {q \in DOMAIN trie : trie[q].terminal /\ IsPrefix(key, q)}
    BY DEF DescendCovers
  <2>1. Names(DOMAIN trie) /\ DOMAIN trie \subseteq Name
    BY DEF Inv, Trie, Tree, Names
  <2>2. key \in Name
    <3>1. t \in Name
      BY TrieAssumption DEF Name
    <3>2. PICK n \in 0..Len(t) : key = SubSeq(t, 1, n)
      BY DEF Prefixes
    <3> QED
      BY <3>1, <3>2, Cut
  <2>3. /\ \A q \in Descend(trie, key) : q \in DOMAIN trie /\ IsPrefix(key, q)
        /\ \A r \in DOMAIN trie : IsPrefix(key, r) =>
             \E q \in Descend(trie, key) : IsPrefix(q, r)
    BY <2>1, <2>2, DescendIs
  <2>4. ASSUME NEW q \in DOMAIN trie, NEW p \in Descend(trie, key), IsPrefix(p, q)
        PROVE  IsPrefix(key, q)
    BY <2>1, <2>2, <2>3, <2>4, PrefixOrder
  <2> QED
    BY <2>3, <2>4
<1> QED
  BY <1>1, Invariant, PTL

(* The map a trie stands for.                                              *)
FreqsOf(tr) == [t \in Terms |-> Frequency(tr, t)]

(* It maps the terms held, and no others.                                  *)
LEMMA FreqsAre ==
  ASSUME NEW tr, Trie(tr)
  PROVE  /\ \A t \in Terms : FreqsOf(tr)[t] =
                               IF t \in Held(tr) THEN tr[t].frequency ELSE Absent
         /\ {t \in Terms : FreqsOf(tr)[t] # Absent} = Held(tr)
<1>1. /\ Held(tr) \subseteq Terms
      /\ \A t \in Terms :
           Frequency(tr, t) = IF t \in Held(tr) THEN tr[t].frequency ELSE Absent
  BY HeldIs
<1>2. \A t \in Held(tr) : tr[t].frequency \in 0..MaxFreq
  BY DEF Trie, Tree, Held, Node
<1>3. \A t \in Held(tr) : tr[t].frequency # Absent
  BY <1>2, TrieAssumption
<1> QED
  BY <1>1, <1>3 DEF FreqsOf

(* A write changes what one term maps to.                                  *)
LEMMA WritesFreqs ==
  ASSUME NEW tr, Trie(tr), NEW u, Trie(u), NEW t \in Terms, NEW f, Writes(u, tr, t, f)
  PROVE  FreqsOf(u) = [FreqsOf(tr) EXCEPT ![t] = f]
<1>1. ASSUME NEW x \in Terms
      PROVE  FreqsOf(u)[x] = IF x = t THEN f ELSE FreqsOf(tr)[x]
  <2>1. x \in Held(u) <=> x \in Held(tr) \/ x = t
    BY DEF Writes
  <2>2. x \in Held(tr) /\ x # t => u[x].frequency = tr[x].frequency
    BY DEF Writes
  <2>3. FreqsOf(u)[x] = IF x \in Held(u) THEN u[x].frequency ELSE Absent
    BY FreqsAre
  <2>4. FreqsOf(tr)[x] = IF x \in Held(tr) THEN tr[x].frequency ELSE Absent
    BY FreqsAre
  <2>5. u[t].frequency = f
    BY DEF Writes
  <2> QED
    BY <2>1, <2>2, <2>3, <2>4, <2>5
<1> QED
  BY <1>1 DEF FreqsOf

(* So does a removal.                                                      *)
LEMMA WithoutFreqs ==
  ASSUME NEW tr, Trie(tr), NEW u, Trie(u), NEW t \in Terms, Without(u, tr, t)
  PROVE  FreqsOf(u) = [FreqsOf(tr) EXCEPT ![t] = Absent]
<1>1. ASSUME NEW x \in Terms
      PROVE  FreqsOf(u)[x] = IF x = t THEN Absent ELSE FreqsOf(tr)[x]
  <2>1. x \in Held(u) <=> x \in Held(tr) /\ x # t
    BY DEF Without
  <2>2. x \in Held(u) => u[x].frequency = tr[x].frequency
    BY DEF Without
  <2>3. FreqsOf(u)[x] = IF x \in Held(u) THEN u[x].frequency ELSE Absent
    BY FreqsAre
  <2>4. FreqsOf(tr)[x] = IF x \in Held(tr) THEN tr[x].frequency ELSE Absent
    BY FreqsAre
  <2> QED
    BY <2>1, <2>2, <2>3, <2>4
<1> QED
  BY <1>1 DEF FreqsOf

(* The sum of an insert is that of the map.                                *)
LEMMA InsertIs ==
  ASSUME NEW tr, Trie(tr), NEW t \in Terms, NEW w
  PROVE  Saturated(Before(Split(tr, t), t) + w) = Map!Sum(FreqsOf(tr)[t], w)
<1>1. Before(Split(tr, t), t) = IF t \in Held(tr) THEN tr[t].frequency ELSE 0
  BY BeforeIs
<1>2. /\ FreqsOf(tr)[t] = IF t \in Held(tr) THEN tr[t].frequency ELSE Absent
      /\ Held(tr) = {x \in Terms : FreqsOf(tr)[x] # Absent}
  BY FreqsAre
<1>3. Before(Split(tr, t), t) = IF FreqsOf(tr)[t] = Absent THEN 0 ELSE FreqsOf(tr)[t]
  BY <1>1, <1>2
<1> QED
  BY <1>3 DEF Saturated, Map!Sum

(* A step that gives one term a frequency, or takes it away, is a step of  *)
(* the map: len counts the terms afterwards.                               *)
LEMMA StoreIs ==
  ASSUME Inv', NEW t \in Terms, NEW f,
         FreqsOf(trie') = [FreqsOf(trie) EXCEPT ![t] = f]
  PROVE  Map!Store(t, f)
<1> DEFINE u == trie'
<1>1. Trie(u) /\ len' = Cardinality(Held(u))
  BY DEF Inv
<1>2. {x \in Terms : FreqsOf(u)[x] # Absent} = Held(u)
  <2> HIDE DEF u
  <2> QED
    BY <1>1, FreqsAre
<1>3. len' = Cardinality({x \in Terms : FreqsOf(u)[x] # Absent})
  BY <1>1, <1>2
<1>4. [x \in Terms |-> Frequency(trie, x)]' = FreqsOf(u)
  BY DEF FreqsOf
<1>5. [x \in Terms |-> Frequency(trie, x)] = FreqsOf(trie)
  BY DEF FreqsOf
<1> DEFINE F == [x \in Terms |-> Frequency(trie, x)]
           after == [F EXCEPT ![t] = f]
<1>6. after = FreqsOf(u)
  BY <1>5
<1>7. F' = after
  BY <1>4, <1>6
<1>8. len' = Cardinality({x \in Terms : after[x] # Absent})
  BY <1>3, <1>6
<1>9. \A S : Map!Cardinality(S) = Cardinality(S)
  BY DEF Map!Cardinality, Cardinality
<1> QED
  BY <1>7, <1>8, <1>9 DEF Map!Store

(* RadixTrie::insert, set, remove, frequency and len: whatever splits,     *)
(* merges and recomputations it takes, the trie is a map from terms to     *)
(* frequencies, and an operation on one term changes no other.             *)
THEOREM MapImplemented == Spec => ImplementsMap
<1>1. Init => Map!Init
  <2> SUFFICES ASSUME Init PROVE Map!Init
    OBVIOUS
  <2>1. Trie(trie) /\ len = 0
    BY InvInit DEF Inv, Init
  <2>2. Held(trie) = {}
    BY DEF Init, Held, EmptyNode
  <2>3. \A t \in Terms : Frequency(trie, t) = Absent
    BY <2>1, <2>2, HeldIs
  <2> QED
    BY <2>1, <2>3 DEF Map!Init
<1>2. Inv /\ [Next]_vars => [Map!Next]_<<[t \in Terms |-> Frequency(trie, t)], len>>
  <2> SUFFICES ASSUME Inv, [Next]_vars
               PROVE  [Map!Next]_<<[t \in Terms |-> Frequency(trie, t)], len>>
    OBVIOUS
  <2>1. Trie(trie) /\ Inv' /\ Trie(trie')
    BY InvStep DEF Inv
  <2>2. [x \in Terms |-> Frequency(trie, x)] = FreqsOf(trie)
    BY DEF FreqsOf
  <2>3. ASSUME NEW t \in Terms, NEW w \in Weights, InsertTerm(t, w) PROVE Map!Next
    <3> DEFINE f == Saturated(Before(Split(trie, t), t) + w)
    <3>1. trie' = Put(Split(trie, t), t, f) /\ CountNew(t)
      BY <2>3 DEF InsertTerm
    <3>2. f \in 0..MaxFreq
      BY <2>1, InsertSum
    <3>3. f = Map!Sum(FreqsOf(trie)[t], w)
      BY <2>1, InsertIs
    <3> HIDE DEF f
    <3>4. Writes(trie', trie, t, f)
      BY <3>1, <3>2, StoreStep
    <3>5. FreqsOf(trie') = [FreqsOf(trie) EXCEPT ![t] = f]
      BY <2>1, <3>4, WritesFreqs
    <3>6. Map!Store(t, f)
      BY <2>1, <3>5, StoreIs
    <3>7. Map!Insert(t, w)
      BY <2>2, <3>3, <3>6 DEF Map!Insert
    <3> QED
      BY <3>7 DEF Map!Next
  <2>4. ASSUME NEW t \in Terms, NEW w \in Weights, SetTerm(t, w) PROVE Map!Next
    <3>1. trie' = Put(Split(trie, t), t, w) /\ CountNew(t) /\ w \in 0..MaxFreq
      BY <2>4, TrieAssumption DEF SetTerm
    <3>2. Writes(trie', trie, t, w)
      BY <3>1, StoreStep
    <3>3. FreqsOf(trie') = [FreqsOf(trie) EXCEPT ![t] = w]
      BY <2>1, <3>2, WritesFreqs
    <3>4. Map!Set(t, w)
      BY <2>1, <3>3, StoreIs DEF Map!Set
    <3> QED
      BY <3>4 DEF Map!Next
  <2>5. ASSUME NEW t \in Terms, RemoveTerm(t) PROVE Map!Next
    <3>1. Without(trie', trie, t) /\ t \in Held(trie)
      BY <2>5, RemoveStep
    <3>2. FreqsOf(trie') = [FreqsOf(trie) EXCEPT ![t] = Absent]
      BY <2>1, <3>1, WithoutFreqs
    <3>3. Map!Store(t, Absent)
      BY <2>1, <3>2, StoreIs
    <3>4. FreqsOf(trie)[t] # Absent
      BY <2>1, <3>1, FreqsAre
    <3>5. Map!Remove(t)
      BY <2>2, <3>3, <3>4 DEF Map!Remove
    <3> QED
      BY <3>5 DEF Map!Next
  <2>6. CASE UNCHANGED vars
    BY <2>6 DEF vars
  <2> QED
    BY <2>3, <2>4, <2>5, <2>6 DEF Next
<1> QED
  BY <1>1, <1>2, Invariant, PTL DEF Spec, ImplementsMap, Map!Spec
=============================================================================
