----------------------------- MODULE TypoProofs -----------------------------
(***************************************************************************)
(* The rows of typo.rs have the edit distances: entry j of the row behind  *)
(* a word is the least number of insertions, deletions and substitutions   *)
(* that lead from the first j bytes of the query to that word.             *)
(***************************************************************************)
EXTENDS TrieSearch, RadixTrieProofs

----------------------------------------------------------------------------
(* One row after another.                                                  *)

(* The rows for a query of m bytes.                                        *)
Rows(m) == [0..m -> Nat]

Cost(s, i, ch) == IF s[i] = ch THEN 0 ELSE 1

(* What next_row makes of row r when ch is consumed.                       *)
Follows(r, next, s, ch, m) ==
  /\ next \in Rows(m) /\ next[0] = r[0] + 1
  /\ \A i \in 1..m :
       /\ next[i] <= r[i] + 1
       /\ next[i] <= next[i - 1] + 1
       /\ next[i] <= r[i - 1] + Cost(s, i, ch)
       /\ next[i] \in {r[i] + 1, next[i - 1] + 1, r[i - 1] + Cost(s, i, ch)}

(* The least of three.                                                     *)
LEMMA MinOfThree ==
  ASSUME NEW a \in Nat, NEW b \in Nat, NEW c \in Nat, NEW x, x = Min({a, b, c})
  PROVE  x \in Nat /\ x <= a /\ x <= b /\ x <= c /\ x \in {a, b, c}
<1>1. {a, b, c} \in SUBSET Nat
  OBVIOUS
<1>2. PICK z \in {a, b, c} : \A j \in {a, b, c} : z <= j
  <2> DEFINE T == {a, b, c}
  <2>1. T \in SUBSET Nat /\ T # {}
    OBVIOUS
  <2> HIDE DEF T
  <2>2. \E z \in T : \A j \in T : z <= j
    BY <2>1, LeastExists
  <2> QED
    BY <2>2 DEF T
<1>3. x = z
  <2> DEFINE T == {a, b, c}
  <2>1. T \in SUBSET Int /\ z \in T /\ \A j \in T : z <= j
    BY <1>2
  <2>2. x = Min(T)
    OBVIOUS
  <2> HIDE DEF T
  <2> QED
    BY <2>1, <2>2, MinIs
<1> QED
  BY <1>2, <1>3

(* next_row is defined from left to right, and each entry is the least of  *)
(* what a deletion, an insertion and a substitution lead to.               *)
LEMMA NextRowIs ==
  ASSUME NEW m \in Nat, NEW r \in Rows(m), NEW s, NEW ch
  PROVE  Follows(r, NextRow(r, s, ch), s, ch, m)
<1> DEFINE Entry(i, x) == Min({r[i] + 1, x + 1, r[i - 1] + Cost(s, i, ch)})
           step == [i \in 1..m |-> [x \in Nat |-> Entry(i, x)]]
           base == r[0] + 1
           Is(f) == f = [i \in 0..m |-> IF i = 0 THEN base ELSE Entry(i, f[i - 1])]
<1>1. /\ base \in Nat
      /\ \A i \in 1..m : r[i] + 1 \in Nat /\ r[i - 1] + Cost(s, i, ch) \in Nat
  BY DEF Rows, Cost
<1>2. ASSUME NEW i \in 1..m, NEW x \in Nat
      PROVE  /\ Entry(i, x) \in Nat
             /\ Entry(i, x) <= r[i] + 1 /\ Entry(i, x) <= x + 1
             /\ Entry(i, x) <= r[i - 1] + Cost(s, i, ch)
             /\ Entry(i, x) \in {r[i] + 1, x + 1, r[i - 1] + Cost(s, i, ch)}
  <2> DEFINE a == r[i] + 1
             b == x + 1
             c == r[i - 1] + Cost(s, i, ch)
             e == Entry(i, x)
  <2>1. a \in Nat /\ b \in Nat /\ c \in Nat /\ e = Min({a, b, c})
    BY <1>1
  <2> HIDE DEF a, b, c, e
  <2>2. e \in Nat /\ e <= a /\ e <= b /\ e <= c /\ e \in {a, b, c}
    BY <2>1, MinOfThree
  <2> QED
    BY <2>2 DEF a, b, c, e
<1> HIDE DEF Entry
<1>3. step \in Steps(1..m, Nat)
  BY <1>2 DEF Steps
<1>4. PICK u : Iterates(u, m, Nat, base, step)
  <2> HIDE DEF step, base
  <2> QED
    BY <1>1, <1>3, IterationExists
<1>5. Is(u)
  <2>1. u \in [0..m -> Nat] /\ u[0] = base
    BY <1>4 DEF Iterates
  <2>2. \A i \in 1..m : u[i] = Entry(i, u[i - 1])
    <3> SUFFICES ASSUME NEW i \in 1..m PROVE u[i] = Entry(i, u[i - 1])
      OBVIOUS
    <3>1. u[i] = step[i][u[i - 1]]
      BY <1>4 DEF Iterates
    <3>2. u[i - 1] \in Nat
      BY <2>1
    <3> QED
      BY <3>1, <3>2
  <2> HIDE DEF base
  <2>3. \A i \in 0..m : u[i] = IF i = 0 THEN base ELSE Entry(i, u[i - 1])
    BY <2>1, <2>2
  <2> QED
    BY <2>1, <2>3
<1> DEFINE next == CHOOSE f : Is(f)
<1>6. Is(next)
  BY <1>5
<1>7. NextRow(r, s, ch) = next
  <2>1. DOMAIN r = 0..m
    BY DEF Rows
  <2> QED
    BY <2>1 DEF NextRow, Entry, Cost
<1> HIDE DEF next
<1>8. /\ DOMAIN next = 0..m /\ next[0] = base
      /\ \A i \in 1..m : next[i] = Entry(i, next[i - 1])
  BY <1>6
<1> DEFINE T == {i \in 0..m : next[i] \in Nat}
<1>9. T = 0..m
  <2>1. 0 \in T
    BY <1>1, <1>8
  <2>2. ASSUME NEW i \in 1..m, i - 1 \in T PROVE i \in T
    BY <1>2, <1>8, <2>2
  <2>3. T \in SUBSET (0..m)
    OBVIOUS
  <2> HIDE DEF T
  <2> QED
    BY <2>1, <2>2, <2>3, UpToAll
<1>10. next \in Rows(m)
  <2>1. \A i \in 0..m : next[i] \in Nat
    BY <1>9
  <2>2. next = [i \in 0..m |-> next[i]]
    BY <1>6
  <2> QED
    BY <2>1, <2>2 DEF Rows
<1>11. \A i \in 1..m : next[i - 1] \in Nat
  BY <1>9
<1> QED
  BY <1>2, <1>7, <1>8, <1>10, <1>11 DEF Follows

(* The first row.                                                          *)
LEMMA InitialRowIs ==
  ASSUME NEW m \in Nat
  PROVE  InitialRow(m) \in Rows(m) /\ \A i \in 0..m : InitialRow(m)[i] = i
BY DEF InitialRow, Rows

(* No entry is more than one above the entry before it.                    *)
Smooth(r, m) == \A i \in 1..m : r[i] <= r[i - 1] + 1

(* Entry by entry r is at most one above p.                                *)
OneMore(r, p, m) == \A i \in 0..m : r[i] <= p[i] + 1

(* A row is smooth: one more byte of the query costs at most one insertion.*)
LEMMA RowsSmooth ==
  ASSUME NEW m \in Nat
  PROVE  /\ Smooth(InitialRow(m), m)
         /\ \A r \in Rows(m) : \A s, ch : Smooth(NextRow(r, s, ch), m)
<1>1. Smooth(InitialRow(m), m)
  BY InitialRowIs DEF Smooth
<1>2. ASSUME NEW r \in Rows(m), NEW s, NEW ch PROVE Smooth(NextRow(r, s, ch), m)
  BY NextRowIs DEF Follows, Smooth
<1> QED
  BY <1>1, <1>2

(* Rows that differ by one do so behind another byte.                      *)
LEMMA OneMoreKept ==
  ASSUME NEW m \in Nat, NEW r \in Rows(m), NEW p \in Rows(m), OneMore(r, p, m),
         NEW s, NEW ch
  PROVE  OneMore(NextRow(r, s, ch), NextRow(p, s, ch), m)
<1> DEFINE a == NextRow(r, s, ch)
           b == NextRow(p, s, ch)
           T == {i \in 0..m : a[i] <= b[i] + 1}
<1>1. Follows(r, a, s, ch, m) /\ Follows(p, b, s, ch, m)
  BY NextRowIs
<1> HIDE DEF a, b
<1>2. /\ \A i \in 0..m : a[i] \in Nat /\ b[i] \in Nat /\ r[i] \in Nat /\ p[i] \in Nat
      /\ \A i \in 1..m : Cost(s, i, ch) \in Nat
  BY <1>1 DEF Follows, Rows, Cost
<1>3. 0 \in T
  BY <1>1, <1>2 DEF Follows, OneMore
<1>4. ASSUME NEW i \in 1..m, i - 1 \in T PROVE i \in T
  <2>1. /\ i \in 0..m /\ i - 1 \in 0..m
        /\ a[i - 1] <= b[i - 1] + 1 /\ r[i] <= p[i] + 1 /\ r[i - 1] <= p[i - 1] + 1
    BY <1>4 DEF OneMore
  <2>2. a[i] <= r[i] + 1 /\ a[i] <= a[i - 1] + 1 /\ a[i] <= r[i - 1] + Cost(s, i, ch)
    BY <1>1 DEF Follows
  <2>3. b[i] \in {p[i] + 1, b[i - 1] + 1, p[i - 1] + Cost(s, i, ch)}
    BY <1>1 DEF Follows
  <2>4. a[i] <= b[i] + 1
    BY <1>2, <2>1, <2>2, <2>3
  <2> QED
    BY <2>1, <2>4
<1>5. T = 0..m
  <2>1. T \in SUBSET (0..m)
    OBVIOUS
  <2> HIDE DEF T
  <2> QED
    BY <1>3, <1>4, <2>1, UpToAll
<1> QED
  BY <1>5 DEF OneMore, a, b

(* One edit more: another byte than the one consumed, one that is not      *)
(* consumed, or one too many.                                              *)
LEMMA OneEditMore ==
  ASSUME NEW m \in Nat, NEW r \in Rows(m), Smooth(r, m), NEW s, NEW ch, NEW x
  PROVE  /\ OneMore(NextRow(r, s, x), NextRow(r, s, ch), m)
         /\ OneMore(NextRow(r, s, x), r, m)
         /\ OneMore(r, NextRow(r, s, ch), m)
<1> DEFINE a == NextRow(r, s, x)
           b == NextRow(r, s, ch)
           T == {i \in 0..m : a[i] <= b[i] + 1}
           U == {i \in 0..m : r[i] <= b[i] + 1}
<1>1. Follows(r, a, s, x, m) /\ Follows(r, b, s, ch, m)
  BY NextRowIs
<1> HIDE DEF a, b
<1>2. /\ \A i \in 0..m : a[i] \in Nat /\ b[i] \in Nat /\ r[i] \in Nat
      /\ \A i \in 1..m : Cost(s, i, ch) \in {0, 1} /\ Cost(s, i, x) \in {0, 1}
  BY <1>1 DEF Follows, Rows, Cost
<1>3. 0 \in T /\ 0 \in U
  BY <1>1, <1>2 DEF Follows
<1>4. ASSUME NEW i \in 1..m
      PROVE  /\ i \in 0..m /\ i - 1 \in 0..m
             /\ a[i] <= r[i] + 1 /\ a[i] <= a[i - 1] + 1 /\ a[i] <= r[i - 1] + Cost(s, i, x)
             /\ b[i] \in {r[i] + 1, b[i - 1] + 1, r[i - 1] + Cost(s, i, ch)}
  BY <1>1 DEF Follows
<1>5. ASSUME NEW i \in 1..m, i - 1 \in T PROVE i \in T
  <2>1. a[i - 1] <= b[i - 1] + 1
    BY <1>5
  <2>2. a[i] <= b[i] + 1
    BY <1>2, <1>4, <2>1
  <2> QED
    BY <1>4, <2>2
<1>6. ASSUME NEW i \in 1..m, i - 1 \in U PROVE i \in U
  <2>1. r[i - 1] <= b[i - 1] + 1 /\ r[i] <= r[i - 1] + 1
    BY <1>6 DEF Smooth
  <2>2. r[i] <= b[i] + 1
    BY <1>2, <1>4, <2>1
  <2> QED
    BY <1>4, <2>2
<1>7. T = 0..m /\ U = 0..m
  <2>1. T \in SUBSET (0..m) /\ U \in SUBSET (0..m)
    OBVIOUS
  <2> HIDE DEF T, U
  <2>2. T = 0..m
    BY <1>3, <1>5, <2>1, UpToAll
  <2>3. U = 0..m
    BY <1>3, <1>6, <2>1, UpToAll
  <2> QED
    BY <2>2, <2>3
<1>8. OneMore(a, r, m)
  <2>1. a[0] <= r[0] + 1
    BY <1>1, <1>2 DEF Follows
  <2>2. \A i \in 0..m : i = 0 \/ i \in 1..m
    OBVIOUS
  <2> QED
    BY <1>4, <2>1, <2>2 DEF OneMore
<1> QED
  BY <1>7, <1>8 DEF OneMore, a, b

(* No entry is below n.                                                    *)
AtLeast(r, n, m) == \A i \in 0..m : r[i] >= n

(* The minimum of a row never falls, as the comment of row_min says, so    *)
(* what a walk abandons for its row has no match behind it.                *)
LEMMA RowMinKept ==
  ASSUME NEW m \in Nat, NEW r \in Rows(m), NEW n \in Nat, AtLeast(r, n, m),
         NEW s, NEW ch
  PROVE  AtLeast(NextRow(r, s, ch), n, m)
<1> DEFINE a == NextRow(r, s, ch)
           T == {i \in 0..m : a[i] >= n}
<1>1. Follows(r, a, s, ch, m)
  BY NextRowIs
<1> HIDE DEF a
<1>2. /\ \A i \in 0..m : a[i] \in Nat /\ r[i] \in Nat /\ r[i] >= n
      /\ \A i \in 1..m : Cost(s, i, ch) \in Nat
  BY <1>1 DEF Follows, Rows, Cost, AtLeast
<1>3. 0 \in T
  BY <1>1, <1>2 DEF Follows
<1>4. ASSUME NEW i \in 1..m, i - 1 \in T PROVE i \in T
  <2>1. i \in 0..m /\ i - 1 \in 0..m /\ a[i - 1] >= n
    BY <1>4
  <2>2. a[i] \in {r[i] + 1, a[i - 1] + 1, r[i - 1] + Cost(s, i, ch)}
    BY <1>1 DEF Follows
  <2>3. a[i] >= n
    BY <1>2, <2>1, <2>2
  <2> QED
    BY <2>1, <2>3
<1>5. T = 0..m
  <2>1. T \in SUBSET (0..m)
    OBVIOUS
  <2> HIDE DEF T
  <2> QED
    BY <1>3, <1>4, <2>1, UpToAll
<1> QED
  BY <1>5 DEF AtLeast, a

(* row_min is the least of the entries.                                    *)
LEMMA RowMinIs ==
  ASSUME NEW m \in Nat, NEW r \in Rows(m), NEW n \in Nat
  PROVE  /\ RowMin(r) \in Nat
         /\ RowMin(r) <= n <=> ~AtLeast(r, n + 1, m)
<1> DEFINE V == {r[i] : i \in 0..m}
<1>1. V \in SUBSET Nat /\ V # {}
  BY DEF Rows
<1>2. RowMin(r) = Min(V)
  <2>1. DOMAIN r = 0..m
    BY DEF Rows
  <2> QED
    BY <2>1 DEF RowMin
<1>3. PICK v \in V : \A x \in V : v <= x
  <2> HIDE DEF V
  <2> QED
    BY <1>1, LeastExists
<1>4. Min(V) = v
  <2>1. V \in SUBSET Int
    BY <1>1
  <2> HIDE DEF V
  <2> QED
    BY <1>3, <2>1, MinIs
<1>5. v \in Nat /\ (\E i \in 0..m : v = r[i]) /\ \A i \in 0..m : v <= r[i] /\ r[i] \in Nat
  <2>1. \A i \in 0..m : r[i] \in V /\ r[i] \in Nat
    BY <1>1
  <2> QED
    BY <1>1, <1>3, <2>1
<1>6. v <= n <=> ~ (\A i \in 0..m : r[i] >= n + 1)
  <2> HIDE DEF V
  <2> QED
    BY <1>5
<1> QED
  BY <1>2, <1>4, <1>5, <1>6 DEF AtLeast

----------------------------------------------------------------------------
(* The row behind a word.                                                  *)

(* The rows on the way through word w, one for each of its beginnings.     *)
Through(u, s, w) ==
  /\ u \in [0..Len(w) -> Rows(Len(s))]
  /\ u[0] = InitialRow(Len(s))
  /\ \A i \in 1..Len(w) : u[i] = NextRow(u[i - 1], s, w[i])

RowOf(s, w) == (CHOOSE u : Through(u, s, w))[Len(w)]

(* There are such rows.                                                    *)
LEMMA ThroughExists ==
  ASSUME NEW s \in Name, NEW w \in Name
  PROVE  \E u : Through(u, s, w)
<1> DEFINE n == Len(w)
           m == Len(s)
           S == Rows(m)
           base == InitialRow(m)
           step == [i \in 1..n |-> [r \in S |-> NextRow(r, s, w[i])]]
<1>1. n \in Nat /\ m \in Nat
  BY LenProperties DEF Name
<1>2. base \in S
  BY <1>1, InitialRowIs
<1>3. \A r \in S : \A i \in 1..n : NextRow(r, s, w[i]) \in S
  BY <1>1, NextRowIs DEF Follows
<1>4. step \in Steps(1..n, S)
  BY <1>3 DEF Steps
<1>5. PICK u : Iterates(u, n, S, base, step)
  <2> HIDE DEF n, S, base, step
  <2> QED
    BY <1>1, <1>2, <1>4, IterationExists
<1>6. u \in [0..n -> S] /\ u[0] = base /\ \A i \in 1..n : u[i] = step[i][u[i - 1]]
  BY <1>5 DEF Iterates
<1>7. ASSUME NEW i \in 1..n PROVE u[i] = NextRow(u[i - 1], s, w[i])
  <2>1. u[i - 1] \in S
    BY <1>1, <1>6
  <2> QED
    BY <1>6, <2>1
<1> QED
  BY <1>6, <1>7 DEF Through

(* Rows depend on what was consumed and on nothing else.                   *)
LEMMA ThroughAgree ==
  ASSUME NEW s \in Name, NEW w \in Name, NEW x \in Name,
         NEW u, Through(u, s, w), NEW v, Through(v, s, x),
         NEW n \in Nat, n <= Len(w), n <= Len(x), \A i \in 1..n : w[i] = x[i]
  PROVE  \A i \in 0..n : u[i] = v[i]
<1> DEFINE T == {i \in 0..n : u[i] = v[i]}
<1>1. Len(w) \in Nat /\ Len(x) \in Nat
  BY LenProperties DEF Name
<1>2. 0 \in T
  BY DEF Through
<1>3. ASSUME NEW i \in 1..n, i - 1 \in T PROVE i \in T
  <2>1. i \in 1..Len(w) /\ i \in 1..Len(x) /\ w[i] = x[i]
    BY <1>1
  <2>2. u[i - 1] = v[i - 1]
    BY <1>3
  <2>3. u[i] = NextRow(u[i - 1], s, w[i]) /\ v[i] = NextRow(v[i - 1], s, x[i])
    BY <2>1 DEF Through
  <2> QED
    BY <2>1, <2>2, <2>3
<1>4. T \in SUBSET (0..n)
  OBVIOUS
<1>5. T = 0..n
  <2> HIDE DEF T
  <2> QED
    BY <1>2, <1>3, <1>4, UpToAll
<1> QED
  BY <1>5

(* One byte more makes one row more.                                       *)
LEMMA RowOfIs ==
  ASSUME NEW s \in Name, NEW w \in Name
  PROVE  /\ RowOf(s, w) \in Rows(Len(s)) /\ Smooth(RowOf(s, w), Len(s))
         /\ Len(w) = 0 => RowOf(s, w) = InitialRow(Len(s))
         /\ \A a \in Nat : RowOf(s, Append(w, a)) = NextRow(RowOf(s, w), s, a)
<1>1. Len(w) \in Nat /\ Len(s) \in Nat
  BY LenProperties DEF Name
<1> DEFINE u == CHOOSE u : Through(u, s, w)
<1>2. Through(u, s, w)
  BY ThroughExists
<1>3. RowOf(s, w) = u[Len(w)]
  BY DEF RowOf
<1> HIDE DEF u
<1>4. RowOf(s, w) \in Rows(Len(s))
  BY <1>1, <1>2, <1>3 DEF Through
<1>5. Len(w) = 0 => RowOf(s, w) = InitialRow(Len(s))
  BY <1>2, <1>3 DEF Through
<1>6. Smooth(RowOf(s, w), Len(s))
  <2>1. CASE Len(w) = 0
    BY <1>1, <1>5, <2>1, RowsSmooth
  <2>2. CASE Len(w) # 0
    <3>1. Len(w) \in 1..Len(w) /\ Len(w) - 1 \in 0..Len(w)
      BY <1>1, <2>2
    <3>2. u[Len(w)] = NextRow(u[Len(w) - 1], s, w[Len(w)]) /\ u[Len(w) - 1] \in Rows(Len(s))
      BY <1>2, <3>1 DEF Through
    <3> QED
      BY <1>1, <1>3, <3>2, RowsSmooth
  <2> QED
    BY <2>1, <2>2
<1>7. ASSUME NEW a \in Nat PROVE RowOf(s, Append(w, a)) = NextRow(RowOf(s, w), s, a)
  <2> DEFINE x == Append(w, a)
             v == CHOOSE v : Through(v, s, x)
             n == Len(w)
  <2>1. /\ x \in Name /\ Len(x) = n + 1 /\ x[n + 1] = a
        /\ \A i \in 1..n : x[i] = w[i]
    BY AppendProperties DEF Name
  <2>2. Through(v, s, x)
    BY <2>1, ThroughExists
  <2>3. RowOf(s, x) = v[Len(x)]
    BY DEF RowOf
  <2> HIDE DEF x, v, n
  <2>4. \A i \in 0..n : u[i] = v[i]
    <3>1. n \in Nat /\ n <= Len(w) /\ n <= Len(x) /\ \A i \in 1..n : w[i] = x[i]
      BY <1>1, <2>1 DEF n
    <3> QED
      BY <1>2, <2>1, <2>2, <3>1, ThroughAgree
  <2>5. v[n + 1] = NextRow(v[n], s, a)
    <3>1. n \in Nat /\ n + 1 \in 1..Len(x) /\ (n + 1) - 1 = n
      BY <1>1, <2>1 DEF n
    <3>2. v[n + 1] = NextRow(v[(n + 1) - 1], s, x[n + 1])
      BY <2>2, <3>1 DEF Through
    <3> QED
      BY <2>1, <3>1, <3>2
  <2>6. v[n] = u[n] /\ n \in Nat
    BY <1>1, <2>4 DEF n
  <2> QED
    BY <1>3, <2>1, <2>3, <2>5, <2>6 DEF x, n
<1> QED
  BY <1>4, <1>5, <1>6, <1>7

(* A byte more at the end.                                                 *)
LEMMA AppendConcat ==
  ASSUME NEW w \in Name, NEW o \in Name, NEW a \in Nat
  PROVE  w \o Append(o, a) = Append(w \o o, a)
<1>1. w \in Seq(Nat) /\ o \in Seq(Nat) /\ w \o o \in Seq(Nat)
  BY ConcatProperties DEF Name
<1>2. Append(o, a) = o \o <<a>> /\ Append(w \o o, a) = (w \o o) \o <<a>>
  BY <1>1, AppendIsConcat
<1> DEFINE b == <<a>>
<1>3. b \in Seq(Nat)
  OBVIOUS
<1> HIDE DEF b
<1>4. (w \o o) \o b = w \o (o \o b)
  BY <1>1, <1>3, ConcatAssociative
<1> QED
  BY <1>2, <1>4 DEF b

(* Behind the same bytes rows stay within one of each other, and a row     *)
(* that is nowhere below n leads to none that is.                          *)
LEMMA RowsFurther ==
  ASSUME NEW s \in Name, NEW x \in Name, NEW z \in Name, NEW y \in Name, NEW n \in Nat
  PROVE  /\ OneMore(RowOf(s, x), RowOf(s, z), Len(s)) =>
              OneMore(RowOf(s, x \o y), RowOf(s, z \o y), Len(s))
         /\ AtLeast(RowOf(s, x), n, Len(s)) => AtLeast(RowOf(s, x \o y), n, Len(s))
<1> DEFINE m == Len(s)
           On(k) == SubSeq(y, 1, k)
           X(k) == RowOf(s, x \o On(k))
           Z(k) == RowOf(s, z \o On(k))
           T == {k \in 0..Len(y) :
                   /\ OneMore(RowOf(s, x), RowOf(s, z), m) => OneMore(X(k), Z(k), m)
                   /\ AtLeast(RowOf(s, x), n, m) => AtLeast(X(k), n, m)}
<1>1. Len(y) \in Nat /\ m \in Nat
  BY LenProperties DEF Name
<1>2. 0 \in T
  <2>1. On(0) = <<>>
    BY SubSeqEmpty
  <2>2. x \o <<>> = x /\ z \o <<>> = z
    BY ConcatEmptySeq DEF Name
  <2>3. X(0) = RowOf(s, x) /\ Z(0) = RowOf(s, z)
    BY <2>1, <2>2
  <2> HIDE DEF X, Z
  <2> QED
    BY <1>1, <2>3
<1>3. ASSUME NEW k \in 1..Len(y), k - 1 \in T PROVE k \in T
  <2> DEFINE a == y[k]
             o == On(k - 1)
  <2>1. a \in Nat /\ o \in Name /\ x \o o \in Name /\ z \o o \in Name
    <3>1. a \in Nat
      BY ElementOfSeq DEF Name
    <3>2. o \in Name
      <4>1. k - 1 \in 0..Len(y)
        BY <1>1
      <4> QED
        BY <4>1, Cut
    <3> QED
      BY <3>1, <3>2, ConcatProperties DEF Name
  <2>2. On(k) = Append(o, a)
    <3>1. y \in Seq(Nat) /\ 1 \in 1..Len(y) /\ k \in 1..Len(y)
      BY <1>1 DEF Name
    <3>2. On(k) = o \o <<a>>
      BY <3>1, SubSeqRecursiveSecond
    <3> QED
      BY <2>1, <3>2, AppendIsConcat DEF Name
  <2>3. x \o On(k) = Append(x \o o, a) /\ z \o On(k) = Append(z \o o, a)
    <3> HIDE DEF o, a
    <3>1. x \o Append(o, a) = Append(x \o o, a) /\ z \o Append(o, a) = Append(z \o o, a)
      BY <2>1, AppendConcat
    <3> QED
      BY <2>2, <3>1
  <2> DEFINE p == X(k - 1)
             r == Z(k - 1)
  <2>4. X(k) = NextRow(p, s, a) /\ Z(k) = NextRow(r, s, a)
    <3> HIDE DEF On, a
    <3> QED
      BY <2>1, <2>3, RowOfIs
  <2>5. p \in Rows(m) /\ r \in Rows(m)
    BY <2>1, RowOfIs
  <2>6. /\ OneMore(RowOf(s, x), RowOf(s, z), m) => OneMore(p, r, m)
        /\ AtLeast(RowOf(s, x), n, m) => AtLeast(p, n, m)
    BY <1>3
  <2> HIDE DEF X, Z, p, r, On, a, m
  <2>7. /\ OneMore(p, r, m) => OneMore(NextRow(p, s, a), NextRow(r, s, a), m)
        /\ AtLeast(p, n, m) => AtLeast(NextRow(p, s, a), n, m)
    BY <1>1, <2>5, OneMoreKept, RowMinKept
  <2> QED
    BY <2>4, <2>6, <2>7
<1>4. T \in SUBSET (0..Len(y))
  OBVIOUS
<1>5. Len(y) \in T
  <2> HIDE DEF T
  <2>1. T = 0..Len(y)
    BY <1>1, <1>2, <1>3, <1>4, UpToAll
  <2> QED
    BY <1>1, <2>1
<1>6. On(Len(y)) = y
  BY SubSeqFull DEF Name
<1> QED
  BY <1>5, <1>6

----------------------------------------------------------------------------
(* Edits.                                                                  *)

(* The bytes of a word behind the first i.                                 *)
LEMMA Rest ==
  ASSUME NEW v \in Name, NEW i \in 0..Len(v)
  PROVE  /\ SubSeq(v, i + 1, Len(v)) \in Name
         /\ Len(SubSeq(v, i + 1, Len(v))) = Len(v) - i
         /\ \A j \in 1..(Len(v) - i) : SubSeq(v, i + 1, Len(v))[j] = v[i + j]
<1> DEFINE m == i + 1
           n == Len(v)
<1>1. Len(v) \in Nat /\ \A j \in 1..Len(v) : v[j] \in Nat
  BY LenProperties, ElementOfSeq DEF Name
<1>2. m \in Int /\ n \in Int /\ \A j \in m..n : v[j] \in Nat
  BY <1>1
<1> HIDE DEF m, n
<1>3. /\ SubSeq(v, m, n) \in Seq(Nat)
      /\ Len(SubSeq(v, m, n)) = IF m <= n THEN n - m + 1 ELSE 0
      /\ \A j \in 1..(n - m + 1) : SubSeq(v, m, n)[j] = v[m + j - 1]
  BY <1>2, SubSeqProperties
<1>4. /\ n - m + 1 = n - i /\ (IF m <= n THEN n - m + 1 ELSE 0) = n - i
      /\ \A j \in 1..(n - i) : m + j - 1 = i + j
  BY <1>1 DEF m, n
<1>5. /\ SubSeq(v, m, n) \in Name /\ Len(SubSeq(v, m, n)) = n - i
      /\ \A j \in 1..(n - i) : SubSeq(v, m, n)[j] = v[i + j]
  BY <1>3, <1>4 DEF Name
<1> QED
  BY <1>5 DEF m, n

(* A word in two parts.                                                    *)
LEMMA CutInTwo ==
  ASSUME NEW v \in Name, NEW i \in 0..Len(v)
  PROVE  /\ SubSeq(v, 1, i) \in Name /\ Len(SubSeq(v, 1, i)) = i
         /\ SubSeq(v, i + 1, Len(v)) \in Name
         /\ v = SubSeq(v, 1, i) \o SubSeq(v, i + 1, Len(v))
<1>1. v \in Seq(Nat) /\ Len(v) \in Nat /\ \A j \in 1..Len(v) : v[j] \in Nat
  BY LenProperties, ElementOfSeq DEF Name
<1>2. SubSeq(v, 1, i) \in Name /\ Len(SubSeq(v, 1, i)) = i
  BY Cut
<1>3. SubSeq(v, i + 1, Len(v)) \in Name
  BY Rest
<1>4. SubSeq(v, 1, i) \o SubSeq(v, i + 1, Len(v)) = SubSeq(v, 1, Len(v))
  <2> DEFINE n == Len(v)
  <2>1. 1 \in 1..(Len(v) + 1) /\ i \in (1 - 1)..Len(v) /\ n \in i..Len(v)
    BY <1>1
  <2> HIDE DEF n
  <2>2. SubSeq(v, 1, i) \o SubSeq(v, i + 1, n) = SubSeq(v, 1, n)
    BY <1>1, <2>1, ConcatAdjacentSubSeq
  <2> QED
    BY <2>2 DEF n
<1>5. SubSeq(v, 1, Len(v)) = v
  BY <1>1, SubSeqFull
<1> QED
  BY <1>2, <1>3, <1>4, <1>5

(* Two parts and the byte between them.                                    *)
LEMMA CutAtByte ==
  ASSUME NEW v \in Name, NEW i \in 1..Len(v)
  PROVE  /\ SubSeq(v, 1, i - 1) \in Name /\ Len(SubSeq(v, 1, i - 1)) = i - 1
         /\ v[i] \in Nat
         /\ SubSeq(v, i + 1, Len(v)) \in Name
         /\ v = Append(SubSeq(v, 1, i - 1), v[i]) \o SubSeq(v, i + 1, Len(v))
<1>1. v \in Seq(Nat) /\ Len(v) \in Nat /\ v[i] \in Nat
  BY LenProperties, ElementOfSeq DEF Name
<1>2. i \in 0..Len(v) /\ i - 1 \in 0..Len(v)
  BY <1>1
<1>3. SubSeq(v, i + 1, Len(v)) \in Name /\ v = SubSeq(v, 1, i) \o SubSeq(v, i + 1, Len(v))
  BY <1>2, CutInTwo
<1>4. SubSeq(v, 1, i - 1) \in Name /\ Len(SubSeq(v, 1, i - 1)) = i - 1
  <2> DEFINE k == i - 1
  <2>1. k \in 0..Len(v)
    BY <1>2
  <2> HIDE DEF k
  <2>2. SubSeq(v, 1, k) \in Name /\ Len(SubSeq(v, 1, k)) = k
    BY <2>1, CutInTwo
  <2> QED
    BY <2>2 DEF k
<1>5. SubSeq(v, 1, i) = Append(SubSeq(v, 1, i - 1), v[i])
  <2>1. 1 \in 1..Len(v) /\ i \in 1..Len(v)
    BY <1>1
  <2>2. SubSeq(v, 1, i) = SubSeq(v, 1, i - 1) \o <<v[i]>>
    BY <1>1, <2>1, SubSeqRecursiveSecond
  <2> QED
    BY <1>1, <1>4, <2>2, AppendIsConcat DEF Name
<1> QED
  BY <1>1, <1>3, <1>4, <1>5

(* What was put together comes apart again.                                *)
LEMMA CutBack ==
  ASSUME NEW x \in Name, NEW y \in Name
  PROVE  /\ x \o y \in Name /\ Len(x \o y) = Len(x) + Len(y)
         /\ Len(x) \in Nat /\ Len(y) \in Nat
         /\ SubSeq(x \o y, 1, Len(x)) = x
         /\ SubSeq(x \o y, Len(x) + 1, Len(x \o y)) = y
<1> DEFINE v == x \o y
<1>1. /\ x \in Seq(Nat) /\ y \in Seq(Nat) /\ Len(x) \in Nat /\ Len(y) \in Nat
      /\ v \in Seq(Nat) /\ Len(v) = Len(x) + Len(y)
      /\ \A i \in 1..Len(x) + Len(y) : v[i] = IF i <= Len(x) THEN x[i] ELSE y[i - Len(x)]
  BY LenProperties, ConcatProperties DEF Name
<1> HIDE DEF v
<1>2. \A j \in 1..Len(v) : v[j] \in Nat
  BY <1>1, ElementOfSeq
<1>3. SubSeq(v, 1, Len(x)) = x
  <2> DEFINE a == SubSeq(v, 1, Len(x))
  <2>1. Len(x) \in 0..Len(v) /\ v \in Name
    BY <1>1 DEF Name
  <2>2. a \in Name /\ Len(a) = Len(x) /\ \A i \in 1..Len(x) : a[i] = v[i]
    BY <2>1, Cut
  <2> HIDE DEF a
  <2>3. \A i \in 1..Len(x) : a[i] = x[i]
    BY <1>1, <2>2
  <2>4. a = x
    BY <2>2, <2>3, SeqEqual DEF Name
  <2> QED
    BY <2>4 DEF a
<1>4. SubSeq(v, Len(x) + 1, Len(v)) = y
  <2> DEFINE k == Len(x)
             a == SubSeq(v, k + 1, Len(v))
  <2>1. k \in 0..Len(v) /\ v \in Name
    BY <1>1 DEF Name
  <2> HIDE DEF k
  <2>2. a \in Name /\ Len(a) = Len(v) - k /\ \A j \in 1..(Len(v) - k) : a[j] = v[k + j]
    BY <2>1, Rest
  <2> HIDE DEF a
  <2>3. Len(a) = Len(y) /\ Len(v) - k = Len(y)
    BY <1>1, <2>2 DEF k
  <2>4. ASSUME NEW j \in 1..Len(y) PROVE a[j] = y[j]
    <3>1. /\ k + j \in 1..Len(x) + Len(y)
          /\ ~ (k + j <= Len(x)) /\ (k + j) - Len(x) = j
      BY <1>1 DEF k
    <3>2. v[k + j] = y[(k + j) - Len(x)]
      BY <1>1, <3>1
    <3> QED
      BY <2>2, <2>3, <3>1, <3>2
  <2>5. a = y
    BY <1>1, <2>2, <2>3, <2>4, SeqEqual DEF Name
  <2> QED
    BY <2>5 DEF a, k
<1>5. /\ v \in Name /\ Len(v) = Len(x) + Len(y) /\ Len(x) \in Nat /\ Len(y) \in Nat
      /\ SubSeq(v, 1, Len(x)) = x /\ SubSeq(v, Len(x) + 1, Len(v)) = y
  BY <1>1, <1>3, <1>4 DEF Name
<1> QED
  BY <1>5 DEF v

(* Bytes are numbers, and all bytes of terms and of queries are among them.*)
LEMMA BytesAre ==
  /\ Bytes \in SUBSET Nat
  /\ \A t \in Terms : \A i \in 1..Len(t) : t[i] \in Bytes
  /\ \A q \in Queries : \A i \in 1..Len(q.text) : q.text[i] \in Bytes
<1> DEFINE W == Terms \cup {q.text : q \in Queries}
<1>1. \A t \in W : t \in Seq(Nat)
  BY TrieAssumption, SearchAssumption
<1> HIDE DEF W
<1>2. \A t \in W : DOMAIN t = 1..Len(t) /\ \A i \in 1..Len(t) : t[i] \in Nat
  BY <1>1, LenProperties, ElementOfSeq
<1>3. Bytes = UNION {{t[i] : i \in DOMAIN t} : t \in W}
  BY DEF Bytes, W
<1>4. Bytes \in SUBSET Nat
  BY <1>2, <1>3
<1>5. \A t \in W : \A i \in 1..Len(t) : t[i] \in Bytes
  BY <1>2, <1>3
<1> QED
  BY <1>4, <1>5 DEF W

(* u is v with a byte of it left out, one more put in, or another in its   *)
(* place.                                                                  *)
LeftOut(u, v, x, y) == \E a \in Nat : v = Append(x, a) \o y /\ u = x \o y
PutIn(u, v, x, y) == \E b \in Bytes : v = x \o y /\ u = Append(x, b) \o y
Replaced(u, v, x, y) ==
  \E a \in Nat, b \in Bytes : v = Append(x, a) \o y /\ u = Append(x, b) \o y

Edited(u, v) ==
  \E x, y \in Name : LeftOut(u, v, x, y) \/ PutIn(u, v, x, y) \/ Replaced(u, v, x, y)

(* The three operations at a place in a word.                              *)
LEMMA EditAt ==
  ASSUME NEW x \in Name, NEW y \in Name, NEW a \in Nat, NEW b \in Nat
  PROVE  /\ Len(x) + 1 \in 1..Len(Append(x, a) \o y)
         /\ RemoveAt(Append(x, a) \o y, Len(x) + 1) = x \o y
         /\ ReplaceAt(Append(x, a) \o y, Len(x) + 1, b) = Append(x, b) \o y
<1> DEFINE c == Append(x, a)
           d == Append(x, b)
           n == Len(x) + 1
           v == c \o y
<1>1. /\ c \in Seq(Nat) /\ Len(c) = n /\ c[n] = a /\ d \in Seq(Nat) /\ Len(d) = n /\ d[n] = b
      /\ \A i \in 1..Len(x) : c[i] = d[i]
  BY AppendProperties DEF Name
<1>2. n \in Nat \ {0} /\ n - 1 = Len(x) /\ Len(x) \in Nat /\ y \in Seq(Nat)
  BY LenProperties DEF Name
<1>3. /\ v \in Name /\ Len(v) = n + Len(y) /\ Len(y) \in Nat
      /\ SubSeq(v, 1, n) = c /\ SubSeq(v, n + 1, Len(v)) = y
  <2>1. c \in Name
    BY <1>1 DEF Name
  <2> HIDE DEF c, n
  <2>2. /\ c \o y \in Name /\ Len(c \o y) = Len(c) + Len(y) /\ Len(y) \in Nat
        /\ SubSeq(c \o y, 1, Len(c)) = c
        /\ SubSeq(c \o y, Len(c) + 1, Len(c \o y)) = y
    BY <2>1, CutBack
  <2> QED
    BY <1>1, <2>2
<1>4. \A j \in 1..n + Len(y) : v[j] = IF j <= n THEN c[j] ELSE y[j - n]
  <2>1. c \in Seq(Nat) /\ Len(c) = n
    BY <1>1
  <2> HIDE DEF c, n
  <2>2. /\ c \o y \in Seq(Nat) /\ Len(c \o y) = Len(c) + Len(y)
        /\ \A j \in 1..Len(c) + Len(y) : (c \o y)[j] = IF j <= Len(c) THEN c[j] ELSE y[j - Len(c)]
    BY <1>2, <2>1, ConcatProperties
  <2> QED
    BY <2>1, <2>2
<1>5. n \in 1..Len(v)
  <2> HIDE DEF n, v
  <2> QED
    BY <1>2, <1>3
<1>6. SubSeq(v, 1, n - 1) = x
  <2> DEFINE z == SubSeq(v, 1, n - 1)
             e == v[n]
  <2>1. z \in Name /\ e \in Nat /\ v = Append(z, e) \o y
    <3> HIDE DEF v, n
    <3>1. z \in Name /\ v[n] \in Nat /\ v = Append(z, v[n]) \o SubSeq(v, n + 1, Len(v))
      BY <1>3, <1>5, CutAtByte
    <3> QED
      BY <1>3, <3>1
  <2> HIDE DEF z, e
  <2> DEFINE p == Append(z, e)
  <2>2. p \in Seq(Nat) /\ p \o y = c \o y
    BY <2>1, AppendProperties DEF Name
  <2>3. p = c
    <3> HIDE DEF p, c
    <3> QED
      BY <1>1, <1>2, <2>2, ConcatSimplifications
  <2>4. z = x
    BY <2>1, <2>3, AppendInjective DEF Name
  <2> QED
    BY <2>4 DEF z
<1>7. RemoveAt(v, n) = x \o y
  BY <1>3, <1>6 DEF RemoveAt
<1>8. ReplaceAt(v, n, b) = d \o y
  <2> DEFINE r == ReplaceAt(v, n, b)
             t == d \o y
  <2>1. /\ r \in Seq(Nat) /\ Len(r) = Len(v)
        /\ \A j \in 1..Len(v) : r[j] = IF j = n THEN b ELSE v[j]
    <3>1. v \in Seq(Nat)
      BY <1>3 DEF Name
    <3> HIDE DEF v, n
    <3>2. /\ [v EXCEPT ![n] = b] \in Seq(Nat) /\ Len([v EXCEPT ![n] = b]) = Len(v)
          /\ \A j \in 1..Len(v) : [v EXCEPT ![n] = b][j] = IF j = n THEN b ELSE v[j]
      BY <1>5, <3>1, ExceptSeq
    <3> QED
      BY <3>2 DEF ReplaceAt
  <2>2. /\ t \in Seq(Nat) /\ Len(t) = n + Len(y)
        /\ \A j \in 1..n + Len(y) : t[j] = IF j <= n THEN d[j] ELSE y[j - n]
    <3>1. d \in Seq(Nat) /\ Len(d) = n
      BY <1>1
    <3> HIDE DEF d, n
    <3>2. /\ d \o y \in Seq(Nat) /\ Len(d \o y) = Len(d) + Len(y)
          /\ \A j \in 1..Len(d) + Len(y) : (d \o y)[j] = IF j <= Len(d) THEN d[j] ELSE y[j - Len(d)]
      BY <1>2, <3>1, ConcatProperties
    <3> QED
      BY <3>1, <3>2
  <2> HIDE DEF r, t, v, c, d, n
  <2>3. ASSUME NEW j \in 1..n + Len(y) PROVE r[j] = t[j]
    <3>1. /\ r[j] = IF j = n THEN b ELSE v[j]
          /\ t[j] = IF j <= n THEN d[j] ELSE y[j - n]
          /\ v[j] = IF j <= n THEN c[j] ELSE y[j - n]
      BY <1>3, <1>4, <2>1, <2>2
    <3>2. j = n \/ j \in 1..Len(x) \/ j > n
      BY <1>2, <1>3
    <3>3. j \in 1..Len(x) => j <= n /\ j # n /\ c[j] = d[j]
      BY <1>1, <1>2
    <3>4. j > n => j # n /\ ~ (j <= n)
      BY <1>2, <1>3
    <3>5. j = n => t[j] = b
      BY <1>1, <1>2, <3>1
    <3> QED
      BY <3>1, <3>2, <3>3, <3>4, <3>5
  <2>4. r = t
    BY <1>3, <2>1, <2>2, <2>3, SeqEqual
  <2> QED
    BY <2>4 DEF r, t
<1> QED
  BY <1>5, <1>7, <1>8

(* The edits of the specification are these.                               *)
LEMMA EditsAre ==
  ASSUME NEW v \in Name, NEW u
  PROVE  u \in Edits(v) <=> Edited(u, v)
<1>1. Bytes \in SUBSET Nat /\ Len(v) \in Nat
  BY BytesAre, LenProperties DEF Name
<1>2. ASSUME NEW i \in 1..Len(v)
      PROVE  /\ Edited(RemoveAt(v, i), v)
             /\ \A b \in Bytes : Edited(ReplaceAt(v, i, b), v)
  <2> DEFINE x == SubSeq(v, 1, i - 1)
             y == SubSeq(v, i + 1, Len(v))
             a == v[i]
  <2>1. /\ x \in Name /\ Len(x) = i - 1 /\ a \in Nat /\ y \in Name
        /\ v = Append(x, a) \o y
    BY CutAtByte
  <2> HIDE DEF x, y, a
  <2>2. i = Len(x) + 1
    BY <2>1
  <2>3. RemoveAt(v, i) = x \o y /\ \A b \in Nat : ReplaceAt(v, i, b) = Append(x, b) \o y
    <3>1. ASSUME NEW b \in Nat
          PROVE  /\ RemoveAt(Append(x, a) \o y, Len(x) + 1) = x \o y
                 /\ ReplaceAt(Append(x, a) \o y, Len(x) + 1, b) = Append(x, b) \o y
      <4>1. x \in Name /\ y \in Name /\ a \in Nat
        BY <2>1
      <4>2. ReplaceAt(Append(x, a) \o y, Len(x) + 1, b) = Append(x, b) \o y
        BY <4>1, EditAt
      <4>3. RemoveAt(Append(x, a) \o y, Len(x) + 1) = x \o y
        BY <4>1, EditAt
      <4> QED
        BY <4>2, <4>3
    <3> QED
      BY <2>1, <2>2, <3>1
  <2>4. LeftOut(RemoveAt(v, i), v, x, y)
    BY <2>1, <2>3 DEF LeftOut
  <2>5. \A b \in Bytes : Replaced(ReplaceAt(v, i, b), v, x, y)
    BY <1>1, <2>1, <2>3 DEF Replaced
  <2> QED
    BY <2>1, <2>4, <2>5 DEF Edited
<1>3. ASSUME NEW i \in 1..(Len(v) + 1), NEW b \in Bytes PROVE Edited(InsertAt(v, i, b), v)
  <2> DEFINE k == i - 1
             x == SubSeq(v, 1, k)
             y == SubSeq(v, k + 1, Len(v))
  <2>1. k \in 0..Len(v) /\ i = k + 1 /\ b \in Nat
    BY <1>1
  <2> HIDE DEF k
  <2>2. x \in Name /\ y \in Name /\ v = x \o y
    BY <2>1, CutInTwo
  <2>3. InsertAt(v, i, b) = x \o <<b>> \o y
    BY <2>1 DEF InsertAt, k
  <2> HIDE DEF x, y
  <2>4. Append(x, b) = x \o <<b>>
    BY <2>1, <2>2, AppendIsConcat DEF Name
  <2>5. PutIn(InsertAt(v, i, b), v, x, y)
    BY <2>2, <2>3, <2>4 DEF PutIn
  <2> QED
    BY <2>2, <2>5 DEF Edited
<1>4. ASSUME NEW x \in Name, NEW y \in Name, LeftOut(u, v, x, y) PROVE u \in Edits(v)
  <2>1. PICK a \in Nat : v = Append(x, a) \o y /\ u = x \o y
    BY <1>4 DEF LeftOut
  <2>2. /\ Len(x) + 1 \in 1..Len(Append(x, a) \o y)
        /\ RemoveAt(Append(x, a) \o y, Len(x) + 1) = x \o y
    BY EditAt
  <2>3. Len(x) + 1 \in 1..Len(v) /\ RemoveAt(v, Len(x) + 1) = u
    BY <2>1, <2>2
  <2> QED
    BY <2>3 DEF Edits
<1>5. ASSUME NEW x \in Name, NEW y \in Name, Replaced(u, v, x, y) PROVE u \in Edits(v)
  <2>1. PICK a \in Nat, b \in Bytes : v = Append(x, a) \o y /\ u = Append(x, b) \o y
    BY <1>5 DEF Replaced
  <2>2. /\ Len(x) + 1 \in 1..Len(Append(x, a) \o y)
        /\ ReplaceAt(Append(x, a) \o y, Len(x) + 1, b) = Append(x, b) \o y
    BY <1>1, EditAt
  <2>3. Len(x) + 1 \in 1..Len(v) /\ ReplaceAt(v, Len(x) + 1, b) = u
    BY <2>1, <2>2
  <2> QED
    BY <2>3 DEF Edits
<1>6. ASSUME NEW x \in Name, NEW y \in Name, PutIn(u, v, x, y) PROVE u \in Edits(v)
  <2>1. PICK b \in Bytes : v = x \o y /\ u = Append(x, b) \o y
    BY <1>6 DEF PutIn
  <2> DEFINE k == Len(x)
             i == k + 1
  <2>2. /\ Len(v) = k + Len(y) /\ k \in Nat /\ Len(y) \in Nat
        /\ SubSeq(v, 1, k) = x /\ SubSeq(v, k + 1, Len(v)) = y
    <3>1. /\ Len(x \o y) = Len(x) + Len(y) /\ Len(x) \in Nat /\ Len(y) \in Nat
          /\ SubSeq(x \o y, 1, Len(x)) = x
          /\ SubSeq(x \o y, Len(x) + 1, Len(x \o y)) = y
      BY CutBack
    <3> QED
      BY <2>1, <3>1
  <2>3. Append(x, b) = x \o <<b>>
    BY <1>1, AppendIsConcat DEF Name
  <2>4. i \in 1..Len(v) + 1 /\ i - 1 = k
    <3> HIDE DEF k
    <3> QED
      BY <2>2
  <2> HIDE DEF k
  <2>5. InsertAt(v, i, b) = u
    BY <2>1, <2>2, <2>3, <2>4 DEF InsertAt
  <2> HIDE DEF i
  <2> QED
    BY <2>4, <2>5 DEF Edits
<1>7. u \in Edits(v) => Edited(u, v)
  BY <1>2, <1>3 DEF Edits
<1>8. Edited(u, v) => u \in Edits(v)
  BY <1>4, <1>5, <1>6 DEF Edited
<1> QED
  BY <1>7, <1>8

(* An edit costs one at most.                                              *)
LEMMA EditCost ==
  ASSUME NEW s \in Name, NEW v \in Name, NEW u \in Edits(v)
  PROVE  u \in Name /\ OneMore(RowOf(s, u), RowOf(s, v), Len(s))
<1>1. Edited(u, v)
  BY EditsAre
<1>2. PICK x \in Name, y \in Name : LeftOut(u, v, x, y) \/ PutIn(u, v, x, y) \/ Replaced(u, v, x, y)
  BY <1>1 DEF Edited
<1> DEFINE m == Len(s)
           r == RowOf(s, x)
           To(z) == Append(x, z)
<1>3. m \in Nat /\ r \in Rows(m) /\ Smooth(r, m)
  BY LenProperties, RowOfIs DEF Name
<1>4. \A z \in Nat : To(z) \in Name /\ RowOf(s, To(z)) = NextRow(r, s, z)
  BY RowOfIs, AppendProperties DEF Name
<1>5. Bytes \in SUBSET Nat
  BY BytesAre
<1> HIDE DEF r, m
<1>6. /\ \A z \in Nat : OneMore(RowOf(s, To(z)), r, m) /\ OneMore(r, RowOf(s, To(z)), m)
      /\ \A z, w \in Nat : OneMore(RowOf(s, To(z)), RowOf(s, To(w)), m)
  <2> HIDE DEF To
  <2> QED
    BY <1>3, <1>4, OneEditMore
<1>7. \A p, t \in Name : p \o y \in Name /\
        (OneMore(RowOf(s, p), RowOf(s, t), m) =>
           OneMore(RowOf(s, p \o y), RowOf(s, t \o y), m))
  <2> SUFFICES ASSUME NEW p \in Name, NEW t \in Name
               PROVE  p \o y \in Name /\
                 (OneMore(RowOf(s, p), RowOf(s, t), m) =>
                    OneMore(RowOf(s, p \o y), RowOf(s, t \o y), m))
    OBVIOUS
  <2>1. p \o y \in Name
    BY ConcatProperties DEF Name
  <2>2. 0 \in Nat /\ m = Len(s)
    BY DEF m
  <2> QED
    BY <2>1, <2>2, RowsFurther
<1>8. CASE LeftOut(u, v, x, y)
  <2>1. PICK a \in Nat : v = To(a) \o y /\ u = x \o y
    BY <1>8 DEF LeftOut
  <2> HIDE DEF To
  <2>2. OneMore(r, RowOf(s, To(a)), m) /\ To(a) \in Name
    BY <1>4, <1>6
  <2> QED
    BY <1>7, <2>1, <2>2 DEF r, m
<1>9. CASE PutIn(u, v, x, y)
  <2>1. PICK b \in Bytes : v = x \o y /\ u = To(b) \o y
    BY <1>9 DEF PutIn
  <2> HIDE DEF To
  <2>2. OneMore(RowOf(s, To(b)), r, m) /\ To(b) \in Name
    BY <1>4, <1>5, <1>6
  <2> QED
    BY <1>7, <2>1, <2>2 DEF r, m
<1>10. CASE Replaced(u, v, x, y)
  <2>1. PICK a \in Nat, b \in Bytes : v = To(a) \o y /\ u = To(b) \o y
    BY <1>10 DEF Replaced
  <2> HIDE DEF To
  <2>2. OneMore(RowOf(s, To(b)), RowOf(s, To(a)), m) /\ To(a) \in Name /\ To(b) \in Name
    BY <1>4, <1>5, <1>6
  <2> QED
    BY <1>7, <2>1, <2>2 DEF m
<1> QED
  BY <1>2, <1>8, <1>9, <1>10

----------------------------------------------------------------------------
(* The words near a part of a query.                                       *)

FuzzyParts == UNION {Prefixes(q.text) : q \in {r \in Queries : r.fuzzy}}

(* What one more edit makes of a set of words.                             *)
Reach(W) == W \cup UNION {Edits(w) : w \in W}

Around(near, s) ==
  /\ near \in [Budgets -> SUBSET Name] /\ near[0] = {s}
  /\ \A n \in 1..MaxBudget : near[n] = Reach(near[n - 1])

(* Near is defined from one budget to the next.                            *)
LEMMA NearIs ==
  ASSUME NEW s \in FuzzyParts
  PROVE  s \in Name /\ Around(Near[s], s)
<1> DEFINE N == MaxBudget
           S == SUBSET Name
           base == {s}
           step == [i \in 1..N |-> [W \in S |-> Reach(W)]]
           Is(f) == f = [n \in Budgets |->
                           IF n = 0 THEN {s}
                           ELSE f[n - 1] \cup UNION {Edits(w) : w \in f[n - 1]}]
<1>1. s \in Name /\ N \in Nat
  <2>1. PICK q \in Queries : s \in Prefixes(q.text)
    BY DEF FuzzyParts
  <2>2. q.text \in Name
    BY SearchAssumption DEF Name
  <2>3. PICK l \in 0..Len(q.text) : s = SubSeq(q.text, 1, l)
    BY <2>1 DEF Prefixes
  <2> DEFINE t == q.text
  <2> HIDE DEF t
  <2>4. SubSeq(t, 1, l) \in Name
    BY <2>2, <2>3, Cut DEF t
  <2> QED
    BY <2>3, <2>4, SearchAssumption DEF t
<1>2. base \in S
  BY <1>1
<1>3. \A W \in S : Reach(W) \in S
  <2> SUFFICES ASSUME NEW W \in S, NEW w \in W, NEW u \in Edits(w) PROVE u \in Name
    BY DEF Reach
  <2> QED
    BY <1>1, EditCost
<1>4. step \in Steps(1..N, S)
  BY <1>3 DEF Steps
<1>5. PICK f : Iterates(f, N, S, base, step)
  <2> HIDE DEF N, S, base, step
  <2> QED
    BY <1>1, <1>2, <1>4, IterationExists
<1>6. f \in [0..N -> S] /\ f[0] = base /\ \A i \in 1..N : f[i] = Reach(f[i - 1])
  <2>1. f \in [0..N -> S] /\ f[0] = base /\ \A i \in 1..N : f[i] = step[i][f[i - 1]]
    BY <1>5 DEF Iterates
  <2>2. \A i \in 1..N : f[i - 1] \in S
    BY <1>1, <2>1
  <2> QED
    BY <2>1, <2>2
<1>7. Is(f)
  <2>1. \A n \in 0..N : f[n] = IF n = 0 THEN {s}
                               ELSE f[n - 1] \cup UNION {Edits(w) : w \in f[n - 1]}
    BY <1>6 DEF Reach
  <2> QED
    BY <1>6, <2>1 DEF Budgets
<1> DEFINE near == CHOOSE g : Is(g)
<1>8. Is(near)
  BY <1>7
<1>9. Near[s] = near
  <2>1. s \in UNION {Prefixes(q.text) : q \in {r \in Queries : r.fuzzy}}
    BY DEF FuzzyParts
  <2> QED
    BY <2>1 DEF Near
<1> HIDE DEF near
<1>10. near[0] = {s} /\ \A n \in 1..N : near[n] = Reach(near[n - 1])
  BY <1>1, <1>8 DEF Reach, Budgets
<1> DEFINE T == {n \in 0..N : near[n] \in S}
<1>11. T = 0..N
  <2>1. 0 \in T
    BY <1>1, <1>10
  <2>2. ASSUME NEW n \in 1..N, n - 1 \in T PROVE n \in T
    BY <1>3, <1>10, <2>2
  <2>3. T \in SUBSET (0..N)
    OBVIOUS
  <2> HIDE DEF T
  <2> QED
    BY <1>1, <2>1, <2>2, <2>3, UpToAll
<1>12. near \in [Budgets -> S]
  <2>1. near = [n \in 0..N |-> near[n]]
    BY <1>8 DEF Budgets
  <2>2. \A n \in 0..N : near[n] \in S
    BY <1>11
  <2> HIDE DEF N
  <2>3. Budgets = 0..N
    BY DEF Budgets, N
  <2> QED
    BY <2>1, <2>2, <2>3
<1> QED
  BY <1>1, <1>9, <1>10, <1>12 DEF Around

(* A text that is searched for with typos.                                 *)
IsTypo(s) == \E q \in Queries : q.fuzzy /\ s = q.text

Part(s, j) == SubSeq(s, 1, j)

(* Its parts, each a byte longer than the one before.                      *)
LEMMA PartsAre ==
  ASSUME NEW s, IsTypo(s)
  PROVE  /\ s \in Name /\ Len(s) \in Nat
         /\ \A j \in 0..Len(s) : Part(s, j) \in FuzzyParts /\ Part(s, j) \in Name
         /\ Part(s, 0) = <<>> /\ Part(s, Len(s)) = s
         /\ \A j \in 1..Len(s) : s[j] \in Bytes /\ s[j] \in Nat
                                 /\ Part(s, j) = Append(Part(s, j - 1), s[j])
<1>1. PICK q \in Queries : q.fuzzy /\ s = q.text
  BY DEF IsTypo
<1>2. s \in Seq(Nat) /\ s \in Name /\ Len(s) \in Nat
  BY <1>1, SearchAssumption, LenProperties DEF Name
<1>3. ASSUME NEW j \in 0..Len(s) PROVE Part(s, j) \in FuzzyParts /\ Part(s, j) \in Name
  <2>1. Part(s, j) \in Prefixes(q.text)
    BY <1>1 DEF Part, Prefixes
  <2>2. Part(s, j) \in Name
    BY <1>2, Cut DEF Part
  <2> QED
    BY <1>1, <2>1, <2>2 DEF FuzzyParts
<1>4. Part(s, 0) = <<>> /\ Part(s, Len(s)) = s
  BY <1>2, SubSeqEmpty, SubSeqFull DEF Part
<1>5. ASSUME NEW j \in 1..Len(s)
      PROVE  s[j] \in Bytes /\ s[j] \in Nat /\ Part(s, j) = Append(Part(s, j - 1), s[j])
  <2>1. s[j] \in Bytes /\ s[j] \in Nat
    BY <1>1, BytesAre
  <2>2. j - 1 \in 0..Len(s) /\ 1 \in 1..Len(s)
    BY <1>2
  <2>3. SubSeq(s, 1, j) = SubSeq(s, 1, j - 1) \o <<s[j]>>
    BY <1>2, <2>2, SubSeqRecursiveSecond
  <2>4. Part(s, j - 1) \in Seq(Nat)
    BY <1>3, <2>2 DEF Name
  <2> QED
    BY <2>1, <2>3, <2>4, AppendIsConcat DEF Part
<1> QED
  BY <1>2, <1>3, <1>4, <1>5

(* What is near stays near, and an edit leads one further.                 *)
LEMMA NearStep ==
  ASSUME NEW s \in FuzzyParts, NEW n \in Budgets
  PROVE  /\ Near[s][n] \in SUBSET Name /\ s \in Near[s][n] /\ Near[s][0] = {s}
         /\ n > 0 => /\ n - 1 \in Budgets /\ Near[s][n] = Reach(Near[s][n - 1])
                     /\ Near[s][n - 1] \subseteq Near[s][n]
                     /\ \A w \in Near[s][n - 1] : Edits(w) \subseteq Near[s][n]
<1>1. MaxBudget \in Nat /\ Budgets = 0..MaxBudget
  BY SearchAssumption DEF Budgets
<1> DEFINE near == Near[s]
<1>2. /\ near \in [Budgets -> SUBSET Name] /\ near[0] = {s}
      /\ \A k \in 1..MaxBudget : near[k] = Reach(near[k - 1])
  BY NearIs DEF Around
<1> HIDE DEF near
<1>3. \A k \in 1..MaxBudget : /\ near[k - 1] \subseteq near[k]
                              /\ \A w \in near[k - 1] : Edits(w) \subseteq near[k]
  BY <1>2 DEF Reach
<1> DEFINE T == {k \in 0..n : s \in near[k]}
<1>4. T = 0..n
  <2>1. 0 \in T
    BY <1>1, <1>2
  <2>2. ASSUME NEW k \in 1..n, k - 1 \in T PROVE k \in T
    <3>1. k \in 1..MaxBudget
      BY <1>1
    <3> QED
      BY <1>3, <2>2, <3>1
  <2>3. T \in SUBSET (0..n) /\ n \in Nat
    BY <1>1
  <2> HIDE DEF T
  <2> QED
    BY <2>1, <2>2, <2>3, UpToAll
<1>5. s \in near[n]
  BY <1>1, <1>4
<1>6. n > 0 => n - 1 \in Budgets /\ n \in 1..MaxBudget
  BY <1>1
<1> QED
  BY <1>2, <1>3, <1>5, <1>6 DEF near

(* Each part of a text costs nothing against itself.                       *)
LEMMA Diagonal ==
  ASSUME NEW s, IsTypo(s), NEW j \in 0..Len(s)
  PROVE  RowOf(s, Part(s, j))[j] = 0
<1> DEFINE m == Len(s)
           r(i) == RowOf(s, Part(s, i))
           T == {i \in 0..m : r(i)[i] = 0}
<1>1. /\ s \in Name /\ m \in Nat /\ Part(s, 0) = <<>>
      /\ \A i \in 0..m : Part(s, i) \in Name
      /\ \A i \in 1..m : Part(s, i) = Append(Part(s, i - 1), s[i]) /\ s[i] \in Nat
  BY PartsAre
<1>2. 0 \in T
  <2>1. <<>> \in Name /\ Len(<<>>) = 0
    BY DEF Name
  <2>2. RowOf(s, <<>>) = InitialRow(m)
    BY <1>1, <2>1, RowOfIs
  <2>3. r(0)[0] = 0
    BY <1>1, <2>2, InitialRowIs
  <2> QED
    BY <1>1, <2>3
<1>3. ASSUME NEW i \in 1..m, i - 1 \in T PROVE i \in T
  <2> DEFINE a == r(i - 1)
             b == r(i)
  <2>1. i - 1 \in 0..m /\ i \in 0..m /\ a[i - 1] = 0
    BY <1>1, <1>3
  <2>2. a \in Rows(m) /\ b = NextRow(a, s, s[i])
    <3> DEFINE p == Part(s, i - 1)
               c == s[i]
    <3>1. p \in Name /\ c \in Nat /\ Part(s, i) = Append(p, c)
      BY <1>1, <2>1
    <3> HIDE DEF p, c
    <3>2. RowOf(s, p) \in Rows(m) /\ RowOf(s, Append(p, c)) = NextRow(RowOf(s, p), s, c)
      BY <1>1, <3>1, RowOfIs
    <3> QED
      BY <3>1, <3>2 DEF p, c
  <2> HIDE DEF a, b
  <2>3. Follows(a, b, s, s[i], m)
    BY <1>1, <2>2, NextRowIs
  <2>4. b[i] <= a[i - 1] + Cost(s, i, s[i]) /\ b[i] \in Nat
    BY <2>1, <2>3 DEF Follows, Rows
  <2>5. b[i] = 0
    BY <2>1, <2>4 DEF Cost
  <2> QED
    BY <2>1, <2>5 DEF b
<1>4. T \in SUBSET (0..m)
  OBVIOUS
<1>5. T = 0..m
  <2> HIDE DEF T
  <2> QED
    BY <1>1, <1>2, <1>3, <1>4, UpToAll
<1> QED
  BY <1>5

(* What n edits lead to costs n at most.                                   *)
LEMMA NearCosts ==
  ASSUME NEW s, IsTypo(s), NEW j \in 0..Len(s), NEW n \in Budgets,
         NEW w \in Near[Part(s, j)][n]
  PROVE  RowOf(s, w)[j] <= n
<1> DEFINE near == Near[Part(s, j)]
           T == {k \in 0..n : \A x \in near[k] : RowOf(s, x)[j] <= k}
<1>1. /\ s \in Name /\ Len(s) \in Nat /\ Part(s, j) \in FuzzyParts
      /\ n \in Nat /\ \A k \in 0..n : k \in Budgets
  BY PartsAre, SearchAssumption DEF Budgets
<1>2. \A k \in 0..n : near[k] \in SUBSET Name
  BY <1>1, NearStep
<1>3. \A x \in Name : RowOf(s, x)[j] \in Nat
  BY <1>1, RowOfIs DEF Rows
<1>4. 0 \in T
  <2>1. near[0] = {Part(s, j)}
    BY <1>1, NearStep
  <2>2. RowOf(s, Part(s, j))[j] = 0
    BY Diagonal
  <2> HIDE DEF near
  <2> QED
    BY <1>1, <2>1, <2>2
<1>5. ASSUME NEW k \in 1..n, k - 1 \in T PROVE k \in T
  <2>1. k - 1 \in 0..n /\ k \in 0..n /\ \A x \in near[k - 1] : RowOf(s, x)[j] <= k - 1
    BY <1>5
  <2>2. near[k] = Reach(near[k - 1])
    <3>1. k > 0 /\ k \in Budgets
      BY <1>1
    <3> QED
      BY <1>1, <3>1, NearStep
  <2> HIDE DEF near
  <2>3. ASSUME NEW x \in near[k - 1], NEW u \in Edits(x) PROVE RowOf(s, u)[j] <= k
    <3>1. x \in Name
      BY <1>2, <2>1
    <3>2. u \in Name /\ OneMore(RowOf(s, u), RowOf(s, x), Len(s))
      BY <1>1, <3>1, EditCost
    <3>3. RowOf(s, u)[j] <= RowOf(s, x)[j] + 1
      BY <3>2 DEF OneMore
    <3>4. RowOf(s, x)[j] <= k - 1 /\ RowOf(s, x)[j] \in Nat /\ RowOf(s, u)[j] \in Nat
      BY <1>3, <2>1, <3>1, <3>2
    <3> QED
      BY <3>3, <3>4
  <2>4. ASSUME NEW x \in near[k - 1] PROVE RowOf(s, x)[j] <= k
    <3>1. RowOf(s, x)[j] <= k - 1 /\ RowOf(s, x)[j] \in Nat
      BY <1>2, <1>3, <2>1
    <3> QED
      BY <3>1
  <2>5. \A x \in near[k] : RowOf(s, x)[j] <= k
    BY <2>2, <2>3, <2>4 DEF Reach
  <2> QED
    BY <2>1, <2>5
<1>6. T \in SUBSET (0..n)
  OBVIOUS
<1>7. n \in T
  <2> HIDE DEF T
  <2>1. T = 0..n
    BY <1>1, <1>4, <1>5, <1>6, UpToAll
  <2> QED
    BY <1>1, <2>1
<1> QED
  BY <1>7

(* A byte that both end with changes nothing.                              *)
LEMMA EditAppended ==
  ASSUME NEW v \in Name, NEW u \in Edits(v), NEW b \in Nat
  PROVE  Append(u, b) \in Edits(Append(v, b))
<1>1. Append(v, b) \in Name
  BY AppendProperties DEF Name
<1>2. Edited(u, v)
  BY EditsAre
<1>3. PICK x \in Name, y \in Name : LeftOut(u, v, x, y) \/ PutIn(u, v, x, y) \/ Replaced(u, v, x, y)
  BY <1>2 DEF Edited
<1> DEFINE z == Append(y, b)
<1>4. z \in Name /\ \A p \in Name : Append(p \o y, b) = p \o z
  BY AppendConcat, AppendProperties DEF Name
<1>5. Bytes \in SUBSET Nat /\ \A a \in Nat : Append(x, a) \in Name
  BY BytesAre, AppendProperties DEF Name
<1> HIDE DEF z
<1>6. CASE LeftOut(u, v, x, y)
  <2>1. PICK a \in Nat : v = Append(x, a) \o y /\ u = x \o y
    BY <1>6 DEF LeftOut
  <2>2. Append(v, b) = Append(x, a) \o z /\ Append(u, b) = x \o z
    BY <1>4, <1>5, <2>1
  <2>3. LeftOut(Append(u, b), Append(v, b), x, z)
    BY <2>2 DEF LeftOut
  <2> QED
    BY <1>1, <1>4, <2>3, EditsAre DEF Edited
<1>7. CASE PutIn(u, v, x, y)
  <2>1. PICK a \in Bytes : v = x \o y /\ u = Append(x, a) \o y
    BY <1>7 DEF PutIn
  <2>2. Append(v, b) = x \o z /\ Append(u, b) = Append(x, a) \o z
    BY <1>4, <1>5, <2>1
  <2>3. PutIn(Append(u, b), Append(v, b), x, z)
    BY <2>2 DEF PutIn
  <2> QED
    BY <1>1, <1>4, <2>3, EditsAre DEF Edited
<1>8. CASE Replaced(u, v, x, y)
  <2>1. PICK a \in Nat, c \in Bytes : v = Append(x, a) \o y /\ u = Append(x, c) \o y
    BY <1>8 DEF Replaced
  <2>2. Append(v, b) = Append(x, a) \o z /\ Append(u, b) = Append(x, c) \o z
    BY <1>4, <1>5, <2>1
  <2>3. Replaced(Append(u, b), Append(v, b), x, z)
    BY <2>2 DEF Replaced
  <2> QED
    BY <1>1, <1>4, <2>3, EditsAre DEF Edited
<1> QED
  BY <1>3, <1>6, <1>7, <1>8

(* The edits at the end of a word.                                         *)
LEMMA EditAtEnd ==
  ASSUME NEW x \in Name, NEW a \in Nat
  PROVE  /\ x \in Edits(Append(x, a))
         /\ \A b \in Bytes : /\ Append(x, b) \in Edits(x)
                             /\ Append(x, b) \in Edits(Append(x, a))
<1> DEFINE e == <<>>
<1>1. e \in Name /\ \A p \in Name : p \o e = p
  BY ConcatEmptySeq DEF Name
<1>2. Bytes \in SUBSET Nat /\ \A c \in Nat : Append(x, c) \in Name
  BY BytesAre, AppendProperties DEF Name
<1> HIDE DEF e
<1>3. LeftOut(x, Append(x, a), x, e)
  BY <1>1, <1>2 DEF LeftOut
<1>4. ASSUME NEW b \in Bytes
      PROVE  PutIn(Append(x, b), x, x, e) /\ Replaced(Append(x, b), Append(x, a), x, e)
  <2>1. x = x \o e /\ Append(x, b) = Append(x, b) \o e /\ Append(x, a) = Append(x, a) \o e
    BY <1>1, <1>2
  <2> QED
    BY <2>1 DEF PutIn, Replaced
<1>5. x \in Edits(Append(x, a))
  BY <1>1, <1>2, <1>3, EditsAre DEF Edited
<1>6. ASSUME NEW b \in Bytes
      PROVE  Append(x, b) \in Edits(x) /\ Append(x, b) \in Edits(Append(x, a))
  <2>1. Edited(Append(x, b), x) /\ Edited(Append(x, b), Append(x, a))
    BY <1>1, <1>4 DEF Edited
  <2> QED
    BY <1>2, <2>1, EditsAre
<1> QED
  BY <1>5, <1>6

(* From a part of the text to the next one: a byte more in both costs      *)
(* nothing, one in the text alone an edit.                                 *)
LEMMA NearLonger ==
  ASSUME NEW p \in FuzzyParts, NEW b \in Nat, Append(p, b) \in FuzzyParts,
         NEW n \in Budgets, NEW w \in Near[p][n]
  PROVE  /\ Append(w, b) \in Near[Append(p, b)][n]
         /\ n + 1 \in Budgets => w \in Near[Append(p, b)][n + 1]
<1> DEFINE s == Append(p, b)
           from == Near[p]
           to == Near[s]
           T == {k \in 0..n : /\ \A x \in from[k] : Append(x, b) \in to[k]
                              /\ k + 1 \in Budgets => from[k] \subseteq to[k + 1]}
<1>1. n \in Nat /\ p \in Name /\ s \in FuzzyParts /\ \A k \in 0..n : k \in Budgets
  BY SearchAssumption, NearIs DEF Budgets
<1>2. /\ from[0] = {p} /\ to[0] = {s}
      /\ \A k \in 0..n : from[k] \in SUBSET Name
  BY <1>1, NearStep
<1>3. \A k \in Budgets \ {0} :
        /\ from[k] = Reach(from[k - 1])
        /\ to[k - 1] \subseteq to[k] /\ \A x \in to[k - 1] : Edits(x) \subseteq to[k]
  <2> SUFFICES ASSUME NEW k \in Budgets \ {0}
               PROVE  /\ from[k] = Reach(from[k - 1])
                      /\ to[k - 1] \subseteq to[k] /\ \A x \in to[k - 1] : Edits(x) \subseteq to[k]
    OBVIOUS
  <2>1. k > 0
    BY DEF Budgets
  <2> QED
    BY <1>1, <2>1, NearStep
<1>4. p \in Edits(s)
  BY <1>1, EditAtEnd
<1> HIDE DEF from, to, s
<1>5. 0 \in T
  <2>1. 0 + 1 \in Budgets => from[0] \subseteq to[0 + 1]
    <3>1. 0 + 1 = 1 /\ 1 # 0 /\ 1 - 1 = 0
      OBVIOUS
    <3>2. 1 \in Budgets => \A x \in to[0] : Edits(x) \subseteq to[1]
      BY <1>3, <3>1
    <3> QED
      BY <1>2, <1>4, <3>1, <3>2
  <2>2. \A x \in from[0] : Append(x, b) \in to[0]
    BY <1>2 DEF s
  <2>3. 0 \in 0..n
    BY <1>1
  <2> QED
    BY <2>1, <2>2, <2>3
<1>6. ASSUME NEW k \in 1..n, k - 1 \in T PROVE k \in T
  <2>1. /\ k - 1 \in 0..n /\ k \in 0..n /\ k \in Budgets \ {0} /\ (k - 1) + 1 = k
        /\ \A x \in from[k - 1] : Append(x, b) \in to[k - 1]
        /\ from[k - 1] \subseteq to[k]
    BY <1>1, <1>6
  <2>2. \A x \in from[k - 1] : Append(x, b) \in to[k] /\ Edits(Append(x, b)) \subseteq to[k]
    BY <1>3, <2>1
  <2>3. \A x \in from[k] : x \in from[k - 1] \/ \E v \in from[k - 1] : x \in Edits(v)
    BY <1>3, <2>1 DEF Reach
  <2>4. \A v \in from[k - 1] : \A x \in Edits(v) : Append(x, b) \in Edits(Append(v, b))
    BY <1>2, <2>1, EditAppended
  <2>5. \A x \in from[k] : Append(x, b) \in to[k]
    BY <2>2, <2>3, <2>4
  <2>6. ASSUME k + 1 \in Budgets, NEW x \in from[k] PROVE x \in to[k + 1]
    <3>1. k + 1 # 0 /\ (k + 1) - 1 = k
      BY <1>1
    <3>2. to[k] \subseteq to[k + 1] /\ \A v \in to[k] : Edits(v) \subseteq to[k + 1]
      BY <1>3, <2>6, <3>1
    <3> QED
      BY <2>1, <2>3, <3>2
  <2> QED
    BY <2>1, <2>5, <2>6
<1>7. T \in SUBSET (0..n)
  OBVIOUS
<1>8. n \in T
  <2> HIDE DEF T
  <2>1. T = 0..n
    BY <1>1, <1>5, <1>6, <1>7, UpToAll
  <2> QED
    BY <1>1, <2>1
<1> QED
  BY <1>8 DEF from, to, s

(* As many edits as a row says lead to a word, from each part of the text. *)
Led(s, w, j) == \A n \in Budgets : RowOf(s, w)[j] <= n => w \in Near[Part(s, j)][n]

AllLed(s, w) == \A j \in 0..Len(s) : Led(s, w, j)

(* To the empty word.                                                      *)
LEMMA LedToNothing ==
  ASSUME NEW s, IsTypo(s)
  PROVE  AllLed(s, <<>>)
<1> DEFINE m == Len(s)
           T == {j \in 0..m : Led(s, <<>>, j)}
<1>1. /\ s \in Name /\ m \in Nat /\ Part(s, 0) = <<>>
      /\ \A j \in 0..m : Part(s, j) \in FuzzyParts /\ Part(s, j) \in Name
      /\ \A j \in 1..m : Part(s, j) = Append(Part(s, j - 1), s[j]) /\ s[j] \in Nat
  BY PartsAre
<1>2. \A j \in 0..m : RowOf(s, <<>>)[j] = j
  <2>1. <<>> \in Name /\ Len(<<>>) = 0
    BY DEF Name
  <2>2. RowOf(s, <<>>) = InitialRow(m)
    BY <1>1, <2>1, RowOfIs
  <2> QED
    BY <1>1, <2>2, InitialRowIs
<1> HIDE DEF m
<1>3. 0 \in T
  <2>1. ASSUME NEW n \in Budgets PROVE <<>> \in Near[Part(s, 0)][n]
    <3>1. Part(s, 0) \in FuzzyParts
      BY <1>1
    <3> DEFINE p == Part(s, 0)
    <3> HIDE DEF p
    <3>2. p \in Near[p][n]
      BY <3>1, NearStep DEF p
    <3> QED
      BY <1>1, <3>2 DEF p
  <2> QED
    BY <1>1, <2>1 DEF Led
<1>4. ASSUME NEW j \in 1..m, j - 1 \in T PROVE j \in T
  <2> DEFINE p == Part(s, j - 1)
             b == s[j]
  <2>1. /\ j - 1 \in 0..m /\ j \in 0..m /\ p \in FuzzyParts /\ b \in Nat
        /\ Part(s, j) = Append(p, b) /\ Append(p, b) \in FuzzyParts
    <3>1. j - 1 \in 0..m /\ j \in 0..m
      BY <1>1
    <3>2. Part(s, j) = Append(p, b) /\ b \in Nat
      BY <1>1
    <3>3. p \in FuzzyParts /\ Part(s, j) \in FuzzyParts
      BY <1>1, <3>1
    <3> QED
      BY <3>1, <3>2, <3>3
  <2>2. \A n \in Budgets : j - 1 <= n => <<>> \in Near[p][n]
    BY <1>2, <1>4, <2>1 DEF Led
  <2> HIDE DEF p, b
  <2>3. ASSUME NEW n \in Budgets, j <= n PROVE <<>> \in Near[Append(p, b)][n]
    <3>1. n - 1 \in Budgets /\ j - 1 <= n - 1 /\ (n - 1) + 1 = n
      BY <2>3, SearchAssumption DEF Budgets
    <3> DEFINE k == n - 1
    <3>2. k \in Budgets /\ k + 1 \in Budgets /\ k + 1 = n /\ <<>> \in Near[p][k]
      BY <2>2, <3>1
    <3> HIDE DEF k
    <3>3. <<>> \in Near[Append(p, b)][k + 1]
      BY <2>1, <3>2, NearLonger
    <3> QED
      BY <3>2, <3>3
  <2> QED
    BY <1>2, <2>1, <2>3 DEF Led
<1>5. T \in SUBSET (0..m)
  OBVIOUS
<1>6. T = 0..m
  <2> HIDE DEF T
  <2> QED
    BY <1>1, <1>3, <1>4, <1>5, UpToAll
<1> QED
  BY <1>6 DEF AllLed, m

(* To a word a byte longer.                                                *)
LEMMA LedFurther ==
  ASSUME NEW s, IsTypo(s), NEW x \in Name, AllLed(s, x), NEW c \in Bytes
  PROVE  AllLed(s, Append(x, c))
<1> DEFINE m == Len(s)
           w == Append(x, c)
           r == RowOf(s, x)
           next == RowOf(s, w)
           T == {j \in 0..m : Led(s, w, j)}
<1>1. /\ s \in Name /\ m \in Nat
      /\ \A j \in 0..m : Part(s, j) \in FuzzyParts
      /\ \A j \in 1..m : Part(s, j) = Append(Part(s, j - 1), s[j]) /\ s[j] \in Nat
  BY PartsAre
<1>2. c \in Nat /\ w \in Name
  BY BytesAre, AppendProperties DEF Name
<1>3. /\ Follows(r, next, s, c, m) /\ r \in Rows(m)
  <2>1. r \in Rows(m) /\ next = NextRow(r, s, c)
    BY <1>1, <1>2, RowOfIs
  <2> HIDE DEF r, next, m
  <2> QED
    BY <1>1, <2>1, NextRowIs
<1>4. \A j \in 0..m : \A n \in Budgets : r[j] <= n => x \in Near[Part(s, j)][n]
  BY DEF AllLed, Led
<1>5. w \in Edits(x) /\ \A a \in Nat : w \in Edits(Append(x, a))
  BY EditAtEnd
<1> HIDE DEF m, w, r, next
<1>6. /\ \A j \in 0..m : r[j] \in Nat /\ next[j] \in Nat
      /\ Budgets = 0..MaxBudget /\ MaxBudget \in Nat
  BY <1>3, SearchAssumption DEF Follows, Rows, Budgets
<1>7. ASSUME NEW j \in 0..m, NEW n \in Budgets, r[j] + 1 <= n
      PROVE  w \in Near[Part(s, j)][n]
  <2> DEFINE p == Part(s, j)
  <2>1. n > 0 /\ n - 1 \in Budgets /\ r[j] <= n - 1 /\ p \in FuzzyParts
    BY <1>1, <1>6, <1>7
  <2>2. x \in Near[p][n - 1]
    BY <1>4, <2>1
  <2> HIDE DEF p
  <2>3. \A v \in Near[p][n - 1] : Edits(v) \subseteq Near[p][n]
    BY <2>1, NearStep
  <2> QED
    BY <1>5, <2>2, <2>3 DEF p
<1>8. 0 \in T
  <2>1. 0 \in 0..m /\ next[0] = r[0] + 1
    BY <1>1, <1>3 DEF Follows
  <2>2. \A n \in Budgets : next[0] <= n => w \in Near[Part(s, 0)][n]
    BY <1>7, <2>1
  <2> QED
    BY <2>1, <2>2 DEF Led, next
<1>9. ASSUME NEW j \in 1..m, j - 1 \in T PROVE j \in T
  <2> DEFINE p == Part(s, j - 1)
             b == s[j]
  <2>1. /\ j - 1 \in 0..m /\ j \in 0..m /\ p \in FuzzyParts /\ b \in Nat
        /\ Part(s, j) = Append(p, b) /\ Append(p, b) \in FuzzyParts
    <3>1. j - 1 \in 0..m /\ j \in 0..m
      BY <1>1
    <3>2. Part(s, j) = Append(p, b) /\ b \in Nat
      BY <1>1
    <3>3. p \in FuzzyParts /\ Part(s, j) \in FuzzyParts
      BY <1>1, <3>1
    <3> QED
      BY <3>1, <3>2, <3>3
  <2>2. \A n \in Budgets : /\ next[j - 1] <= n => w \in Near[p][n]
                           /\ r[j - 1] <= n => x \in Near[p][n]
    BY <1>4, <1>9, <2>1 DEF Led, next
  <2>3. next[j] \in {r[j] + 1, next[j - 1] + 1, r[j - 1] + Cost(s, j, c)}
    BY <1>3 DEF Follows
  <2> HIDE DEF p
  <2>4. ASSUME NEW n \in Budgets, next[j - 1] + 1 <= n PROVE w \in Near[Append(p, b)][n]
    <3> DEFINE k == n - 1
    <3>1. k \in Budgets /\ k + 1 = n /\ next[j - 1] <= k
      BY <1>6, <2>1, <2>4
    <3> HIDE DEF k, b
    <3>2. w \in Near[p][k] /\ k + 1 \in Budgets
      BY <2>2, <3>1
    <3>3. w \in Near[Append(p, b)][k + 1]
      BY <2>1, <3>1, <3>2, NearLonger
    <3> QED
      BY <3>1, <3>3
  <2>5. ASSUME NEW n \in Budgets, r[j - 1] <= n PROVE Append(x, b) \in Near[Append(p, b)][n]
    <3> HIDE DEF b
    <3>1. x \in Near[p][n]
      BY <2>2, <2>5
    <3> QED
      BY <2>1, <3>1, NearLonger
  <2>6. ASSUME NEW n \in Budgets, next[j] <= n PROVE w \in Near[Append(p, b)][n]
    <3>1. CASE next[j] = r[j] + 1
      BY <1>7, <2>1, <2>6, <3>1
    <3>2. CASE next[j] = next[j - 1] + 1
      BY <2>4, <2>6, <3>2
    <3>3. CASE next[j] = r[j - 1] + Cost(s, j, c) /\ b = c
      <4>1. r[j - 1] <= n
        BY <1>6, <2>1, <2>6, <3>3 DEF Cost
      <4> QED
        BY <2>5, <3>3, <4>1 DEF w
    <3>4. CASE next[j] = r[j - 1] + Cost(s, j, c) /\ b # c
      <4> DEFINE k == n - 1
                 t == Append(p, b)
                 v == Append(x, b)
      <4>1. next[j] = r[j - 1] + 1
        BY <3>4 DEF Cost
      <4>2. k \in Budgets /\ n > 0 /\ r[j - 1] <= k
        BY <1>6, <2>1, <2>6, <4>1
      <4>3. v \in Near[t][k] /\ w \in Edits(v) /\ t \in FuzzyParts
        BY <1>5, <2>1, <2>5, <4>2
      <4> HIDE DEF t, v
      <4>4. \A y \in Near[t][k] : Edits(y) \subseteq Near[t][n]
        BY <4>2, <4>3, NearStep
      <4>5. w \in Near[t][n]
        BY <4>3, <4>4
      <4> QED
        BY <4>5 DEF t
    <3> QED
      BY <2>3, <3>1, <3>2, <3>3, <3>4
  <2>7. Led(s, w, j)
    BY <2>1, <2>6 DEF Led, next
  <2> QED
    BY <2>1, <2>7
<1>10. T \in SUBSET (0..m)
  OBVIOUS
<1>11. T = 0..m
  <2> HIDE DEF T
  <2> QED
    BY <1>1, <1>8, <1>9, <1>10, UpToAll
<1> QED
  BY <1>11 DEF AllLed, m, w

Word == {w \in Name : \A i \in 1..Len(w) : w[i] \in Bytes}

(* To every word of the bytes there are.                                   *)
LEMMA LedToAll ==
  ASSUME NEW s, IsTypo(s), NEW w \in Word
  PROVE  AllLed(s, w)
<1> DEFINE T == {k \in 0..Len(w) : AllLed(s, SubSeq(w, 1, k))}
<1>1. /\ w \in Name /\ w \in Seq(Nat) /\ Len(w) \in Nat
      /\ \A i \in 1..Len(w) : w[i] \in Bytes /\ w[i] \in Nat
  BY LenProperties, BytesAre DEF Word, Name
<1>2. 0 \in T
  <2>1. SubSeq(w, 1, 0) = <<>>
    BY SubSeqEmpty
  <2>2. AllLed(s, <<>>)
    BY LedToNothing
  <2>3. AllLed(s, SubSeq(w, 1, 0))
    BY <2>1, <2>2, Zenon
  <2>4. 0 \in 0..Len(w)
    BY <1>1
  <2> QED
    BY <2>3, <2>4
<1>3. ASSUME NEW k \in 1..Len(w), k - 1 \in T PROVE k \in T
  <2> DEFINE x == SubSeq(w, 1, k - 1)
             c == w[k]
  <2>1. x \in Name /\ c \in Bytes /\ c \in Nat /\ AllLed(s, x)
    <3>1. k - 1 \in 0..Len(w) /\ AllLed(s, x)
      BY <1>1, <1>3
    <3>2. x \in Name
      BY <1>1, <3>1, Cut
    <3> QED
      BY <1>1, <3>1, <3>2
  <2>2. SubSeq(w, 1, k) = Append(x, c)
    <3>1. 1 \in 1..Len(w) /\ k \in 1..Len(w)
      BY <1>1
    <3>2. SubSeq(w, 1, k) = x \o <<c>>
      BY <1>1, <3>1, SubSeqRecursiveSecond
    <3> QED
      BY <2>1, <3>2, AppendIsConcat DEF Name
  <2> HIDE DEF x, c
  <2>3. AllLed(s, Append(x, c))
    BY <2>1, LedFurther
  <2>4. k \in 0..Len(w)
    BY <1>1
  <2> QED
    BY <2>2, <2>3, <2>4
<1>4. T \in SUBSET (0..Len(w))
  OBVIOUS
<1>5. Len(w) \in T
  <2> HIDE DEF T
  <2>1. T = 0..Len(w)
    BY <1>1, <1>2, <1>3, <1>4, UpToAll
  <2> QED
    BY <1>1, <2>1
<1>6. SubSeq(w, 1, Len(w)) = w
  BY <1>1, SubSeqFull
<1> QED
  BY <1>5, <1>6

----------------------------------------------------------------------------
(* What the code computes with the rows.                                   *)

(* The part behind a beginning of a name is the edge to it.                *)
LEMMA EdgeIs ==
  ASSUME NEW p \in Name, NEW c \in Name, IsPrefix(p, c)
  PROVE  Edge(p, c) \in Name /\ p \o Edge(p, c) = c
<1>1. Len(p) \in Nat /\ Len(c) \in Nat /\ Len(p) <= Len(c)
  BY LenProperties, PrefixBytes DEF Name
<1> DEFINE n == Len(p)
<1>2. n \in 0..Len(c) /\ SubSeq(c, 1, n) = p
  <2>1. SubSeq(p, 1, Len(p)) = p
    BY SubSeqFull DEF Name
  <2> QED
    BY <1>1, <2>1 DEF IsPrefix
<1> HIDE DEF n
<1>3. /\ SubSeq(c, n + 1, Len(c)) \in Name
      /\ c = SubSeq(c, 1, n) \o SubSeq(c, n + 1, Len(c))
  BY <1>2, CutInTwo
<1> QED
  BY <1>2, <1>3 DEF Edge, n

(* The walk stops at a row with nothing in reach; until then the row is    *)
(* the one behind the word.                                                *)
LEMMA RowBehindIs ==
  ASSUME NEW q \in Queries, q.fuzzy, NEW p \in Name, NEW e \in Name,
         NEW row, row = RowOf(q.text, p)
  PROVE  /\ Reachable(q, RowBehind(q, row, e)) =>
              RowBehind(q, row, e) = RowOf(q.text, p \o e)
         /\ ~Reachable(q, RowBehind(q, row, e)) =>
              AtLeast(RowOf(q.text, p \o e), q.budget + 1, Len(q.text))
<1> DEFINE s == q.text
           m == Len(s)
           n == Len(e)
           S == Rows(m)
           On(i) == p \o SubSeq(e, 1, i)
           Next1(r, ch) == IF Reachable(q, r) THEN NextRow(r, s, ch) ELSE r
           step == [i \in 1..n |-> [r \in S |-> Next1(r, e[i])]]
           Folds(h) == h = [d \in SUBSET (1..n) |->
                             IF d = {} THEN row ELSE Next1(h[d \ {Max(d)}], e[Max(d)])]
           far == q.budget + 1
<1>1. /\ s \in Name /\ m \in Nat /\ n \in Nat /\ q.budget \in Nat /\ far \in Nat
      /\ e \in Seq(Nat) /\ \A i \in 1..n : e[i] \in Nat
  <2>1. s \in Seq(Nat) /\ q.budget \in Nat
    BY SearchAssumption
  <2> QED
    BY <2>1, LenProperties, ElementOfSeq DEF Name
<1>2. row \in S
  <2> HIDE DEF s
  <2>1. RowOf(s, p) \in Rows(Len(s))
    BY <1>1, RowOfIs
  <2> QED
    BY <2>1 DEF s
<1> HIDE DEF m, n, s
<1>3. \A r \in S : \A ch : NextRow(r, s, ch) \in S /\ Next1(r, ch) \in S
  BY <1>1, NextRowIs DEF Follows
<1> HIDE DEF Next1
<1>4. step \in Steps(1..n, S)
  BY <1>3 DEF Steps
<1>5. PICK u : Iterates(u, n, S, row, step)
  <2> HIDE DEF S, step
  <2> QED
    BY <1>1, <1>2, <1>4, IterationExists
<1>6. u \in [0..n -> S] /\ u[0] = row /\ \A i \in 1..n : u[i] = Next1(u[i - 1], e[i])
  <2>1. u \in [0..n -> S] /\ u[0] = row /\ \A i \in 1..n : u[i] = step[i][u[i - 1]]
    BY <1>5 DEF Iterates
  <2>2. \A i \in 1..n : u[i - 1] \in S
    BY <1>1, <2>1
  <2> QED
    BY <2>1, <2>2
<1>7. RowBehind(q, row, e) = u[n]
  <2> DEFINE D == 1..n
             fold == CHOOSE h : Folds(h)
  <2>1. PICK h : LastFold(h, n, S, row, step)
    <3> HIDE DEF S, step
    <3> QED
      BY <1>1, <1>2, <1>4, LastFoldExists
  <2>2. Folds(h)
    <3>1. /\ h \in [SUBSET D -> S] /\ h[{}] = row
          /\ \A d \in SUBSET D : d # {} => Max(d) \in d /\ h[d] = step[Max(d)][h[d \ {Max(d)}]]
      BY <2>1 DEF LastFold
    <3>2. \A d \in SUBSET D : d # {} => h[d] = Next1(h[d \ {Max(d)}], e[Max(d)])
      <4> SUFFICES ASSUME NEW d \in SUBSET D, d # {}
                   PROVE  h[d] = Next1(h[d \ {Max(d)}], e[Max(d)])
        OBVIOUS
      <4>1. Max(d) \in D /\ h[d] = step[Max(d)][h[d \ {Max(d)}]]
        BY <3>1
      <4>2. h[d \ {Max(d)}] \in S
        BY <3>1
      <4> QED
        BY <4>1, <4>2
    <3>3. h = [d \in SUBSET D |-> h[d]]
      BY <3>1
    <3> HIDE DEF D
    <3>4. \A d \in SUBSET D :
            h[d] = IF d = {} THEN row ELSE Next1(h[d \ {Max(d)}], e[Max(d)])
      BY <3>1, <3>2
    <3> QED
      BY <3>3, <3>4 DEF D
  <2>3. Folds(fold)
    BY <2>2
  <2>4. RowBehind(q, row, e) = fold[D]
    <3>1. DOMAIN e = D
      BY <1>1, LenProperties DEF n
    <3> QED
      BY <3>1 DEF RowBehind, FoldLeft, MapThenFoldSet, Next1, s
  <2> HIDE DEF fold
  <2>5. fold[{}] = row
    BY <2>3
  <2>6. ASSUME NEW d \in SUBSET D, d # {}, fold[d \ {Max(d)}] \in S
        PROVE  fold[d] = step[Max(d)][fold[d \ {Max(d)}]]
    <3>1. fold[d] = Next1(fold[d \ {Max(d)}], e[Max(d)])
      BY <2>3, <2>6
    <3>2. Max(d) \in D
      BY <2>1, <2>6 DEF LastFold
    <3> HIDE DEF D
    <3>3. step[Max(d)][fold[d \ {Max(d)}]] = Next1(fold[d \ {Max(d)}], e[Max(d)])
      BY <2>6, <3>2 DEF D
    <3> QED
      BY <3>1, <3>3
  <2> HIDE DEF S, step
  <2>7. FoldsBy(fold, n, S, row, step)
    BY <2>5, <2>6 DEF FoldsBy
  <2>8. fold[1..n] = u[n]
    BY <1>1, <1>2, <1>5, <2>7, FoldedIs
  <2> QED
    BY <2>4, <2>8
<1> DEFINE T == {i \in 0..n :
                   /\ Reachable(q, u[i]) => u[i] = RowOf(s, On(i))
                   /\ ~Reachable(q, u[i]) => AtLeast(RowOf(s, On(i)), far, m)}
<1>8. \A r \in S : Reachable(q, r) <=> ~AtLeast(r, far, m)
  BY <1>1, RowMinIs DEF Reachable
<1>9. 0 \in T
  <2>1. SubSeq(e, 1, 0) = <<>>
    BY SubSeqEmpty
  <2>2. p \o <<>> = p
    BY ConcatEmptySeq DEF Name
  <2>3. On(0) = p
    BY <2>1, <2>2
  <2> HIDE DEF On
  <2>4. u[0] = RowOf(s, On(0)) /\ u[0] \in S /\ 0 \in 0..n
    BY <1>1, <1>2, <1>6, <2>3 DEF s
  <2> HIDE DEF S, far
  <2> QED
    BY <1>8, <2>4
<1>10. ASSUME NEW i \in 1..n, i - 1 \in T PROVE i \in T
  <2> DEFINE o == SubSeq(e, 1, i - 1)
             a == e[i]
             x == p \o o
             r == RowOf(s, x)
             v == u[i - 1]
  <2>1. i - 1 \in 0..n /\ i \in 0..n /\ a \in Nat
    BY <1>1
  <2>2. o \in Name /\ x \in Name
    <3>1. o \in Name
      BY <2>1, Cut DEF n
    <3> QED
      BY <3>1, ConcatProperties DEF Name
  <2>3. On(i) = Append(x, a)
    <3>1. 1 \in 1..Len(e) /\ i \in 1..Len(e)
      BY <1>1 DEF n
    <3>2. SubSeq(e, 1, i) = o \o <<a>>
      BY <1>1, <3>1, SubSeqRecursiveSecond
    <3>3. Append(o, a) = o \o <<a>>
      BY <2>1, <2>2, AppendIsConcat DEF Name
    <3> HIDE DEF o, a
    <3>4. p \o Append(o, a) = Append(p \o o, a)
      BY <2>1, <2>2, AppendConcat
    <3> QED
      BY <3>2, <3>3, <3>4
  <2>4. r \in S /\ RowOf(s, On(i)) = NextRow(r, s, a)
    <3> HIDE DEF x, a, On
    <3> QED
      BY <1>1, <2>1, <2>2, <2>3, RowOfIs DEF m
  <2>5. u[i] = Next1(v, a) /\ v \in S
    BY <1>6, <2>1
  <2>6. /\ Reachable(q, v) => v = r
        /\ ~Reachable(q, v) => AtLeast(r, far, m)
    BY <1>10
  <2> DEFINE next == NextRow(r, s, a)
  <2> HIDE DEF r, v, a, x, o, On, far
  <2>7. AtLeast(r, far, m) => AtLeast(next, far, m)
    BY <1>1, <2>4, RowMinKept
  <2>8. next \in S
    BY <1>3, <2>4
  <2> HIDE DEF S, next
  <2>9. CASE Reachable(q, v)
    <3>1. u[i] = next
      BY <2>5, <2>6, <2>9 DEF Next1, next
    <3> QED
      BY <1>8, <2>1, <2>4, <2>8, <3>1 DEF next
  <2>10. CASE ~Reachable(q, v)
    <3>1. u[i] = v
      BY <2>5, <2>10 DEF Next1
    <3> QED
      BY <2>1, <2>4, <2>6, <2>7, <2>10, <3>1 DEF next
  <2> QED
    BY <2>9, <2>10
<1>11. T \in SUBSET (0..n)
  OBVIOUS
<1>12. n \in T
  <2> HIDE DEF T
  <2>1. T = 0..n
    BY <1>1, <1>9, <1>10, <1>11, UpToAll
  <2> QED
    BY <1>1, <2>1
<1>13. On(n) = p \o e
  <2>1. SubSeq(e, 1, n) = e
    BY SubSeqFull DEF n, Name
  <2> QED
    BY <2>1
<1> HIDE DEF On
<1> QED
  BY <1>7, <1>12, <1>13 DEF s, m, far

(* Behind a name nowhere below n there is no name below n.                 *)
LEMMA LongerCosts ==
  ASSUME NEW s \in Name, NEW c \in Name, NEW d \in Name, IsPrefix(c, d),
         NEW n \in Nat, AtLeast(RowOf(s, c), n, Len(s))
  PROVE  AtLeast(RowOf(s, d), n, Len(s))
<1>1. Edge(c, d) \in Name /\ c \o Edge(c, d) = d
  BY EdgeIs
<1> DEFINE e == Edge(c, d)
<1>2. e \in Name /\ c \o e = d
  BY <1>1
<1> HIDE DEF e
<1>3. AtLeast(RowOf(s, c \o e), n, Len(s))
  BY <1>2, RowsFurther
<1> QED
  BY <1>2, <1>3

(* A row has the edit distances from its word to every part of the text.   *)
LEMMA NearExact ==
  ASSUME NEW s, IsTypo(s), NEW w \in Word, NEW j \in 0..Len(s), NEW n \in Budgets
  PROVE  RowOf(s, w)[j] <= n <=> w \in Near[Part(s, j)][n]
<1>1. AllLed(s, w)
  BY LedToAll
<1> QED
  BY <1>1, NearCosts DEF AllLed, Led

(* distance comes to the last entry of the row behind the word.            *)
LEMMA DistanceIs ==
  ASSUME NEW s \in Name, NEW w \in Name
  PROVE  Distance(w, s) = RowOf(s, w)[Len(s)]
<1> DEFINE m == Len(s)
           n == Len(w)
           S == Rows(m)
           row == InitialRow(m)
           step == [i \in 1..n |-> [r \in S |-> NextRow(r, s, w[i])]]
           Folds(h) == h = [d \in SUBSET (1..n) |->
                             IF d = {} THEN row
                             ELSE NextRow(h[d \ {Max(d)}], s, w[Max(d)])]
           fold == CHOOSE h : Folds(h)
           u == CHOOSE u : Through(u, s, w)
<1>1. m \in Nat /\ n \in Nat /\ DOMAIN w = 1..n
  BY LenProperties DEF Name
<1>2. row \in S
  BY <1>1, InitialRowIs
<1>3. Through(u, s, w) /\ RowOf(s, w) = u[n]
  BY ThroughExists DEF RowOf
<1>4. Distance(w, s) = fold[1..n][m]
  BY <1>1 DEF Distance, FoldLeft, MapThenFoldSet
<1> HIDE DEF u, row, n, m
<1>5. \A i \in 1..n : \A r \in S : NextRow(r, s, w[i]) \in S
  BY <1>1, NextRowIs DEF Follows
<1>6. step \in Steps(1..n, S)
  BY <1>5 DEF Steps
<1>7. Iterates(u, n, S, row, step)
  <2>1. /\ u \in [0..n -> S] /\ u[0] = row
        /\ \A i \in 1..n : u[i] = NextRow(u[i - 1], s, w[i])
    BY <1>3 DEF Through, n, m, row
  <2>2. \A i \in 1..n : u[i - 1] \in S
    BY <1>1, <2>1
  <2>3. \A i \in 1..n : u[i] = step[i][u[i - 1]]
    BY <2>1, <2>2
  <2> HIDE DEF S, step
  <2> QED
    BY <2>1, <2>3 DEF Iterates
<1>8. PICK h : LastFold(h, n, S, row, step)
  <2> HIDE DEF S, step
  <2> QED
    BY <1>1, <1>2, <1>6, LastFoldExists
<1>9. Folds(h)
  <2> DEFINE D == 1..n
  <2>1. /\ h \in [SUBSET D -> S] /\ h[{}] = row
        /\ \A d \in SUBSET D : d # {} => Max(d) \in d /\ h[d] = step[Max(d)][h[d \ {Max(d)}]]
    BY <1>8 DEF LastFold
  <2>2. \A d \in SUBSET D : d # {} => h[d] = NextRow(h[d \ {Max(d)}], s, w[Max(d)])
    <3> SUFFICES ASSUME NEW d \in SUBSET D, d # {}
                 PROVE  h[d] = NextRow(h[d \ {Max(d)}], s, w[Max(d)])
      OBVIOUS
    <3>1. Max(d) \in D /\ h[d] = step[Max(d)][h[d \ {Max(d)}]]
      BY <2>1
    <3>2. h[d \ {Max(d)}] \in S
      BY <2>1
    <3> QED
      BY <3>1, <3>2
  <2>3. h = [d \in SUBSET D |-> h[d]]
    BY <2>1
  <2> HIDE DEF D
  <2>4. \A d \in SUBSET D :
          h[d] = IF d = {} THEN row ELSE NextRow(h[d \ {Max(d)}], s, w[Max(d)])
    BY <2>1, <2>2
  <2> QED
    BY <2>3, <2>4 DEF D
<1>10. Folds(fold)
  BY <1>9
<1> HIDE DEF fold
<1>11. fold[{}] = row
  BY <1>10
<1>12. ASSUME NEW d \in SUBSET (1..n), d # {}, fold[d \ {Max(d)}] \in S
       PROVE  fold[d] = step[Max(d)][fold[d \ {Max(d)}]]
  <2>1. fold[d] = NextRow(fold[d \ {Max(d)}], s, w[Max(d)])
    BY <1>10, <1>12
  <2>2. Max(d) \in 1..n
    BY <1>8, <1>12 DEF LastFold
  <2>3. step[Max(d)][fold[d \ {Max(d)}]] = NextRow(fold[d \ {Max(d)}], s, w[Max(d)])
    <3> DEFINE k == Max(d)
               x == fold[d \ {Max(d)}]
    <3>1. k \in 1..n /\ x \in S
      BY <1>12, <2>2
    <3> HIDE DEF k, x, S
    <3>2. step[k][x] = NextRow(x, s, w[k])
      BY <3>1
    <3> QED
      BY <3>2 DEF k, x
  <2> QED
    BY <2>1, <2>3
<1> HIDE DEF S, step
<1>13. FoldsBy(fold, n, S, row, step)
  BY <1>11, <1>12 DEF FoldsBy
<1>14. fold[1..n] = u[n]
  BY <1>1, <1>2, <1>7, <1>13, FoldedIs
<1> QED
  BY <1>3, <1>4, <1>14 DEF m

(* typo.rs distance: it is within n of a query exactly when n edits lead   *)
(* from the query to the word, whatever the word is made of.               *)
THEOREM DistanceExact ==
  \A q \in Queries : \A w \in Word : \A n \in Budgets :
    q.fuzzy => (Distance(w, q.text) <= n <=> w \in Near[q.text][n])
<1> SUFFICES ASSUME NEW q \in Queries, NEW w \in Word, NEW n \in Budgets, q.fuzzy
             PROVE  Distance(w, q.text) <= n <=> w \in Near[q.text][n]
  OBVIOUS
<1> DEFINE s == q.text
<1>1. IsTypo(s)
  BY DEF IsTypo
<1> HIDE DEF s
<1>2. s \in Name /\ Len(s) \in 0..Len(s) /\ Part(s, Len(s)) = s /\ w \in Name
  BY <1>1, PartsAre DEF Word
<1>3. Distance(w, s) = RowOf(s, w)[Len(s)]
  BY <1>2, DistanceIs
<1> DEFINE l == Len(s)
<1>4. l \in 0..Len(s)
  BY <1>2
<1> HIDE DEF l
<1>5. RowOf(s, w)[l] <= n <=> w \in Near[Part(s, l)][n]
  BY <1>1, <1>4, NearExact
<1> QED
  BY <1>2, <1>3, <1>5 DEF l, s

(* typo.rs row_min: as its comment has it, a row further down a walk is    *)
(* never below the minimum of one further up, for queries of any length.   *)
THEOREM RowMinNeverFalls ==
  \A m \in Nat : \A r \in [0..m -> Nat] : \A text, ch :
    \A i \in 0..m : NextRow(r, text, ch)[i] >= RowMin(r)
<1> SUFFICES ASSUME NEW m \in Nat, NEW r \in [0..m -> Nat], NEW text, NEW ch, NEW i \in 0..m
             PROVE  NextRow(r, text, ch)[i] >= RowMin(r)
  OBVIOUS
<1> DEFINE n == RowMin(r)
<1>1. r \in Rows(m) /\ n \in Nat
  BY RowMinIs DEF Rows
<1>2. AtLeast(r, n, m)
  <2>1. CASE n = 0
    BY <1>1, <2>1 DEF AtLeast, Rows
  <2>2. CASE n > 0
    <3> DEFINE k == n - 1
    <3>1. k \in Nat /\ k + 1 = n /\ ~ (n <= k)
      BY <1>1, <2>2
    <3> HIDE DEF k
    <3>2. AtLeast(r, k + 1, m)
      BY <1>1, <3>1, RowMinIs
    <3> QED
      BY <3>1, <3>2
  <2> QED
    BY <1>1, <2>1, <2>2
<1> HIDE DEF n
<1>3. AtLeast(NextRow(r, text, ch), n, m)
  BY <1>1, <1>2, RowMinKept
<1> QED
  BY <1>3 DEF AtLeast, n
=============================================================================
