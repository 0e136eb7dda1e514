----------------------------- MODULE FoldProofs -----------------------------
(***************************************************************************)
(* Induction for the proofs of the other modules, as facts about sets and  *)
(* functions: a set of naturals has a least element, a step repeated n     *)
(* times gives a function, and what the folds of the community modules     *)
(* iterate exists.  A theorem with a parameter for the step would not      *)
(* help, since no prover here can instantiate it; so a step is a function. *)
(***************************************************************************)
EXTENDS SequencesExt, Integers, FiniteSetTheorems, WellFoundedInduction, TLAPS

(* The counterexamples to a claim about naturals have a least one: among   *)
(* the sets of those up to i, a smallest one belongs to the least i.       *)
LEMMA LeastExists ==
  ASSUME NEW T \in SUBSET Nat, T # {}
  PROVE  \E m \in T : \A j \in T : m <= j
<1> PICK n \in T : TRUE
  OBVIOUS
<1> DEFINE UpTo(i) == T \cap (0..i)
           D == {UpTo(i) : i \in UpTo(n)}
           Sub == StrictSubsetOrdering(0..n)
<1>1. IsFiniteSet(0..n)
  BY FS_Interval
<1>2. D \subseteq FiniteSubsetsOf(0..n) /\ D # {}
  <2>1. \A i \in UpTo(n) : UpTo(i) \in SUBSET (0..n) /\ IsFiniteSet(UpTo(i))
    BY <1>1, FS_Subset
  <2>2. n \in UpTo(n)
    OBVIOUS
  <2> QED
    BY <2>1, <2>2 DEF FiniteSubsetsOf
<1>3. PICK x \in D : \A y \in D : ~ (<<y, x>> \in Sub)
  <2>1. IsWellFoundedOn(Sub, FiniteSubsetsOf(0..n))
    BY FS_StrictSubsetOrderingWellFounded
  <2> HIDE DEF Sub, D
  <2> QED
    BY <1>2, <2>1, WFMin
<1>4. PICK i \in UpTo(n) : x = UpTo(i)
  OBVIOUS
<1>5. ASSUME NEW j \in T, j < i PROVE FALSE
  <2>1. UpTo(j) \in D /\ UpTo(j) \subseteq UpTo(i) /\ i \in UpTo(i) /\ i \notin UpTo(j)
    BY <1>5
  <2>2. <<UpTo(j), UpTo(i)>> \in Sub
    BY <2>1 DEF StrictSubsetOrdering
  <2> QED
    BY <1>3, <1>4, <2>1, <2>2
<1> QED
  BY <1>5

(* A set that has 0 and with each number the next one, up to n, has all of *)
(* them: what holds for 0 and is handed on holds for every number.         *)
LEMMA UpToAll ==
  ASSUME NEW n \in Nat, NEW T \in SUBSET (0..n), 0 \in T,
         \A i \in 1..n : i - 1 \in T => i \in T
  PROVE  T = 0..n
<1> DEFINE Bad == (0..n) \ T
<1> SUFFICES ASSUME Bad # {} PROVE FALSE
  OBVIOUS
<1>1. PICK m \in Bad : \A j \in Bad : m <= j
  <2>1. Bad \in SUBSET Nat
    OBVIOUS
  <2> HIDE DEF Bad
  <2> QED
    BY <2>1, LeastExists
<1>2. m \in 1..n /\ m - 1 \in 0..n /\ m - 1 \notin Bad
  BY <1>1
<1> QED
  BY <1>1, <1>2

(* Max and Min are what they should be.                                    *)
LEMMA MaxIs ==
  ASSUME NEW T \in SUBSET Int, NEW m \in T, \A j \in T : j <= m
  PROVE  Max(T) = m
<1>1. Max(T) \in T /\ \A j \in T : Max(T) >= j
  BY DEF Max
<1>2. Max(T) >= m /\ Max(T) <= m /\ m \in Int /\ Max(T) \in Int
  BY <1>1
<1> QED
  BY <1>2

(* The same from below.                                                    *)
LEMMA MinIs ==
  ASSUME NEW T \in SUBSET Int, NEW m \in T, \A j \in T : m <= j
  PROVE  Min(T) = m
<1>1. Min(T) \in T /\ \A j \in T : Min(T) <= j
  BY DEF Min
<1>2. m >= Min(T) /\ m <= Min(T) /\ m \in Int /\ Min(T) \in Int
  BY <1>1
<1> QED
  BY <1>2

(* A step for each element of D, on S.                                     *)
Steps(D, S) == [D -> [S -> S]]

(* u goes from base in n steps.                                            *)
Iterates(u, n, S, base, step) ==
  /\ u \in [0..n -> S]
  /\ u[0] = base /\ \A i \in 1..n : u[i] = step[i][u[i - 1]]

(* There is a sequence of iterates for every number of steps.              *)
LEMMA IterationExists ==
  ASSUME NEW S, NEW n \in Nat, NEW base \in S, NEW step \in Steps(1..n, S)
  PROVE  \E u : Iterates(u, n, S, base, step)
<1> DEFINE Bad == {m \in 0..n : ~ \E u : Iterates(u, m, S, base, step)}
<1>1. \E u : Iterates(u, 0, S, base, step)
  <2>1. Iterates([i \in 0..0 |-> base], 0, S, base, step)
    BY DEF Iterates
  <2> QED
    BY <2>1
<1>2. ASSUME NEW m \in 1..n, NEW u, Iterates(u, m - 1, S, base, step)
      PROVE  \E v : Iterates(v, m, S, base, step)
  <2> DEFINE v == [i \in 0..m |-> IF i = m THEN step[m][u[m - 1]] ELSE u[i]]
  <2>1. u \in [0..(m - 1) -> S] /\ step[m][u[m - 1]] \in S
    BY <1>2 DEF Iterates, Steps
  <2>2. v \in [0..m -> S]
    BY <2>1
  <2>3. v[0] = base
    BY <1>2 DEF Iterates
  <2>4. \A i \in 1..m : v[i] = step[i][v[i - 1]]
    <3>1. \A i \in 1..m : i - 1 \in 0..m /\ i - 1 # m /\ v[i - 1] = u[i - 1]
      OBVIOUS
    <3>2. \A i \in 1..m : i # m => i \in 1..(m - 1) /\ v[i] = u[i]
      OBVIOUS
    <3>3. v[m] = step[m][u[m - 1]]
      OBVIOUS
    <3> HIDE DEF v
    <3> QED
      BY <1>2, <3>1, <3>2, <3>3 DEF Iterates
  <2> HIDE DEF v
  <2>5. Iterates(v, m, S, base, step)
    BY <2>2, <2>3, <2>4 DEF Iterates
  <2> QED
    BY <2>5
<1>3. Bad = {}
  <2> SUFFICES ASSUME Bad # {} PROVE FALSE
    OBVIOUS
  <2>1. PICK m \in Bad : \A j \in Bad : m <= j
    <3>1. Bad \in SUBSET Nat
      OBVIOUS
    <3> HIDE DEF Bad
    <3> QED
      BY <3>1, LeastExists
  <2>2. m # 0
    BY <1>1
  <2>3. m \in 1..n /\ m - 1 \in 0..n /\ m - 1 \notin Bad
    BY <2>1, <2>2
  <2> QED
    BY <1>2, <2>3
<1>4. n \in 0..n
  OBVIOUS
<1> QED
  BY <1>3, <1>4

(* h is what the folds of the community modules (MapThenFoldSet) iterate   *)
(* over the subsets of a finite set, taking out what pick names.           *)
IsFold(h, D, S, base, step, pick) ==
  /\ h \in [SUBSET D -> S]
  /\ \A s \in SUBSET D : h[s] = IF s = {} THEN base ELSE step[pick[s]][h[s \ {pick[s]}]]

Picks(pick, D) == \A s \in SUBSET D : s # {} => pick[s] \in s

(* With steps that stay in a set there is such a function.                 *)
LEMMA FoldExists ==
  ASSUME NEW D, IsFiniteSet(D), NEW S, NEW base \in S, NEW step \in Steps(D, S),
         NEW pick, Picks(pick, D)
  PROVE  \E h : IsFold(h, D, S, base, step, pick)
<1> DEFINE Small(m) == {s \in SUBSET D : Cardinality(s) <= m}
           Good(m, h) ==
             /\ h \in [Small(m) -> S]
             /\ \A s \in Small(m) :
                  h[s] = IF s = {} THEN base ELSE step[pick[s]][h[s \ {pick[s]}]]
           n == Cardinality(D)
           Bad == {m \in 0..n : ~ \E h : Good(m, h)}
<1>1. /\ n \in Nat
      /\ \A s \in SUBSET D : IsFiniteSet(s) /\ Cardinality(s) \in 0..n
  <2>1. n \in Nat
    BY FS_CardinalityType
  <2>2. \A s \in SUBSET D : IsFiniteSet(s) /\ Cardinality(s) <= n
    BY FS_Subset
  <2>3. \A s \in SUBSET D : Cardinality(s) \in Nat
    BY <2>2, FS_CardinalityType
  <2> QED
    BY <2>1, <2>2, <2>3
<1>2. \A s \in SUBSET D : s # {} =>
        /\ s \ {pick[s]} \in SUBSET D
        /\ Cardinality(s \ {pick[s]}) = Cardinality(s) - 1
  BY <1>1, FS_RemoveElement DEF Picks
<1>3. \A s \in SUBSET D : Cardinality(s) = 0 <=> s = {}
  BY <1>1, FS_EmptySet
<1> HIDE DEF n
<1>4. \E h : Good(0, h)
  <2>1. Good(0, [s \in Small(0) |-> base])
    BY <1>1, <1>3
  <2> QED
    BY <2>1
<1>5. ASSUME NEW m \in 1..n, NEW h, Good(m - 1, h)
      PROVE  \E g : Good(m, g)
  <2> DEFINE g == [s \in Small(m) |->
                     IF Cardinality(s) = m THEN step[pick[s]][h[s \ {pick[s]}]] ELSE h[s]]
  <2>1. ASSUME NEW s \in Small(m), s # {}
        PROVE  /\ s \ {pick[s]} \in Small(m - 1)
               /\ s \ {pick[s]} \in Small(m)
               /\ Cardinality(s \ {pick[s]}) # m
    BY <1>1, <1>2, <2>1
  <2>2. \A s \in Small(m) : Cardinality(s) # m => s \in Small(m - 1)
    BY <1>1
  <2>3. ASSUME NEW s \in Small(m), Cardinality(s) = m
        PROVE  s # {} /\ step[pick[s]][h[s \ {pick[s]}]] \in S
    <3>1. s # {}
      BY <1>3, <2>3
    <3>2. h[s \ {pick[s]}] \in S /\ pick[s] \in D
      BY <1>5, <2>1, <3>1 DEF Picks
    <3> QED
      BY <3>1, <3>2 DEF Steps
  <2>4. g \in [Small(m) -> S]
    BY <1>5, <2>2, <2>3
  <2>5. ASSUME NEW s \in Small(m)
        PROVE  g[s] = IF s = {} THEN base ELSE step[pick[s]][g[s \ {pick[s]}]]
    <3>1. s # {} => g[s \ {pick[s]}] = h[s \ {pick[s]}]
      BY <2>1
    <3>2. CASE Cardinality(s) = m
      BY <2>3, <3>1, <3>2
    <3>3. CASE Cardinality(s) # m
      <4>1. g[s] = h[s] /\ s \in Small(m - 1)
        BY <2>2, <3>3
      <4> HIDE DEF g
      <4> QED
        BY <1>5, <3>1, <4>1
    <3> QED
      BY <3>2, <3>3
  <2> HIDE DEF g
  <2> QED
    BY <2>4, <2>5
<1> HIDE DEF Good
<1>6. Bad = {}
  <2> SUFFICES ASSUME Bad # {} PROVE FALSE
    OBVIOUS
  <2>1. PICK m \in Bad : \A j \in Bad : m <= j
    <3>1. Bad \in SUBSET Nat
      OBVIOUS
    <3> HIDE DEF Bad
    <3> QED
      BY <3>1, LeastExists
  <2>2. m # 0
    BY <1>4
  <2>3. m \in 1..n /\ m - 1 \in 0..n /\ m - 1 \notin Bad
    BY <1>1, <2>1, <2>2
  <2> QED
    BY <1>5, <2>3
<1>7. n \in 0..n
  BY <1>1
<1>8. PICK h : Good(n, h)
  BY <1>6, <1>7
<1>9. Small(n) = SUBSET D
  BY <1>1
<1>10. IsFold(h, D, S, base, step, pick)
  <2> HIDE DEF Small
  <2> QED
    BY <1>8, <1>9 DEF Good, IsFold
<1> QED
  BY <1>10

(* The last of a set of positions, and the first.                          *)
LEMMA EndsExist ==
  ASSUME NEW n \in Nat, NEW T \in SUBSET (0..n), T # {}
  PROVE  /\ Max(T) \in T /\ \A j \in T : j <= Max(T)
         /\ Min(T) \in T /\ \A j \in T : Min(T) <= j
<1>1. T \in SUBSET Nat /\ T \in SUBSET Int
  OBVIOUS
<1>2. PICK m \in T : \A j \in T : m <= j
  BY <1>1, LeastExists
<1>3. Min(T) = m
  BY <1>1, <1>2, MinIs
<1> DEFINE U == {n - i : i \in T}
<1>4. U \in SUBSET Nat /\ U # {}
  <2>1. \A i \in T : n - i \in Nat
    OBVIOUS
  <2>2. n - m \in U
    OBVIOUS
  <2> QED
    BY <2>1, <2>2
<1>5. PICK u \in U : \A j \in U : u <= j
  <2> HIDE DEF U
  <2> QED
    BY <1>4, LeastExists
<1>6. PICK k \in T : u = n - k
  OBVIOUS
<1>7. \A j \in T : j <= k
  <2>1. \A j \in T : n - k <= n - j
    BY <1>5, <1>6
  <2> QED
    BY <2>1
<1>8. Max(T) = k
  BY <1>1, <1>7, MaxIs
<1> QED
  BY <1>2, <1>3, <1>7, <1>8

(* What FoldLeft iterates: over the positions 1..n, the last one outermost.*)
LastFold(h, n, S, base, step) ==
  /\ h \in [SUBSET (1..n) -> S] /\ h[{}] = base
  /\ \A s \in SUBSET (1..n) :
       s # {} => Max(s) \in s /\ h[s] = step[Max(s)][h[s \ {Max(s)}]]

(* There is such a function.                                               *)
LEMMA LastFoldExists ==
  ASSUME NEW n \in Nat, NEW S, NEW base \in S, NEW step \in Steps(1..n, S)
  PROVE  \E h : LastFold(h, n, S, base, step)
<1> DEFINE D == 1..n
           pick == [s \in SUBSET D |-> Max(s)]
<1>1. Picks(pick, D) /\ \A s \in SUBSET D : s # {} => Max(s) \in s
  <2>1. ASSUME NEW s \in SUBSET D, s # {} PROVE Max(s) \in s
    <3>1. s \in SUBSET (0..n)
      OBVIOUS
    <3> QED
      BY <2>1, <3>1, EndsExist
  <2> QED
    BY <2>1 DEF Picks
<1>2. IsFiniteSet(D)
  BY FS_Interval
<1>3. PICK h : IsFold(h, D, S, base, step, pick)
  <2> HIDE DEF D, pick
  <2>1. step \in Steps(D, S)
    BY DEF D
  <2> QED
    BY <1>1, <1>2, <2>1, FoldExists
<1>4. /\ h \in [SUBSET D -> S] /\ {} \in SUBSET D
      /\ \A s \in SUBSET D : h[s] = IF s = {} THEN base ELSE step[pick[s]][h[s \ {pick[s]}]]
  BY <1>3 DEF IsFold
<1>5. \A s \in SUBSET D : pick[s] = Max(s)
  OBVIOUS
<1> HIDE DEF pick
<1>6. h[{}] = base
  BY <1>4
<1>7. \A s \in SUBSET D : s # {} => h[s] = step[Max(s)][h[s \ {Max(s)}]]
  BY <1>4, <1>5
<1> QED
  BY <1>1, <1>4, <1>6, <1>7 DEF LastFold

(* fold does as step says as long as it stays in S.                        *)
FoldsBy(fold, n, S, base, step) ==
  /\ fold[{}] = base
  /\ \A s \in SUBSET (1..n) : s # {} /\ fold[s \ {Max(s)}] \in S =>
       fold[s] = step[Max(s)][fold[s \ {Max(s)}]]

(* Over all positions it comes to the last of the iterates.                *)
LEMMA FoldedIs ==
  ASSUME NEW n \in Nat, NEW S, NEW base \in S, NEW step,
         NEW u, Iterates(u, n, S, base, step),
         NEW fold, FoldsBy(fold, n, S, base, step)
  PROVE  fold[1..n] = u[n]
<1> DEFINE T == {i \in 0..n : fold[1..i] = u[i]}
<1>1. u \in [0..n -> S] /\ u[0] = base /\ \A i \in 1..n : u[i] = step[i][u[i - 1]]
  BY DEF Iterates
<1>2. 0 \in T
  <2>1. 1..0 = {}
    OBVIOUS
  <2> QED
    BY <1>1, <2>1 DEF FoldsBy
<1>3. ASSUME NEW i \in 1..n, i - 1 \in T PROVE i \in T
  <2>1. Max(1..i) = i
    <3>1. 1..i \in SUBSET Int /\ i \in 1..i /\ \A j \in 1..i : j <= i
      OBVIOUS
    <3> QED
      BY <3>1, MaxIs
  <2>2. (1..i) \ {i} = 1..(i - 1)
    OBVIOUS
  <2>3. 1..i \in SUBSET (1..n) /\ 1..i # {}
    <3>1. \A j \in 1..i : j \in 1..n
      OBVIOUS
    <3>2. i \in 1..i
      OBVIOUS
    <3> QED
      BY <3>1, <3>2
  <2>4. fold[1..(i - 1)] = u[i - 1] /\ u[i - 1] \in S
    BY <1>1, <1>3
  <2> DEFINE s == 1..i
             r == 1..(i - 1)
  <2>5. s \in SUBSET (1..n) /\ s # {} /\ Max(s) = i /\ s \ {i} = r /\ fold[r] \in S
    BY <2>1, <2>2, <2>3, <2>4
  <2> HIDE DEF s, r
  <2>6. fold[s] = step[i][fold[r]]
    BY <2>5 DEF FoldsBy
  <2>7. fold[1..i] = u[i]
    BY <1>1, <2>4, <2>6 DEF s, r
  <2> QED
    BY <2>7
<1>4. T \in SUBSET (0..n)
  OBVIOUS
<1>5. n \in T
  <2> HIDE DEF T
  <2> QED
    BY <1>2, <1>3, <1>4, UpToAll
<1> QED
  BY <1>5
=============================================================================
