----------------------------- MODULE RadixTrie -----------------------------
(***************************************************************************)
(* The compressed trie of src/trie.  A node is named by the bytes on the   *)
(* way to it from the root, so an edge label is what a child's name adds   *)
(* to its parent's, and the children of a node are the nodes below it with *)
(* none in between.  Each public operation runs under the tenant's lock    *)
(* and is one action, made of the passes the recursion makes: down, where  *)
(* it splits an edge, and back up, where it compacts nodes and recomputes  *)
(* the cached maxima from those of the children.                           *)
(***************************************************************************)
EXTENDS Naturals, Sequences, FiniteSets, SequencesExt

CONSTANTS Terms,    (* the terms that may be indexed: sequences of bytes    *)
          Weights,  (* the weights of inserts, and the frequencies of sets  *)
          MaxFreq,  (* the largest frequency: u64::MAX                      *)
          Absent    (* the frequency of a term that is not stored           *)

ASSUME TrieAssumption ==
  /\ MaxFreq \in Nat
  /\ Weights \subseteq 0..MaxFreq
  /\ Absent \notin 0..MaxFreq
  /\ Terms \subseteq Seq(Nat) /\ IsFiniteSet(Terms)

VARIABLES trie,  (* the nodes: a function on their names                    *)
          len    (* the cached number of terms                              *)

vars == <<trie, len>>

Root == <<>>
Node == [terminal : BOOLEAN, frequency : 0..MaxFreq, max : 0..MaxFreq]
EmptyNode == [terminal |-> FALSE, frequency |-> 0, max |-> 0]

Above(p, q) == IsStrictPrefix(p, q)

Children(tr, p) ==
  {q \in DOMAIN tr :
     Above(p, q) /\ ~ \E m \in DOMAIN tr : Above(p, m) /\ Above(m, q)}

Own(node) == IF node.terminal THEN node.frequency ELSE 0

----------------------------------------------------------------------------
(* Reading.                                                                *)

(* The deepest node all of whose bytes are consumed by key.                *)
Reached(tr, key) ==
  SubSeq(key, 1, Max({n \in 0..Len(key) : SubSeq(key, 1, n) \in DOMAIN tr}))

(* The children of a node whose edge begins with the next byte of key.     *)
NextChild(tr, p, key) ==
  {q \in Children(tr, p) : q[Len(p) + 1] = key[Len(p) + 1]}

Descend_StopsAtNodes(tr, key) ==
  LET p == Reached(tr, key)
  IN  IF p = key THEN {p} ELSE {}

(* descend: the node that covers key, also when key ends part-way along    *)
(* the edge to it; none when key leaves the edge.                          *)
Descend(tr, key) ==
  LET p == Reached(tr, key)
  IN  IF p = key THEN {p}
      ELSE {q \in NextChild(tr, p, key) : IsPrefix(key, q)}

Stored(tr, t) == \E q \in Descend(tr, t) : q = t /\ tr[q].terminal

Frequency(tr, t) == IF Stored(tr, t) THEN tr[t].frequency ELSE Absent

----------------------------------------------------------------------------
(* Writing.                                                                *)

(* The nodes on the way to key are among its prefixes, and the recursion   *)
(* returns from the longest first.                                         *)
WayUp(key) == [i \in 1..(Len(key) + 1) |-> SubSeq(key, 1, Len(key) + 1 - i)]

AddNode(tr, p, node) ==
  [q \in DOMAIN tr \cup {p} |-> IF q = p THEN node ELSE tr[q]]

HighestBelow(tr, p) == {tr[q].max : q \in Children(tr, p)}

RecomputeMax_ForgetsOwn(tr, p) ==
  IF p \in DOMAIN tr
  THEN AddNode(tr, p, [tr[p] EXCEPT !.max = Max({0} \cup HighestBelow(tr, p))])
  ELSE tr

RecomputeMax(tr, p) ==
  IF p \in DOMAIN tr
  THEN AddNode(tr, p, [tr[p] EXCEPT !.max = Max({Own(tr[p])} \cup HighestBelow(tr, p))])
  ELSE tr

Split_KeepsPayload(tr, key) ==
  LET p == Reached(tr, key)
      hit == IF p = key THEN {} ELSE NextChild(tr, p, key)
  IN  IF hit = {} THEN tr
      ELSE LET q == CHOOSE c \in hit : TRUE
           IN  AddNode(tr, LongestCommonPrefix({q, key}), [tr[q] EXCEPT !.terminal = FALSE])

(* split_edge_at, where key leaves an edge or ends on it: a new node       *)
(* takes the edge's first bytes; the node behind it keeps its payload.     *)
(* The new node's maximum is stale until the way up.                       *)
Split(tr, key) ==
  LET p == Reached(tr, key)
      hit == IF p = key THEN {} ELSE NextChild(tr, p, key)
  IN  IF hit = {} THEN tr
      ELSE LET q == CHOOSE c \in hit : TRUE
           IN  AddNode(tr, LongestCommonPrefix({q, key}), [EmptyNode EXCEPT !.max = tr[q].max])

(* insert_at and set_at after the split: mark the node the key ends at, or *)
(* attach a leaf for it, and recompute the maxima on the way up.           *)
Put(tr, t, f) ==
  LET marked == AddNode(tr, t,
                  [(IF t \in DOMAIN tr THEN tr[t] ELSE EmptyNode)
                     EXCEPT !.terminal = TRUE, !.frequency = f])
  IN  FoldLeft(RecomputeMax, marked, WayUp(t))

Saturated(n) == IF n <= MaxFreq THEN n ELSE MaxFreq

(* The frequency an insert adds to: the field of the node, whatever it is. *)
Before(tr, t) == IF t \in DOMAIN tr THEN tr[t].frequency ELSE 0

Drop(tr, p) == [q \in DOMAIN tr \ {p} |-> tr[q]]

Compact_OnlyLeaves(tr, p) ==
  IF p \in DOMAIN tr \ {Root} /\ ~tr[p].terminal /\ Children(tr, p) = {}
  THEN Drop(tr, p)
  ELSE tr

(* A node that is neither the root nor a term, with one child: the two are *)
(* merged and the child's payload moves up, which leaves the child's name. *)
(* With none: the parent removes it.                                       *)
Compact(tr, p) ==
  IF p \in DOMAIN tr \ {Root} /\ ~tr[p].terminal /\ Cardinality(Children(tr, p)) <= 1
  THEN Drop(tr, p)
  ELSE tr

Unwind(tr, p) == Compact(RecomputeMax(tr, p), p)

(* remove_at on a stored term.                                             *)
Take(tr, t) ==
  LET cleared == AddNode(tr, t, [tr[t] EXCEPT !.terminal = FALSE, !.frequency = 0])
  IN  FoldLeft(Unwind, cleared, WayUp(t))

----------------------------------------------------------------------------

Init ==
  /\ trie = [p \in {Root} |-> EmptyNode]
  /\ len = 0

CountNew(t) == len' = IF Stored(trie, t) THEN len ELSE len + 1

InsertTerm(t, w) ==
  /\ LET s == Split(trie, t)
     IN  trie' = Put(s, t, Saturated(Before(s, t) + w))
  /\ CountNew(t)

SetTerm(t, f) ==
  /\ trie' = Put(Split(trie, t), t, f)
  /\ CountNew(t)

RemoveTerm_ForgetsLen(t) ==
  /\ Stored(trie, t)
  /\ trie' = Take(trie, t)
  /\ UNCHANGED len

(* A term that is not stored is left alone: remove returns false.          *)
RemoveTerm(t) ==
  /\ Stored(trie, t)
  /\ trie' = Take(trie, t)
  /\ len' = len - 1

Next ==
  \E t \in Terms :
    \/ \E w \in Weights : InsertTerm(t, w) \/ SetTerm(t, w)
    \/ RemoveTerm(t)

Spec == Init /\ [][Next]_vars

----------------------------------------------------------------------------
(* Properties.                                                             *)

TypeOK ==
  /\ Root \in DOMAIN trie
  /\ \A p \in DOMAIN trie :
       trie[p] \in Node /\ (p # Root => \E t \in Terms : IsPrefix(p, t))
  /\ len \in 0..Cardinality(Terms)

(* The shape the module documentation promises after every operation:      *)
(* every node but the root is a term or a branch (so no removal leaves a   *)
(* leaf without a term or a node to be merged), two children of a node     *)
(* never begin with the same byte, and only terms carry a frequency.       *)
CanonicalShape ==
  \A p \in DOMAIN trie :
    /\ p = Root \/ trie[p].terminal \/ Cardinality(Children(trie, p)) >= 2
    /\ \A q, r \in Children(trie, p) : q # r => q[Len(p) + 1] # r[Len(p) + 1]
    /\ trie[p].terminal \/ trie[p].frequency = 0

(* The cached maximum of every node, kept up to date from the children's   *)
(* caches on one path only, is the highest frequency of the terms below    *)
(* it: what pruning a search relies on.                                    *)
MaximaExact ==
  \A p \in DOMAIN trie :
    trie[p].max =
      Max({0} \cup {trie[q].frequency : q \in {r \in DOMAIN trie :
                                    IsPrefix(p, r) /\ trie[r].terminal}})

(* Descending to a prefix, which may end part-way along an edge, finds the *)
(* one node whose subtree holds exactly the stored terms with that prefix, *)
(* or none if there are none.                                              *)
DescendCovers ==
  \A t \in Terms : \A key \in Prefixes(t) :
    {q \in DOMAIN trie : trie[q].terminal /\ \E p \in Descend(trie, key) : IsPrefix(p, q)}
      = {q \in DOMAIN trie : trie[q].terminal /\ IsPrefix(key, q)}

(* Whatever the shape, the trie is a map from terms to frequencies: an     *)
(* operation on one term never changes what another maps to, and len       *)
(* counts the terms.                                                       *)
Map == INSTANCE TermMap WITH
  freqs <- [t \in Terms |-> Frequency(trie, t)],
  size <- len
ImplementsMap == Map!Spec
=============================================================================
