----------------------------- MODULE TrieSearch -----------------------------
(***************************************************************************)
(* Prefix and fuzzy search over the trie, one child of one node a step.    *)
(* The children of a node sit in a HashMap, so they come in any order, and *)
(* what a search prunes depends on what it happened to see first.  The     *)
(* recursion is a stack of frames.  A search holds the tenant's read lock  *)
(* from its start to its answer, so the trie changes between searches.     *)
(***************************************************************************)
EXTENDS RadixTrie, Typo, TopK

CONSTANTS
  Queries,  (* what may be asked: [fuzzy, text, budget, k]                  *)
  MaxBudget,  (* the largest budget of edits, u32::MAX                      *)
  None      (* no search under way; no answer yet                           *)

ASSUME SearchAssumption ==
  /\ \A q \in Queries : /\ q.fuzzy \in BOOLEAN /\ q.text \in Seq(Nat)
                       /\ q.budget \in 0..MaxBudget /\ q.k \in Nat
  /\ MaxBudget \in Nat
  /\ None \notin Queries

VARIABLES
  query,    (* the query being answered                                     *)
  stack,    (* the frames, the innermost last: the node, its row, and the   *)
            (* children its loop has still to come to                       *)
  heap,     (* the entries kept so far                                      *)
  answer    (* the sorted hits, once the walk is over                       *)

searchVars == <<query, stack, heap, answer>>
allVars == <<trie, len, searchVars>>

----------------------------------------------------------------------------

Prunable_OnTies(q, node, hp) ==
  \E cutoff \in Cutoff(q.k, hp) : trie[node].max <= cutoff

(* prunable: strictly below the cutoff.                                    *)
Prunable(q, node, hp) ==
  \E cutoff \in Cutoff(q.k, hp) : trie[node].max < cutoff

Reachable(q, row) == q.fuzzy => RowMin(row) <= q.budget

(* The row behind the edge to a child; the loop over the edge's bytes ends *)
(* with the first row whose minimum exceeds the budget.                    *)
RowBehind(q, row, edge) ==
  IF q.fuzzy
  THEN FoldLeft(LAMBDA r, ch : IF Reachable(q, r) THEN NextRow(r, q.text, ch) ELSE r,
                row, edge)
  ELSE row

Edge(p, c) == SubSeq(c, Len(p) + 1, Len(c))

(* What a call on a node does before its loop over the children.           *)
Arrive(q, node, row, hp) ==
  LET distance == IF q.fuzzy THEN row[Len(q.text)] ELSE 0
  IN  IF trie[node].terminal /\ distance <= q.budget
      THEN Offer(q.k, hp, [score |-> trie[node].frequency, term |-> node,
                           distance |-> distance])
      ELSE hp

Frame_AtRoot(node, row) ==
  [node |-> node, row |-> row, pending |-> Children(trie, Root)]

Frame(node, row) == [node |-> node, row |-> row, pending |-> Children(trie, node)]

Top == stack[Len(stack)]
Caller == SubSeq(stack, 1, Len(stack) - 1)
Leaving(c) == Append(Caller, [Top EXCEPT !.pending = @ \ {c}])

----------------------------------------------------------------------------

SearchInit ==
  /\ Init
  /\ query = None /\ stack = <<>> /\ heap = {} /\ answer = None

(* A write gets the lock.                                                  *)
Write == query = None /\ Next /\ UNCHANGED searchVars

(* The node a walk begins at: the root of a fuzzy one, for a prefix the    *)
(* node that covers it, if there is one.                                   *)
Starts(q) == IF q.fuzzy THEN {Root} ELSE Descend(trie, q.text)

(* Nothing can be found, or nothing is wanted.                             *)
AnswerNothing(q) ==
  /\ query = None
  /\ q.k = 0 \/ Starts(q) = {}
  /\ query' = q
  /\ answer' = <<>>
  /\ UNCHANGED <<trie, len, stack, heap>>

Begin(q) ==
  /\ query = None
  /\ q.k > 0
  /\ \E node \in Starts(q) :
       LET row == IF q.fuzzy THEN InitialRow(Len(q.text)) ELSE <<>>
       IN  /\ stack' = <<Frame(node, row)>>
           /\ heap' = Arrive(q, node, row, {})
  /\ query' = q
  /\ UNCHANGED <<trie, len, answer>>

(* The loop comes to a child that cannot beat the cutoff.                  *)
Prune(c) ==
  /\ Prunable(query, c, heap)
  /\ stack' = Leaving(c)
  /\ UNCHANGED <<trie, len, query, heap, answer>>

(* It comes to a child no term behind which is within the budget.          *)
Abandon(c) ==
  /\ ~Prunable(query, c, heap)
  /\ ~Reachable(query, RowBehind(query, Top.row, Edge(Top.node, c)))
  /\ stack' = Leaving(c)
  /\ UNCHANGED <<trie, len, query, heap, answer>>

Enter(c) ==
  LET row == RowBehind(query, Top.row, Edge(Top.node, c))
  IN  /\ ~Prunable(query, c, heap)
      /\ Reachable(query, row)
      /\ heap' = Arrive(query, c, row, heap)
      /\ stack' = Append(Leaving(c), Frame(c, row))
      /\ UNCHANGED <<trie, len, query, answer>>

Return ==
  /\ Top.pending = {}
  /\ stack' = Caller
  /\ answer' = IF Caller = <<>> THEN Sorted(heap) ELSE None
  /\ UNCHANGED <<trie, len, query, heap>>

(* The caller has the answer and the lock is free again.                   *)
Release ==
  /\ answer # None
  /\ query' = None /\ heap' = {} /\ answer' = None
  /\ UNCHANGED <<trie, len, stack>>

Walk ==
  /\ stack # <<>>
  /\ \/ \E c \in Top.pending : Prune(c) \/ Abandon(c) \/ Enter(c)
     \/ Return

SearchNext ==
  \/ Write
  \/ \E q \in Queries : AnswerNothing(q) \/ Begin(q)
  \/ Walk
  \/ Release

SearchSpec == SearchInit /\ [][SearchNext]_allVars

----------------------------------------------------------------------------
(* What a search should find, without rows, heaps or nodes.                *)

Bytes == UNION {{t[i] : i \in DOMAIN t} : t \in Terms \cup {q.text : q \in Queries}}

(* Everything one insertion, deletion or substitution turns a word into.   *)
Edits(s) ==
  {RemoveAt(s, i) : i \in 1..Len(s)}
    \cup {InsertAt(s, i, b) : i \in 1..Len(s) + 1, b \in Bytes}
    \cup {ReplaceAt(s, i, b) : i \in 1..Len(s), b \in Bytes}

Budgets == 0..MaxBudget

(* The words within n edits of each part of a query.                       *)
Near ==
  [s \in UNION {Prefixes(q.text) : q \in {r \in Queries : r.fuzzy}} |->
     LET near[n \in Budgets] ==
           IF n = 0 THEN {s} ELSE near[n - 1] \cup UNION {Edits(w) : w \in near[n - 1]}
     IN  near]

Matches(q, t) ==
  /\ Stored(trie, t)
  /\ IF q.fuzzy THEN t \in Near[q.text][q.budget] ELSE IsPrefix(q.text, t)

DistanceTo(q, t) ==
  IF q.fuzzy THEN Min({n \in Budgets : t \in Near[q.text][n]}) ELSE 0

Hits(q) ==
  {[score |-> Frequency(trie, t), term |-> t, distance |-> DistanceTo(q, t)] :
     t \in {u \in Terms : Matches(q, u)}}

----------------------------------------------------------------------------
(* Properties.                                                             *)

(* A walk is a path of frames down the trie, each with children of its own *)
(* node left, and it keeps at most k entries.                              *)
SearchTypeOK ==
  /\ query \in Queries \cup {None}
  /\ query = None => stack = <<>> /\ heap = {} /\ answer = None
  /\ query # None => Cardinality(heap) <= query.k
  /\ \A i \in DOMAIN stack :
       /\ stack[i].pending \subseteq Children(trie, stack[i].node)
       /\ i > 1 => /\ stack[i].node \in Children(trie, stack[i - 1].node)
                   /\ stack[i].node \notin stack[i - 1].pending

(* In whatever order the children come, an answer is the k best of all     *)
(* stored terms that match, best first, each with its exact distance: the  *)
(* pruning on a cached maximum and on a row's minimum costs no hit, not    *)
(* even among ties.                                                        *)
AnswerIsTopK ==
  answer # None =>
    answer = Sorted({h \in Hits(query) :
                       Cardinality({g \in Hits(query) : Better(g, h)}) < query.k})

(* The cutoff a subtree is pruned against never falls during a walk, so    *)
(* what was pruned once would still be pruned at the end.                  *)
CutoffOnlyRises ==
  [][query # None /\ query' = query =>
       \A c \in Cutoff(query.k, heap) :
         \E d \in Cutoff(query.k, heap') : d >= c]_allVars

(* While a search walks, every step brings it nearer to its end: no node   *)
(* is come to again, be it pruned, abandoned or entered, and no call is    *)
(* left open, so the tenant's read lock is given back.                     *)
StepsLeft ==
  2 * Cardinality({x \in DOMAIN trie :
                     \E i \in DOMAIN stack : \E d \in stack[i].pending : IsPrefix(d, x)})
    + Len(stack)

WalksEnd == [][stack # <<>> => StepsLeft' < StepsLeft]_allVars

(* The row carried along a path of edges, computed a byte at a time, has   *)
(* the edit distances from the path to every beginning of the query, as    *)
(* far as they are within the budget.                                      *)
RowsAreDistances ==
  query # None /\ query.fuzzy =>
    \A i \in DOMAIN stack : \A j \in 0..Len(query.text) : \A n \in 0..query.budget :
      stack[i].row[j] <= n <=> stack[i].node \in Near[SubSeq(query.text, 1, j)][n]
=============================================================================
