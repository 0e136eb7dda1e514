-------------------------------- MODULE TopK --------------------------------
(***************************************************************************)
(* The bounded heap of src/scoring.rs, as the set of the entries it holds. *)
(* Entries are ordered by score and then by the term wrapped in Reverse,   *)
(* so of two terms with one score the lexicographically smaller is better. *)
(* (A term is offered once, so the distance never decides.)                *)
(***************************************************************************)
EXTENDS Naturals, Sequences, SequencesExt

(* The lexicographic order of byte strings.                                *)
Precedes(a, b) ==
  \/ IsStrictPrefix(a, b)
  \/ \E i \in 1..Min({Len(a), Len(b)}) :
       SubSeq(a, 1, i - 1) = SubSeq(b, 1, i - 1) /\ a[i] < b[i]

Better(e, f) ==
  \/ e.score > f.score
  \/ e.score = f.score /\ Precedes(e.term, f.term)

Worst(heap) == CHOOSE e \in heap : \A f \in heap \ {e} : Better(f, e)

Full(k, heap) == k > 0 /\ Cardinality(heap) >= k

Offer_EvictsAnyway(k, heap, e) ==
  IF Cardinality(heap) < k THEN heap \cup {e} ELSE (heap \ {Worst(heap)}) \cup {e}

Offer_OneTooMany(k, heap, e) ==
  IF Cardinality(heap) <= k THEN heap \cup {e}
  ELSE IF Better(e, Worst(heap)) THEN (heap \ {Worst(heap)}) \cup {e}
  ELSE heap

(* offer: the heap afterwards.                                             *)
Offer(k, heap, e) ==
  IF k = 0 THEN heap
  ELSE IF ~Full(k, heap) THEN heap \cup {e}
  ELSE IF Better(e, Worst(heap)) THEN (heap \ {Worst(heap)}) \cup {e}
  ELSE heap

(* cutoff: the lowest score in a full heap, and nothing before.            *)
Cutoff(k, heap) == IF Full(k, heap) THEN {Worst(heap).score} ELSE {}

(* into_sorted_vec: the entries one by one, the best first.                *)
Sorted(heap) ==
  CHOOSE s \in [1..Cardinality(heap) -> heap] :
    \A i, j \in 1..Cardinality(heap) : i < j => Better(s[i], s[j])
=============================================================================
