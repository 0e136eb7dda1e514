------------------------------ MODULE TermMap ------------------------------
(***************************************************************************)
(* What a tenant's trie promises: a map from terms to total frequencies,   *)
(* whatever shape holds it.                                                *)
(***************************************************************************)
EXTENDS Naturals, FiniteSets

CONSTANTS Terms,    (* the terms that may be stored                         *)
          Weights,  (* the weights of inserts, and the frequencies of sets  *)
          MaxFreq,  (* the largest frequency: u64::MAX                      *)
          Absent    (* the frequency of a term that is not stored           *)

VARIABLES freqs,    (* the frequency of each term                           *)
          size      (* the number of stored terms                           *)

Freqs == 0..MaxFreq

Init ==
  /\ freqs = [t \in Terms |-> Absent]
  /\ size = 0

Store(t, f) ==
  LET after == [freqs EXCEPT ![t] = f]
  IN  /\ freqs' = after
      /\ size' = Cardinality({u \in Terms : after[u] # Absent})

Sum(f, w) ==
  LET sum == (IF f = Absent THEN 0 ELSE f) + w
  IN  IF sum <= MaxFreq THEN sum ELSE MaxFreq

Insert(t, w) == Store(t, Sum(freqs[t], w))
Set(t, f) == Store(t, f)
Remove(t) == freqs[t] # Absent /\ Store(t, Absent)

Next ==
  \E t \in Terms :
    \/ \E w \in Weights : Insert(t, w) \/ Set(t, w)
    \/ Remove(t)

Spec == Init /\ [][Next]_<<freqs, size>>
=============================================================================
