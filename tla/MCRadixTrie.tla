---------------------------- MODULE MCRadixTrie ----------------------------
(***************************************************************************)
(* Tries over the bytes 1 and 2: terms that are prefixes of each other,    *)
(* that leave an edge at its first, middle and last byte, and the empty    *)
(* term.                                                                   *)
(***************************************************************************)
EXTENDS RadixTrie

MCTerms ==
  {<<>>, <<1>>, <<1, 1, 1>>, <<1, 1, 2, 1>>, <<1, 1, 2, 2>>, <<2, 1>>, <<2, 2>>}

MCFewTerms == {<<>>, <<1>>, <<1, 1, 1>>, <<1, 1, 2, 1>>, <<1, 2, 2>>}
=============================================================================
