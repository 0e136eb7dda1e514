---------------------------- MODULE MCTrieSearch ----------------------------
(***************************************************************************)
(* Searches over every trie that inserts and removes of a few terms lead   *)
(* to, with frequencies that tie and that differ.                          *)
(***************************************************************************)
EXTENDS TrieSearch

MCTerms == {<<1>>, <<1, 1>>, <<1, 2, 1>>, <<1, 2, 2>>, <<2, 1>>, <<2, 2, 2, 1>>}

Prefix(text, k) == [fuzzy |-> FALSE, text |-> text, budget |-> 0, k |-> k]
Fuzzy(text, budget, k) == [fuzzy |-> TRUE, text |-> text, budget |-> budget, k |-> k]

(* Prefixes that end at the root, at a node, on an edge and nowhere.       *)
MCPrefixes ==
  {Prefix(<<>>, 1), Prefix(<<>>, 2), Prefix(<<>>, 3), Prefix(<<1>>, 2),
   Prefix(<<1, 2>>, 1), Prefix(<<2, 2>>, 1), Prefix(<<1>>, 0)}

(* A typo of each kind, at the start and the end, and the empty query.     *)
MCFuzzies ==
  {Fuzzy(<<1, 1, 1>>, 0, 2), Fuzzy(<<1, 1, 1>>, 1, 1), Fuzzy(<<2, 2, 1>>, 1, 2),
   Fuzzy(<<2, 1, 2>>, 2, 2), Fuzzy(<<>>, 1, 1)}
MCQueries == MCPrefixes \cup MCFuzzies
=============================================================================
