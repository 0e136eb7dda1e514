-------------------------------- MODULE Typo --------------------------------
(***************************************************************************)
(* The rows of src/typo.rs: after consuming a word, entry i of the row is  *)
(* to be the Levenshtein distance of that word to the first i bytes of the *)
(* query.                                                                  *)
(***************************************************************************)
EXTENDS Naturals, SequencesExt

InitialRow(n) == [i \in 0..n |-> i]

NextRow_SkipsInsertions(prev, query, ch) ==
  [i \in DOMAIN prev |->
     IF i = 0 THEN prev[0] + 1
     ELSE Min({prev[i] + 1,
               prev[i - 1] + (IF query[i] = ch THEN 0 ELSE 1)})]

(* next_row: one more byte consumed from an edge.                          *)
NextRow(prev, query, ch) ==
  LET next[i \in DOMAIN prev] ==
        IF i = 0 THEN prev[0] + 1
        ELSE Min({prev[i] + 1,
                  next[i - 1] + 1,
                  prev[i - 1] + (IF query[i] = ch THEN 0 ELSE 1)})
  IN  next

RowMin(row) == Min({row[i] : i \in DOMAIN row})

(* distance: the last entry of the row behind the whole of a word.         *)
Distance(a, b) ==
  FoldLeft(LAMBDA row, ch : NextRow(row, b, ch), InitialRow(Len(b)), a)[Len(b)]
=============================================================================
