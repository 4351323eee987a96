----------------------------- MODULE MergeTable -----------------------------
(***************************************************************************)
(* The vocabulary as the tokenizers use it: which two neighbouring pieces  *)
(* of a word can be put together, and how well that scores.                *)
(***************************************************************************)
EXTENDS Integers, Sequences

\* The pieces of word w from position i, m characters long, and behind it, n long.
Pair(w, i, m, n) == <<SubSeq(w, i, i + m - 1), SubSeq(w, i + m, i + m + n - 1)>>

\* vocab.find_bpe_rank, or a look-up of the text of both in token_to_id: found?
InTable(table, w, i, m, n) == Pair(w, i, m, n) \in DOMAIN table

\* The score; find_bpe_rank's is the better the smaller it is (taken as its
\* negative).
Score(table, w, i, m, n) == table[Pair(w, i, m, n)]
=============================================================================
