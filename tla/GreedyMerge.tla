---------------------------- MODULE GreedyMerge -----------------------------
(***************************************************************************)
(* What a byte pair tokenizer promises of a word: beginning with a piece   *)
(* for each character, the two neighbours that score best are put together *)
(* -- of those that score the same the leftmost -- until no neighbours are *)
(* in the table.                                                           *)
(*                                                                         *)
(* A piece is named by the position of its first character.                *)
(***************************************************************************)
EXTENDS MergeTable

CONSTANTS
    Words,      \* the words there are to tokenize: sequences of characters
    Tables      \* the vocabularies: functions from pairs of texts to scores

VARIABLES word, scores, starts

vars == <<word, scores, starts>>

-----------------------------------------------------------------------------
\* j is where the piece at i ends: the next piece's start, or the word's end.
EndsAt(i, j) ==
    /\ j \in starts \cup {Len(word) + 1} /\ i < j
    /\ \A k \in starts : k <= i \/ j <= k

\* The pieces at i and j are neighbours that can be put together; the second ends
\* at e.
CanMerge(i, j, e) ==
    /\ i \in starts /\ j \in starts
    /\ EndsAt(i, j) /\ EndsAt(j, e)
    /\ InTable(scores, word, i, j - i, e - j)

ScoreOf(i, j, e) == Score(scores, word, i, j - i, e - j)

Position == 1 .. Len(word) + 1

\* No others score better, and those that score the same are further right.
IsBest(i, j, e) ==
    \A k, l, f \in Position :
        CanMerge(k, l, f) => \/ ScoreOf(k, l, f) < ScoreOf(i, j, e)
                             \/ ScoreOf(k, l, f) = ScoreOf(i, j, e) /\ i <= k

Init ==
    /\ word \in Words /\ scores \in Tables
    /\ starts = 1 .. Len(word)

Merge ==
    /\ \E i, j, e \in Position :
           /\ CanMerge(i, j, e) /\ IsBest(i, j, e)
           /\ starts' = starts \ {j}
    /\ UNCHANGED <<word, scores>>

Spec == Init /\ [][Merge]_vars
=============================================================================
