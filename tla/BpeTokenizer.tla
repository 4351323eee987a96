---------------------------- MODULE BpeTokenizer ----------------------------
(***************************************************************************)
(* llama_sp_tokenizer and llm_bpe_tokenizer on a word: a list of symbols   *)
(* linked by index, and a priority queue of pairs that were neighbours     *)
(* when they were queued.  A pair is not taken out of the queue when one   *)
(* of its symbols changes: the sizes tell, when it comes to the top,       *)
(* whether it is still what it was.                                        *)
(***************************************************************************)
EXTENDS MergeTable

CONSTANTS
    Words,      \* the words there are to tokenize: sequences of characters
    Tables      \* the vocabularies: functions from pairs of texts to scores

ASSUME BpeAssumption ==
    /\ \A w \in Words : Len(w) \in Nat \ {0}
    /\ \A t \in Tables : \A p \in DOMAIN t : t[p] \in Int

VARIABLES
    word, scores,   \* what is tokenized, with which vocabulary
    n,              \* the symbols' sizes: 0 for one that was merged into another
    prev, next,     \* their neighbours, or None
    work_queue      \* the bigrams that wait

vars == <<word, scores, n, prev, next, work_queue>>

-----------------------------------------------------------------------------
None == 0       \* the code counts symbols from 0 and has -1 here
Index == 1 .. Len(word)

\* try_add_bigram, add_new_bigram: the pair, when there are two symbols and the
\* vocabulary has them.
Bigrams(left, right, sizes) ==
    IF left = None \/ right = None THEN {}
    ELSE IF ~InTable(scores, word, left, sizes[left], sizes[right]) THEN {}
    ELSE {[left |-> left, right |-> right, size |-> sizes[left] + sizes[right],
           score |-> Score(scores, word, left, sizes[left], sizes[right])]}

BeforeByScore(b, c) ==  \* mutant: the comparator looks at the score only
    b.score > c.score

\* The comparator of the queue.
Before(b, c) == b.score > c.score \/ (b.score = c.score /\ b.left < c.left)

\* The symbols are characters, all pairs of neighbours are queued.
Init ==
    /\ word \in Words /\ scores \in Tables
    /\ n = [i \in Index |-> 1]
    /\ prev = [i \in Index |-> i - 1]
    /\ next = [i \in Index |-> IF i = Len(word) THEN None ELSE i + 1]
    /\ work_queue = UNION {Bigrams(i - 1, i, n) : i \in 2 .. Len(word)}

IsTop(b) == b \in work_queue /\ \A c \in work_queue : ~Before(c, b)

Stale(b) == n[b.left] = 0 \/ n[b.right] = 0 \/ n[b.left] + n[b.right] # b.size

\* The top of the queue is a pair that is no more: it is skipped.
Skip(b) ==
    /\ IsTop(b) /\ Stale(b)
    /\ work_queue' = work_queue \ {b}
    /\ UNCHANGED <<word, scores, n, prev, next>>

MergeKeepsPrev(b) ==  \* mutant: the chain is mended in one direction only
    /\ IsTop(b) /\ ~Stale(b)
    /\ n' = [n EXCEPT ![b.left] = @ + n[b.right], ![b.right] = 0]
    /\ next' = [next EXCEPT ![b.left] = next[b.right]]
    /\ work_queue' = (work_queue \ {b}) \cup Bigrams(prev[b.left], b.left, n')
                                        \cup Bigrams(b.left, next'[b.left], n')
    /\ UNCHANGED <<word, scores, prev>>

MergeAddsRight(b) ==  \* mutant: the pair with the left neighbour is not queued
    /\ IsTop(b) /\ ~Stale(b)
    /\ n' = [n EXCEPT ![b.left] = @ + n[b.right], ![b.right] = 0]
    /\ next' = [next EXCEPT ![b.left] = next[b.right]]
    /\ prev' = [i \in Index |-> IF i = next[b.right] THEN b.left ELSE prev[i]]
    /\ work_queue' = (work_queue \ {b}) \cup Bigrams(b.left, next'[b.left], n')
    /\ UNCHANGED <<word, scores>>

MergeRequeues(b) ==  \* mutant: the pair stays in the queue
    /\ IsTop(b) /\ ~Stale(b)
    /\ UNCHANGED vars

\* The right symbol of the top is merged into the left one and leaves the chain;
\* the left one has two new pairs.
MergeTop(b) ==
    /\ IsTop(b) /\ ~Stale(b)
    /\ n' = [n EXCEPT ![b.left] = @ + n[b.right], ![b.right] = 0]
    /\ next' = [next EXCEPT ![b.left] = next[b.right]]
    /\ prev' = [i \in Index |-> IF i = next[b.right] THEN b.left ELSE prev[i]]
    /\ work_queue' = (work_queue \ {b}) \cup Bigrams(prev[b.left], b.left, n')
                                        \cup Bigrams(b.left, next'[b.left], n')
    /\ UNCHANGED <<word, scores>>

Next == \E b \in work_queue : Skip(b) \/ MergeTop(b)

Spec == Init /\ [][Next]_vars /\ WF_vars(Next)

-----------------------------------------------------------------------------
(* Properties. *)

Symbols == {i \in Index : n[i] > 0}

Greedy == INSTANCE GreedyMerge WITH starts <- Symbols

\* Every variable has its type.
TypeOK ==
    /\ word \in Words /\ scores \in Tables
    /\ n \in [Index -> 0 .. Len(word)]
    /\ prev \in [Index -> Index \cup {None}] /\ next \in [Index -> Index \cup {None}]
    /\ \A b \in work_queue : /\ b.left \in Index /\ b.right \in Index /\ b.left < b.right
                             /\ b.size \in 2 .. Len(word) /\ b.score \in Int

\* The chain of symbols is the word, without gap or overlap, in both directions:
\* what is written into the output is the text that came in.
ChainIsWord ==
    /\ n[1] > 0
    /\ \A i \in Symbols :
        /\ i + n[i] <= Len(word) + 1
        /\ \A k \in i + 1 .. i + n[i] - 1 : n[k] = 0
        /\ next[i] = IF i + n[i] = Len(word) + 1 THEN None ELSE i + n[i]
        /\ next[i] # None => next[i] \in Symbols /\ prev[next[i]] = i

\* A pair in the queue that is not taken for stale is a pair of neighbours, and it
\* scores what it scored when it was queued.
FreshIsPair ==
    \A b \in work_queue : ~Stale(b) => b \in Bigrams(b.left, next[b.left], n)

\* When the queue is empty nothing is left to merge.
EndsIrreducible ==
    work_queue = {} => \A i \in Symbols : Bigrams(i, next[i], n) = {}

\* Skipping stale pairs, the queue merges exactly what greedy merging would.
ImplementsGreedyMerge == Greedy!Spec

\* The tokenizer ends.
QueueEmpties == <>(work_queue = {})
=============================================================================
