------------------------- MODULE BpeTokenizer_proofs -------------------------
(***************************************************************************)
(* Theorems about BpeTokenizer, for words of every length and every table. *)
(***************************************************************************)
EXTENDS BpeTokenizer, FiniteSetTheorems, WellFoundedInduction, NaturalsInduction,
        TLAPS

L == Len(word)

TypeInv ==
    /\ word \in Words /\ scores \in Tables /\ L \in Nat \ {0}
    /\ n \in [Index -> 0 .. L]
    /\ prev \in [Index -> Index \cup {None}] /\ next \in [Index -> Index \cup {None}]
    /\ work_queue \subseteq [left : Index, right : Index, size : 2 .. L, score : Int]

\* The chain, as ChainIsWord has it, and the same from right to left.
Forward(i) ==
    /\ i + n[i] <= L + 1
    /\ \A k \in i + 1 .. i + n[i] - 1 : n[k] = 0
    /\ next[i] = IF i + n[i] = L + 1 THEN None ELSE i + n[i]
    /\ next[i] # None => n[next[i]] > 0 /\ prev[next[i]] = i

Backward(i) ==
    IF i = 1 THEN prev[i] = None
             ELSE prev[i] \in Index /\ n[prev[i]] > 0 /\ prev[i] + n[prev[i]] = i

ChainInv == n[1] > 0 /\ \A i \in Index : n[i] > 0 => Forward(i) /\ Backward(i)

\* A bigram in the queue was a pair of neighbours, and is one as long as both are
\* symbols and the left one's size has not changed.
Queued(b) ==
    LET m == b.right - b.left IN
    /\ m > 0 /\ b.size > m
    /\ InTable(scores, word, b.left, m, b.size - m)
    /\ b.score = Score(scores, word, b.left, m, b.size - m)
    /\ n[b.left] # 0 /\ n[b.right] # 0 => n[b.left] = m

QueueInv == \A b \in work_queue : Queued(b)

\* All pairs of neighbours that can be merged wait in the queue.
CompleteInv ==
    \A i \in Index :
        n[i] > 0 /\ next[i] # None /\ InTable(scores, word, i, n[i], n[next[i]]) =>
            \E b \in work_queue : /\ b.left = i /\ b.right = next[i]
                                  /\ b.size = n[i] + n[next[i]]

Inv == TypeInv /\ ChainInv /\ QueueInv /\ CompleteInv

-----------------------------------------------------------------------------
LEMMA ScoresAreNumbers ==
  ASSUME NEW t \in Tables, NEW w, NEW i, NEW m, NEW k, InTable(t, w, i, m, k)
  PROVE  Score(t, w, i, m, k) \in Int
  BY BpeAssumption DEF InTable, Score

\* What try_add_bigram adds.
LEMMA BigramsAre ==
  ASSUME NEW i, NEW j, NEW sizes
  PROVE  Bigrams(i, j, sizes) =
           IF i # None /\ j # None /\ InTable(scores, word, i, sizes[i], sizes[j])
           THEN {[left |-> i, right |-> j, size |-> sizes[i] + sizes[j],
                  score |-> Score(scores, word, i, sizes[i], sizes[j])]}
           ELSE {}
  BY DEF Bigrams

\* The bigram of two neighbours is a good one.
LEMMA BigramIsQueued ==
  ASSUME TypeInv, NEW i \in Index, NEW j \in Index, NEW sizes \in [Index -> 0 .. L],
         j = i + sizes[i], sizes[i] > 0, sizes[j] > 0, j + sizes[j] <= L + 1,
         InTable(scores, word, i, sizes[i], sizes[j]),
         NEW b, b = [left |-> i, right |-> j, size |-> sizes[i] + sizes[j],
                     score |-> Score(scores, word, i, sizes[i], sizes[j])]
  PROVE  /\ b \in [left : Index, right : Index, size : 2 .. L, score : Int]
         /\ b.right - b.left > 0 /\ b.size > b.right - b.left
         /\ InTable(scores, word, b.left, b.right - b.left, b.size - (b.right - b.left))
         /\ b.score = Score(scores, word, b.left, b.right - b.left, b.size - (b.right - b.left))
         /\ sizes[b.left] = b.right - b.left
<1>1. Score(scores, word, i, sizes[i], sizes[j]) \in Int
  BY ScoresAreNumbers DEF TypeInv
<1>2. i \in Nat \ {0} /\ j \in Nat /\ sizes[i] \in Nat /\ sizes[j] \in Nat /\ L \in Nat
  BY SMTT(40) DEF Index, TypeInv, L
<1>3. b.left = i /\ b.right = j /\ b.size = sizes[i] + sizes[j]
      /\ b.score = Score(scores, word, i, sizes[i], sizes[j])
  OBVIOUS
<1>4. sizes[i] + sizes[j] \in 2 .. L
  BY <1>2
<1>5. b \in [left : Index, right : Index, size : 2 .. L, score : Int]
  BY <1>1, <1>4
<1>6. j - i = sizes[i] /\ (sizes[i] + sizes[j]) - (j - i) = sizes[j]
  BY <1>2
<1>. QED
  BY <1>2, <1>3, <1>5, <1>6

-----------------------------------------------------------------------------
LEMMA InitHolds == Init => Inv
<1>. SUFFICES ASSUME Init PROVE Inv
  OBVIOUS
<1>1. L \in Nat \ {0} /\ Index = 1 .. L /\ word \in Words /\ scores \in Tables
  BY BpeAssumption DEF Init, L, Index
<1>2. n = [i \in Index |-> 1] /\ prev = [i \in Index |-> i - 1]
      /\ next = [i \in Index |-> IF i = L THEN None ELSE i + 1]
  BY DEF Init, L
<1>3. /\ n \in [Index -> 0 .. L]
      /\ prev \in [Index -> Index \cup {None}] /\ next \in [Index -> Index \cup {None}]
  BY <1>1, <1>2 DEF None
<1>4. ChainInv
  BY <1>1, <1>2, <1>3 DEF ChainInv, Forward, Backward, None
<1>. DEFINE good(b) == /\ b \in [left : Index, right : Index, size : 2 .. L, score : Int]
                       /\ Queued(b)
<1>5. ASSUME NEW b \in work_queue PROVE good(b)
  <2>1. PICK i \in 2 .. L : b \in Bigrams(i - 1, i, n)
    BY DEF Init, L
  <2>2. /\ InTable(scores, word, i - 1, n[i - 1], n[i])
        /\ b = [left |-> i - 1, right |-> i, size |-> n[i - 1] + n[i],
                score |-> Score(scores, word, i - 1, n[i - 1], n[i])]
    BY <2>1, BigramsAre
  <2>3. i - 1 \in Index /\ i \in Index /\ n[i - 1] = 1 /\ n[i] = 1
    BY <1>1, <1>2
  <2>4. 1 \in 0 .. L /\ i + 1 <= L + 1
    BY <1>1
  <2>5. good(b)
    <3>1. Score(scores, word, i - 1, 1, 1) \in Int
      BY <2>2, <2>3, ScoresAreNumbers, <1>1
    <3>2. b.left = i - 1 /\ b.right = i /\ b.size = 2
          /\ b.score = Score(scores, word, i - 1, 1, 1)
      BY <2>2, <2>3
    <3>3. b \in [left : Index, right : Index, size : 2 .. L, score : Int]
      BY <2>2, <2>3, <3>1, <1>1
    <3>4. b.right - b.left = 1 /\ b.size - 1 = 1
      BY <3>2
    <3>. QED
      BY <2>2, <2>3, <3>2, <3>3, <3>4 DEF Queued
  <2>. QED
    BY <2>5
<1>6. TypeInv /\ QueueInv
  BY <1>1, <1>3, <1>5 DEF TypeInv, QueueInv
<1>7. CompleteInv
  <2>. SUFFICES ASSUME NEW i \in Index, next[i] # None,
                       InTable(scores, word, i, n[i], n[next[i]])
                PROVE  \E b \in work_queue : /\ b.left = i /\ b.right = next[i]
                                             /\ b.size = n[i] + n[next[i]]
    BY DEF CompleteInv
  <2>1. i + 1 \in 2 .. L /\ next[i] = i + 1 /\ i # None /\ i + 1 # None
    BY <1>1, <1>2 DEF None
  <2>2. [left |-> i, right |-> i + 1, size |-> n[i] + n[i + 1],
         score |-> Score(scores, word, i, n[i], n[i + 1])] \in Bigrams(i, i + 1, n)
    BY <2>1, BigramsAre
  <2>3. Bigrams(i, i + 1, n) \subseteq work_queue
    <3>1. (i + 1) - 1 = i
      BY <1>1
    <3>. QED
      BY <2>1, <3>1 DEF Init, L
  <2>. QED
    BY <2>1, <2>2, <2>3
<1>. QED
  BY <1>4, <1>6, <1>7 DEF Inv

-----------------------------------------------------------------------------
\* A bigram that is not stale is the pair of a symbol and its next one.
LEMMA FreshIsNeighbours ==
  ASSUME Inv, NEW b \in work_queue, ~Stale(b)
  PROVE  /\ b.left \in Index /\ b.right \in Index /\ b.left < b.right
         /\ n[b.left] > 0 /\ n[b.right] > 0 /\ b.right = b.left + n[b.left]
         /\ next[b.left] = b.right /\ prev[b.right] = b.left
         /\ b.size = n[b.left] + n[b.right]
         /\ InTable(scores, word, b.left, n[b.left], n[b.right])
         /\ b.score = Score(scores, word, b.left, n[b.left], n[b.right])
<1>1. /\ b \in [left : Index, right : Index, size : 2 .. L, score : Int]
      /\ L \in Nat \ {0} /\ n \in [Index -> 0 .. L] /\ Index = 1 .. L
  BY DEF Inv, TypeInv, Index, L
<1>2. n[b.left] # 0 /\ n[b.right] # 0 /\ b.size = n[b.left] + n[b.right]
  BY DEF Stale
<1>3. Queued(b)
  BY DEF Inv, QueueInv
<1>4. n[b.left] = b.right - b.left
  BY <1>2, <1>3 DEF Queued
<1>5. b.right = b.left + n[b.left] /\ n[b.left] > 0 /\ n[b.right] > 0
      /\ b.size - (b.right - b.left) = n[b.right]
  <2>1. b.left \in Nat /\ b.right \in Nat /\ n[b.left] \in Nat /\ n[b.right] \in Nat
    BY <1>1
  <2>. QED
    BY <2>1, <1>2, <1>4
<1>6. Forward(b.left)
  BY <1>1, <1>5 DEF Inv, ChainInv
<1>7. next[b.left] = b.right /\ prev[b.right] = b.left
  BY <1>1, <1>5, <1>6 DEF Forward, None
<1>. QED
  BY <1>1, <1>2, <1>3, <1>4, <1>5, <1>7 DEF Queued

LEMMA SkipKeeps ==
  ASSUME Inv, NEW b \in work_queue, Skip(b) PROVE Inv'
<1>1. /\ work_queue' = work_queue \ {b} /\ Stale(b)
      /\ UNCHANGED <<word, scores, n, prev, next>>
  BY DEF Skip
<1>2. TypeInv'
  BY <1>1 DEF Inv, TypeInv, Index, L
<1>3. ChainInv'
  BY <1>1 DEF Inv, ChainInv, Forward, Backward, Index, L
<1>4. QueueInv'
  BY <1>1 DEF Inv, QueueInv, Queued
<1>5. CompleteInv'
  <2>. SUFFICES ASSUME NEW i \in Index, n[i] > 0, next[i] # None,
                       InTable(scores, word, i, n[i], n[next[i]])
                PROVE  \E c \in work_queue \ {b} : /\ c.left = i /\ c.right = next[i]
                                                   /\ c.size = n[i] + n[next[i]]
    BY <1>1 DEF CompleteInv, Index
  <2>1. PICK c \in work_queue : /\ c.left = i /\ c.right = next[i]
                                /\ c.size = n[i] + n[next[i]]
    BY DEF Inv, CompleteInv
  <2>2. n[next[i]] > 0
    BY DEF Inv, ChainInv, Forward
  <2>3. ~Stale(c)
    BY <2>1, <2>2 DEF Stale
  <2>. QED
    BY <1>1, <2>1, <2>3
<1>. QED
  BY <1>2, <1>3, <1>4, <1>5 DEF Inv

\* What MergeTop does to the symbols: l takes in r, whose next is e.
Merges(l, r, e) ==
    /\ l \in Index /\ r \in Index /\ e \in Index \cup {None}
    /\ n[l] > 0 /\ n[r] > 0 /\ r = l + n[l] /\ next[l] = r /\ next[r] = e
    /\ n' = [n EXCEPT ![l] = @ + n[r], ![r] = 0]
    /\ next' = [next EXCEPT ![l] = e]
    /\ prev' = [i \in Index |-> IF i = e THEN l ELSE prev[i]]
    /\ UNCHANGED <<word, scores>>

LEMMA MergeMerges ==
  ASSUME Inv, NEW b \in work_queue, MergeTop(b)
  PROVE  Merges(b.left, b.right, next[b.right])
  BY FreshIsNeighbours DEF MergeTop, Merges, Inv, TypeInv

LEMMA MergedSymbols ==
  ASSUME Inv, NEW l, NEW r, NEW e, Merges(l, r, e)
  PROVE  /\ n' \in [Index -> 0 .. L] /\ n'[l] = n[l] + n[r] /\ n'[r] = 0
         /\ \A i \in Index \ {l, r} : n'[i] = n[i]
         /\ next' \in [Index -> Index \cup {None}] /\ next'[l] = e
         /\ \A i \in Index \ {l} : next'[i] = next[i]
         /\ prev' \in [Index -> Index \cup {None}] /\ (e # None => prev'[e] = l)
         /\ \A i \in Index \ {e} : prev'[i] = prev[i]
         /\ l < r /\ r + n[r] <= L + 1
         /\ e = IF r + n[r] = L + 1 THEN None ELSE r + n[r]
         /\ e # None => n[e] > 0 /\ prev[e] = r /\ e > r /\ n'[e] = n[e]
<1>1. /\ L \in Nat \ {0} /\ Index = 1 .. L /\ n \in [Index -> 0 .. L]
      /\ prev \in [Index -> Index \cup {None}] /\ next \in [Index -> Index \cup {None}]
  BY DEF Inv, TypeInv, Index, L
<1>2. /\ l \in Index /\ r \in Index /\ n[l] > 0 /\ n[r] > 0 /\ r = l + n[l]
      /\ next[l] = r /\ next[r] = e /\ e \in Index \cup {None}
  BY DEF Merges
<1>3. Forward(r)
  BY <1>2 DEF Inv, ChainInv
<1>4. /\ r + n[r] <= L + 1 /\ e = (IF r + n[r] = L + 1 THEN None ELSE r + n[r])
      /\ e # None => n[e] > 0 /\ prev[e] = r
  BY <1>2, <1>3 DEF Forward
<1>5. l < r /\ n[l] + n[r] \in 0 .. L /\ (e # None => e > r)
  BY <1>1, <1>2, <1>4
<1>6. /\ n' \in [Index -> 0 .. L] /\ n'[l] = n[l] + n[r] /\ n'[r] = 0
      /\ \A i \in Index \ {l, r} : n'[i] = n[i]
  BY <1>1, <1>2, <1>5, SMTT(40) DEF Merges
<1>7. /\ next' \in [Index -> Index \cup {None}] /\ next'[l] = e
      /\ \A i \in Index \ {l} : next'[i] = next[i]
  BY <1>1, <1>2 DEF Merges
<1>8. /\ prev' \in [Index -> Index \cup {None}] /\ (e # None => prev'[e] = l)
      /\ \A i \in Index \ {e} : prev'[i] = prev[i]
  BY <1>1, <1>2 DEF Merges, None
<1>9. e # None => n'[e] = n[e]
  BY <1>1, <1>2, <1>5, <1>6
<1>. QED
  BY <1>4, <1>5, <1>6, <1>7, <1>8, <1>9

LEMMA MergeKeepsChain ==
  ASSUME Inv, NEW l, NEW r, NEW e, Merges(l, r, e)
  PROVE  ChainInv'
<1>1. /\ L \in Nat \ {0} /\ Index = 1 .. L /\ n \in [Index -> 0 .. L] /\ L' = L
      /\ Index' = Index
      /\ prev \in [Index -> Index \cup {None}] /\ next \in [Index -> Index \cup {None}]
  BY DEF Inv, TypeInv, Index, L, Merges
<1>2. /\ l \in Index /\ r \in Index /\ n[l] > 0 /\ n[r] > 0 /\ r = l + n[l]
      /\ next[l] = r /\ next[r] = e /\ e \in Index \cup {None}
  BY DEF Merges
<1>3. /\ n' \in [Index -> 0 .. L] /\ n'[l] = n[l] + n[r] /\ n'[r] = 0
      /\ \A i \in Index \ {l, r} : n'[i] = n[i]
      /\ next'[l] = e /\ \A i \in Index \ {l} : next'[i] = next[i]
      /\ (e # None => prev'[e] = l) /\ \A i \in Index \ {e} : prev'[i] = prev[i]
      /\ l < r /\ r + n[r] <= L + 1
      /\ e = IF r + n[r] = L + 1 THEN None ELSE r + n[r]
      /\ e # None => n[e] > 0 /\ prev[e] = r /\ e > r /\ n'[e] = n[e]
  BY MergedSymbols
<1>0. /\ L \in Nat \ {0} /\ l \in Nat \ {0} /\ r \in Nat \ {0}
      /\ n[l] \in Nat \ {0} /\ n[r] \in Nat \ {0} /\ r = l + n[l] /\ l < r
      /\ r + n[r] <= L + 1 /\ n'[l] = n[l] + n[r]
  <2>1. l \in Nat \ {0} /\ r \in Nat \ {0} /\ n[l] \in Nat \ {0} /\ n[r] \in Nat \ {0}
    BY <1>1, <1>2
  <2>2. L \in Nat \ {0} /\ r = l + n[l]
    BY <1>1, <1>2
  <2>3. l < r /\ r + n[r] <= L + 1 /\ n'[l] = n[l] + n[r]
    BY <1>3
  <2>. QED
    BY <2>1, <2>2, <2>3
<1>4. n'[1] > 0
  <2>1. n[1] > 0 /\ 1 \in Index /\ 1 # r
    BY <1>0, <1>1 DEF Inv, ChainInv
  <2>. QED
    BY <2>1, <1>0, <1>3
<1>5. Forward(l) /\ Forward(r) /\ Backward(l) /\ Backward(r)
  BY <1>2 DEF Inv, ChainInv
<1>6. Forward(l)'
  <2>1. l + n'[l] = r + n[r]
    BY <1>1, <1>2, <1>3
  <2>2. \A k \in l + 1 .. l + n'[l] - 1 : n'[k] = 0
    <3>. SUFFICES ASSUME NEW k \in l + 1 .. r + n[r] - 1, k # r PROVE n'[k] = 0
      <4>1. n'[r] = 0
        BY <1>3
      <4>. QED
        BY <2>1, <4>1, <1>0
    <3>0. k \in Nat /\ l < k /\ k <= L /\ k < r + n[r]
      BY <1>0
    <3>1. k \in Index \ {l, r}
      BY <3>0, <1>0, <1>1
    <3>2. n[k] = 0
      <4>1. k \in l + 1 .. l + n[l] - 1 \/ k \in r + 1 .. r + n[r] - 1
        BY <3>0, <1>0
      <4>. QED
        BY <4>1, <1>5 DEF Forward
    <3>. QED
      BY <3>1, <3>2, <1>3
  <2>. QED
    BY <2>1, <2>2, <1>1, <1>2, <1>3 DEF Forward
<1>7. Backward(l)'
  <2>1. l # e
    BY <1>1, <1>2, <1>3 DEF None
  <2>2. prev'[l] = prev[l]
    BY <2>1, <1>2, <1>3
  <2>3. ASSUME l # 1 PROVE prev[l] \in Index \ {l, r} /\ n'[prev[l]] = n[prev[l]]
    <3>1. prev[l] \in Index /\ prev[l] + n[prev[l]] = l
      BY <2>3, <1>5 DEF Backward
    <3>2. prev[l] \in Nat /\ n[prev[l]] \in Nat
      BY <3>1, <1>1
    <3>3. prev[l] # l /\ prev[l] # r
      <4>1. prev[l] <= l
        BY <3>1, <3>2, <1>0
      <4>2. prev[l] # l
        BY <3>1, <1>0
      <4>. QED
        BY <4>1, <4>2, <1>0
    <3>. QED
      BY <3>1, <3>3, <1>3
  <2>. QED
    BY <2>2, <2>3, <1>1, <1>3, <1>5 DEF Backward
<1>8. ASSUME NEW i \in Index, i # l, n'[i] > 0 PROVE Forward(i)'
  <2>1. i \in Index \ {l, r} /\ n'[i] = n[i] /\ next'[i] = next[i] /\ n[i] > 0
    BY <1>3, <1>8
  <2>2. Forward(i)
    BY <2>1 DEF Inv, ChainInv
  <2>3. \A k \in i + 1 .. i + n'[i] - 1 : n'[k] = 0
    <3>. SUFFICES ASSUME NEW k \in i + 1 .. i + n[i] - 1 PROVE n'[k] = 0
      BY <2>1
    <3>1. n[k] = 0 /\ k \in Index
      BY <2>1, <2>2, <1>1 DEF Forward
    <3>. QED
      BY <3>1, <1>2, <1>3
  <2>4. ASSUME next[i] # None PROVE n'[next[i]] > 0 /\ prev'[next[i]] = i
    <3>1. n[next[i]] > 0 /\ prev[next[i]] = i /\ next[i] \in Index
      BY <2>2, <2>4, <1>1 DEF Forward
    <3>2. next[i] # r
      <4>1. prev[r] = l
        BY <1>2, <1>5, <1>1 DEF Forward, None
      <4>. QED
        BY <4>1, <3>1, <2>1
    <3>3. next[i] # e
      BY <3>1, <1>3, <2>1, <2>4
    <3>4. n'[next[i]] > 0
      <4>1. CASE next[i] = l
        BY <4>1, <1>1, <1>2, <1>3
      <4>2. CASE next[i] # l
        BY <4>2, <3>1, <3>2, <1>3
      <4>. QED
        BY <4>1, <4>2
    <3>. QED
      BY <3>1, <3>3, <3>4, <1>3
  <2>. QED
    BY <2>1, <2>2, <2>3, <2>4, <1>1 DEF Forward
<1>9. ASSUME NEW i \in Index, i # l, n'[i] > 0 PROVE Backward(i)'
  <2>1. i \in Index \ {l, r} /\ n'[i] = n[i] /\ n[i] > 0
    BY <1>3, <1>9
  <2>2. Backward(i)
    BY <2>1 DEF Inv, ChainInv
  <2>3. CASE i = e
    <3>1. e # None
      BY <2>3, <1>1 DEF None
    <3>2. prev'[i] = l /\ e > r /\ e = r + n[r]
      BY <2>3, <3>1, <1>3
    <3>3. i # 1 /\ l + n'[l] = e /\ n'[l] > 0
      BY <2>3, <3>2, <1>0
    <3>. QED
      BY <3>2, <3>3, <2>3, <1>1, <1>2 DEF Backward
  <2>4. CASE i # e
    <3>1. prev'[i] = prev[i]
      BY <2>4, <1>3
    <3>2. ASSUME i # 1 PROVE prev[i] # r /\ prev[i] # l
      <4>1. prev[i] + n[prev[i]] = i /\ n[prev[i]] > 0 /\ prev[i] \in Index
        BY <2>2, <3>2 DEF Backward
      <4>2. prev[i] # l
        BY <4>1, <1>2, <2>1
      <4>3. prev[i] # r
        <5>1. prev[i] = r => r + n[r] = i
          BY <4>1
        <5>2. r + n[r] = i => e = i
          BY <1>1, <1>3
        <5>. QED
          BY <5>1, <5>2, <2>4
      <4>. QED
        BY <4>2, <4>3
    <3>. QED
      BY <2>2, <3>1, <3>2, <1>1, <1>3 DEF Backward
  <2>. QED
    BY <2>3, <2>4
<1>. QED
  BY <1>1, <1>4, <1>6, <1>7, <1>8, <1>9 DEF ChainInv

\* The two bigrams that are added are those of l and its neighbours.
LEMMA AddedAreQueued ==
  ASSUME Inv, NEW l, NEW r, NEW e, Merges(l, r, e),
         NEW c \in Bigrams(prev[l], l, n') \cup Bigrams(l, e, n')
  PROVE  c \in [left : Index, right : Index, size : 2 .. L, score : Int] /\ Queued(c)'
<1>1. /\ L \in Nat \ {0} /\ Index = 1 .. L /\ n \in [Index -> 0 .. L] /\ TypeInv
  BY DEF Inv, TypeInv, Index, L
<1>2. /\ l \in Index /\ r \in Index /\ n[l] > 0 /\ n[r] > 0 /\ r = l + n[l]
      /\ e \in Index \cup {None}
  BY DEF Merges
<1>3. /\ n' \in [Index -> 0 .. L] /\ n'[l] = n[l] + n[r] /\ n'[r] = 0
      /\ \A i \in Index \ {l, r} : n'[i] = n[i]
      /\ l < r /\ r + n[r] <= L + 1
      /\ e = IF r + n[r] = L + 1 THEN None ELSE r + n[r]
      /\ e # None => n[e] > 0 /\ prev[e] = r /\ e > r /\ n'[e] = n[e]
  BY MergedSymbols
<1>4. l \in Nat /\ r \in Nat /\ n[l] \in Nat /\ n[r] \in Nat
  BY <1>1, <1>2
<1>5. l + n'[l] = r + n[r] /\ n'[l] > 0 /\ l + n'[l] <= L + 1
  <2>1. n'[l] = n[l] + n[r] /\ r + n[r] <= L + 1
    BY <1>3
  <2>. QED
    BY <2>1, <1>2, <1>4
<1>6. ASSUME NEW i \in Index, NEW j \in Index, c \in Bigrams(i, j, n'),
             j = i + n'[i], n'[i] > 0, n'[j] > 0, j + n'[j] <= L + 1
      PROVE  c \in [left : Index, right : Index, size : 2 .. L, score : Int] /\ Queued(c)'
  <2>1. /\ InTable(scores, word, i, n'[i], n'[j])
        /\ c = [left |-> i, right |-> j, size |-> n'[i] + n'[j],
                score |-> Score(scores, word, i, n'[i], n'[j])]
    BY <1>6, BigramsAre
  <2>2. /\ c \in [left : Index, right : Index, size : 2 .. L, score : Int]
        /\ c.right - c.left > 0 /\ c.size > c.right - c.left
        /\ InTable(scores, word, c.left, c.right - c.left, c.size - (c.right - c.left))
        /\ c.score = Score(scores, word, c.left, c.right - c.left, c.size - (c.right - c.left))
        /\ n'[c.left] = c.right - c.left
    <3>1. TypeInv /\ n' \in [Index -> 0 .. L]
      BY <1>1, <1>3
    <3>. QED
      BY <3>1, <1>6, <2>1, BigramIsQueued
  <2>3. word' = word /\ scores' = scores
    BY DEF Merges
  <2>. QED
    BY <2>2, <2>3 DEF Queued
<1>7. CASE c \in Bigrams(prev[l], l, n')
  <2>1. prev[l] # None
    BY <1>7, BigramsAre
  <2>2. Backward(l)
    BY <1>2 DEF Inv, ChainInv
  <2>3. prev[l] \in Index /\ n[prev[l]] > 0 /\ prev[l] + n[prev[l]] = l
    BY <2>1, <2>2 DEF Backward
  <2>4. prev[l] < l
    BY <2>3, <1>1, <1>2
  <2>5. n'[prev[l]] = n[prev[l]]
    BY <2>3, <2>4, <1>3, <1>4, <1>1
  <2>. QED
    BY <2>3, <2>5, <1>2, <1>5, <1>6, <1>7
<1>8. CASE c \in Bigrams(l, e, n')
  <2>1. e # None
    BY <1>8, BigramsAre
  <2>2. e \in Index /\ e = r + n[r] /\ n[e] > 0 /\ n'[e] = n[e]
    BY <2>1, <1>2, <1>3
  <2>3. Forward(e)
    BY <2>2 DEF Inv, ChainInv
  <2>. QED
    BY <2>2, <2>3, <1>2, <1>5, <1>6, <1>8 DEF Forward
<1>. QED
  BY <1>7, <1>8

LEMMA MergeKeeps ==
  ASSUME Inv, NEW b \in work_queue, MergeTop(b) PROVE Inv'
<1>. DEFINE l == b.left
            r == b.right
            e == next[b.right]
<1>1. Merges(l, r, e)
  BY MergeMerges
<1>2. /\ work_queue' = (work_queue \ {b}) \cup Bigrams(prev[l], l, n') \cup Bigrams(l, e, n')
      /\ UNCHANGED <<word, scores>>
  <2>1. next'[l] = e
    BY <1>1, MergedSymbols
  <2>. QED
    BY <2>1 DEF MergeTop
<1>. HIDE DEF l, r, e
<1>3. /\ L \in Nat \ {0} /\ Index = 1 .. L /\ L' = L /\ Index' = Index
      /\ n \in [Index -> 0 .. L]
  BY <1>2 DEF Inv, TypeInv, Index, L
<1>4. /\ n' \in [Index -> 0 .. L] /\ n'[l] = n[l] + n[r] /\ n'[r] = 0
      /\ \A i \in Index \ {l, r} : n'[i] = n[i]
      /\ next' \in [Index -> Index \cup {None}] /\ next'[l] = e
      /\ \A i \in Index \ {l} : next'[i] = next[i]
      /\ prev' \in [Index -> Index \cup {None}]
      /\ \A i \in Index \ {e} : prev'[i] = prev[i]
      /\ l < r
  BY <1>1, MergedSymbols
<1>5. /\ l \in Index /\ r \in Index /\ n[l] > 0 /\ n[r] > 0 /\ r = l + n[l] /\ next[l] = r
  BY <1>1 DEF Merges
<1>6. \A c \in Bigrams(prev[l], l, n') \cup Bigrams(l, e, n') :
         c \in [left : Index, right : Index, size : 2 .. L, score : Int] /\ Queued(c)'
  BY <1>1, AddedAreQueued
<1>7. TypeInv'
  <2>1. work_queue' \subseteq [left : Index, right : Index, size : 2 .. L, score : Int]
    BY <1>2, <1>6 DEF Inv, TypeInv
  <2>. QED
    BY <2>1, <1>2, <1>3, <1>4 DEF Inv, TypeInv
<1>8. ChainInv'
  BY <1>1, MergeKeepsChain
<1>9. QueueInv'
  <2>. SUFFICES ASSUME NEW c \in work_queue \ {b} PROVE Queued(c)'
    BY <1>2, <1>6 DEF QueueInv
  <2>1. Queued(c) /\ c.left \in Index /\ c.right \in Index
    BY DEF Inv, QueueInv, TypeInv
  <2>2. ASSUME n'[c.left] # 0, n'[c.right] # 0 PROVE n'[c.left] = c.right - c.left
    <3>1. c.left # r /\ c.right # r
      BY <2>2, <1>4
    <3>2. n[c.left] # 0 /\ n[c.right] # 0
      <4>1. \A j \in Index \ {l, r} : n'[j] # 0 => n[j] # 0
        BY <1>4
      <4>2. n[l] # 0
        BY <1>5, <1>3
      <4>. QED
        BY <2>1, <2>2, <3>1, <4>1, <4>2
    <3>3. n[c.left] = c.right - c.left
      BY <2>1, <3>2 DEF Queued
    <3>4. c.left # l
      BY <3>1, <3>3, <2>1, <1>3, <1>5
    <3>. QED
      BY <2>1, <3>1, <3>3, <3>4, <1>4
  <2>. QED
    BY <2>1, <2>2, <1>2 DEF Queued
<1>10. CompleteInv'
  <2>. SUFFICES ASSUME NEW i \in Index, n'[i] > 0, next'[i] # None,
                       InTable(scores, word, i, n'[i], n'[next'[i]])
                PROVE  \E c \in work_queue' : /\ c.left = i /\ c.right = next'[i]
                                              /\ c.size = n'[i] + n'[next'[i]]
    BY <1>2, <1>3 DEF CompleteInv
  <2>1. i # r /\ i # None /\ l # None
    BY <1>3, <1>4, <1>5 DEF None
  <2>. DEFINE new(p, q) == [left |-> p, right |-> q, size |-> n'[p] + n'[q],
                            score |-> Score(scores, word, p, n'[p], n'[q])]
  <2>2. CASE i = l
    <3>1. new(l, e) \in Bigrams(l, e, n')
      BY <2>1, <2>2, <1>4, BigramsAre
    <3>. QED
      BY <3>1, <2>2, <1>2, <1>4
  <2>3. CASE i # l /\ next[i] = l
    <3>1. n[i] > 0 /\ next'[i] = l
      BY <2>1, <2>3, <1>4
    <3>2. prev[l] = i
      BY <3>1, <2>1, <2>3 DEF Inv, ChainInv, Forward
    <3>3. new(i, l) \in Bigrams(prev[l], l, n')
      BY <2>1, <3>1, <3>2, BigramsAre
    <3>. QED
      BY <3>1, <3>3, <1>2
  <2>4. CASE i # l /\ next[i] # l
    <3>1. n[i] > 0 /\ n'[i] = n[i] /\ next'[i] = next[i]
      BY <2>1, <2>4, <1>4
    <3>2. Forward(i) /\ Forward(l)
      BY <3>1, <1>5 DEF Inv, ChainInv
    <3>3. next[i] \in Index
      BY <3>1, <1>3 DEF Inv, TypeInv
    <3>4. next[i] # r
      <4>1. prev[r] = l
        BY <3>2, <1>3, <1>5 DEF Forward, None
      <4>2. prev[next[i]] = i
        BY <3>1, <3>2 DEF Forward
      <4>. QED
        BY <4>1, <4>2, <2>4
    <3>5. n'[next[i]] = n[next[i]]
      BY <3>3, <3>4, <2>4, <1>4
    <3>6. PICK c \in work_queue : c.left = i /\ c.right = next[i] /\ c.size = n[i] + n[next[i]]
      BY <3>1, <3>5 DEF Inv, CompleteInv
    <3>7. c # b
      BY <3>6, <2>4 DEF l
    <3>. QED
      BY <3>1, <3>5, <3>6, <3>7, <1>2
  <2>. QED
    BY <2>2, <2>3, <2>4
<1>. QED
  BY <1>7, <1>8, <1>9, <1>10 DEF Inv

LEMMA StepHolds == Inv /\ [Next]_vars => Inv'
<1>. SUFFICES ASSUME Inv, [Next]_vars PROVE Inv'
  OBVIOUS
<1>1. CASE UNCHANGED vars
  <2>. UNCHANGED <<word, scores, n, prev, next, work_queue>>
    BY <1>1 DEF vars
  <2>1. TypeInv'
    BY DEF Inv, TypeInv, Index, L
  <2>2. ChainInv'
    BY DEF Inv, ChainInv, Forward, Backward, Index, L
  <2>3. QueueInv' /\ CompleteInv'
    BY DEF Inv, QueueInv, Queued, CompleteInv, Index
  <2>. QED
    BY <2>1, <2>2, <2>3 DEF Inv
<1>2. CASE Next
  BY <1>2, SkipKeeps, MergeKeeps DEF Next
<1>. QED
  BY <1>1, <1>2

LEMMA Invariance == Spec => []Inv
  BY InitHolds, StepHolds, PTL DEF Spec

-----------------------------------------------------------------------------
(* Type correctness and the invariants that the run checks. *)

\* Every variable has its type, for words of every length.
THEOREM TypeCorrect == Spec => []TypeOK
<1>1. Inv => TypeOK
  <2>. SUFFICES ASSUME Inv PROVE TypeOK
    OBVIOUS
  <2>1. \A b \in work_queue : b.left < b.right
    BY DEF Inv, QueueInv, Queued, TypeInv, Index, L
  <2>. QED
    BY <2>1 DEF Inv, TypeInv, TypeOK, L
<1>. QED
  BY <1>1, Invariance, PTL

\* The symbols spell the word: merging loses no character and doubles none.
THEOREM ChainStaysWord == Spec => []ChainIsWord
<1>1. Inv => ChainIsWord
  <2>. SUFFICES ASSUME Inv PROVE ChainIsWord
    OBVIOUS
  <2>1. n[1] > 0
    BY DEF Inv, ChainInv
  <2>2. ASSUME NEW i \in Symbols
        PROVE  /\ i + n[i] <= Len(word) + 1
               /\ \A k \in i + 1 .. i + n[i] - 1 : n[k] = 0
               /\ next[i] = IF i + n[i] = Len(word) + 1 THEN None ELSE i + n[i]
               /\ next[i] # None => next[i] \in Symbols /\ prev[next[i]] = i
    <3>1. Forward(i) /\ next[i] \in Index \cup {None}
      BY DEF Inv, ChainInv, Symbols, TypeInv
    <3>. QED
      BY <3>1 DEF Forward, L, Symbols
  <2>. QED
    BY <2>1, <2>2 DEF ChainIsWord
<1>. QED
  BY <1>1, Invariance, PTL

\* A bigram that passes the test for staleness is the pair it was queued for.
THEOREM FreshIsRight == Spec => []FreshIsPair
<1>1. Inv => FreshIsPair
  <2>. SUFFICES ASSUME Inv, NEW b \in work_queue, ~Stale(b)
                PROVE  b \in Bigrams(b.left, next[b.left], n)
    BY DEF FreshIsPair
  <2>1. b \in [left : Index, right : Index, size : 2 .. L, score : Int]
    BY DEF Inv, TypeInv
  <2>2. b = [left |-> b.left, right |-> b.right, size |-> b.size, score |-> b.score]
    BY <2>1
  <2>3. b.left # None /\ b.right # None
    BY <2>1 DEF Index, None
  <2>. QED
    BY <2>2, <2>3, FreshIsNeighbours, BigramsAre
<1>. QED
  BY <1>1, Invariance, PTL

\* An empty queue leaves no two neighbours that the vocabulary has together.
THEOREM NothingIsLeft == Spec => []EndsIrreducible
<1>1. Inv => EndsIrreducible
  <2>. SUFFICES ASSUME Inv, work_queue = {}, NEW i \in Symbols
                PROVE  Bigrams(i, next[i], n) = {}
    BY DEF EndsIrreducible
  <2>1. ~(next[i] # None /\ InTable(scores, word, i, n[i], n[next[i]]))
    BY DEF Inv, CompleteInv, Symbols
  <2>. QED
    BY <2>1, BigramsAre
<1>. QED
  BY <1>1, Invariance, PTL

-----------------------------------------------------------------------------
(* The queue implements greedy merging. *)

\* The abstract specification looks a pair up in the same table.
LEMMA SameTable ==
  ASSUME NEW t, NEW w, NEW i, NEW m, NEW k
  PROVE  /\ Greedy!InTable(t, w, i, m, k) <=> InTable(t, w, i, m, k)
         /\ Greedy!Score(t, w, i, m, k) = Score(t, w, i, m, k)
  BY DEF Greedy!InTable, Greedy!Score, Greedy!Pair, InTable, Score, Pair

\* A symbol ends where the next one starts, and nowhere else.
LEMMA SymbolEnds ==
  ASSUME Inv, NEW i \in Symbols
  PROVE  /\ Greedy!EndsAt(i, i + n[i])
         /\ \A j : Greedy!EndsAt(i, j) => j = i + n[i]
         /\ i + n[i] \in Symbols \cup {L + 1}
         /\ i \in 1 .. L /\ n[i] \in Nat \ {0}
<1>1. L \in Nat \ {0} /\ Index = 1 .. L /\ n \in [Index -> 0 .. L] /\ L = Len(word)
  BY DEF Inv, TypeInv, Index, L
<1>2. Forward(i) /\ i \in Index /\ n[i] > 0
  BY DEF Inv, ChainInv, Symbols
<1>3. i \in 1 .. L /\ n[i] \in Nat \ {0}
  BY <1>1, <1>2
<1>4. i + n[i] \in Symbols \cup {L + 1}
  <2>1. i + n[i] # L + 1 => next[i] = i + n[i] /\ i + n[i] \in Index /\ i + n[i] # None
    BY <1>1, <1>2, <1>3 DEF Forward, None
  <2>. QED
    BY <2>1, <1>2 DEF Forward, Symbols
<1>5. ASSUME NEW k \in Symbols PROVE k <= i \/ i + n[i] <= k
  <2>1. k \in 1 .. L /\ n[k] > 0
    BY <1>1 DEF Symbols
  <2>2. k \in i + 1 .. i + n[i] - 1 => n[k] = 0
    BY <1>2 DEF Forward
  <2>. QED
    BY <2>1, <2>2, <1>3
<1>6. Greedy!EndsAt(i, i + n[i])
  BY <1>1, <1>3, <1>4, <1>5 DEF Greedy!EndsAt
<1>7. ASSUME NEW j, Greedy!EndsAt(i, j) PROVE j = i + n[i]
  <2>1. j \in Symbols \cup {L + 1} /\ i < j /\ \A k \in Symbols : k <= i \/ j <= k
    BY <1>1, <1>7 DEF Greedy!EndsAt
  <2>2. j \in 1 .. L + 1
    BY <2>1, <1>1 DEF Symbols
  <2>3. i + n[i] <= j
    <3>1. CASE j \in Symbols
      BY <3>1, <2>1, <2>2, <1>3, <1>5
    <3>2. CASE j = L + 1
      BY <3>2, <1>2, <1>1 DEF Forward
    <3>. QED
      BY <3>1, <3>2, <2>1
  <2>4. j <= i + n[i]
    <3>1. CASE i + n[i] \in Symbols
      BY <3>1, <2>1, <1>3
    <3>2. CASE i + n[i] = L + 1
      BY <3>2, <2>2
    <3>. QED
      BY <3>1, <3>2, <1>4
  <2>. QED
    BY <2>2, <2>3, <2>4, <1>3
<1>. QED
  BY <1>3, <1>4, <1>6, <1>7

\* Neighbours that greedy merging could put together wait in the queue, with the
\* score it gives them.
LEMMA MergeableIsQueued ==
  ASSUME Inv, NEW i, NEW j, NEW e, Greedy!CanMerge(i, j, e)
  PROVE  \E b \in work_queue : b.left = i /\ b.score = Greedy!ScoreOf(i, j, e)
<1>1. /\ i \in Symbols /\ j \in Symbols /\ Greedy!EndsAt(i, j) /\ Greedy!EndsAt(j, e)
      /\ InTable(scores, word, i, j - i, e - j)
  BY SameTable DEF Greedy!CanMerge
<1>2. j = i + n[i] /\ e = j + n[j] /\ i \in 1 .. L /\ n[i] \in Nat /\ j \in 1 .. L /\ n[j] \in Nat
  BY <1>1, SymbolEnds
<1>3. j - i = n[i] /\ e - j = n[j]
  BY <1>2
<1>4. Forward(i) /\ i \in Index /\ L \in Nat
  BY <1>1 DEF Inv, ChainInv, TypeInv, Symbols
<1>5. next[i] = j /\ j # None
  BY <1>2, <1>4 DEF Forward, None
<1>6. PICK b \in work_queue : b.left = i /\ b.right = j /\ b.size = n[i] + n[j]
  BY <1>1, <1>3, <1>4, <1>5 DEF Inv, CompleteInv, Symbols
<1>7. b.right - b.left = n[i] /\ b.size - (b.right - b.left) = n[j]
  BY <1>2, <1>6
<1>8. b.score = Score(scores, word, i, n[i], n[j])
  BY <1>6, <1>7 DEF Inv, QueueInv, Queued
<1>. QED
  BY <1>3, <1>6, <1>8, SameTable DEF Greedy!ScoreOf

LEMMA MergeIsGreedy ==
  ASSUME Inv, NEW b \in work_queue, MergeTop(b) PROVE Greedy!Merge
<1>. DEFINE i == b.left
            j == b.right
            e == j + n[j]
<1>1. /\ i \in Index /\ j \in Index /\ n[i] > 0 /\ n[j] > 0 /\ j = i + n[i]
      /\ InTable(scores, word, i, n[i], n[j])
      /\ b.score = Score(scores, word, i, n[i], n[j])
  BY FreshIsNeighbours DEF MergeTop
<1>2. /\ b.score \in Int /\ \A c \in work_queue : c.score \in Int /\ c.left \in Nat
  BY DEF Inv, TypeInv, Index
<1>3. \A c \in work_queue : c.score < b.score \/ (c.score = b.score /\ i <= c.left)
  <2>1. \A c \in work_queue : ~(c.score > b.score \/ (c.score = b.score /\ c.left < i))
    BY DEF MergeTop, IsTop, Before
  <2>. QED
    BY <2>1, <1>2
<1>4. /\ n'[i] = n[i] + n[j] /\ n'[j] = 0 /\ \A k \in Index \ {i, j} : n'[k] = n[k]
      /\ word' = word /\ scores' = scores
  <2>1. Merges(i, j, next[j])
    BY MergeMerges
  <2>2. word' = word /\ scores' = scores
    BY DEF MergeTop
  <2>. QED
    BY <2>1, <2>2, MergedSymbols
<1>. HIDE DEF i, j
<1>5. i \in Symbols /\ j \in Symbols
  BY <1>1 DEF Symbols
<1>6. /\ Greedy!EndsAt(i, j) /\ Greedy!EndsAt(j, e) /\ e \in Symbols \cup {L + 1}
      /\ i \in 1 .. L /\ j \in 1 .. L /\ n[i] \in Nat \ {0} /\ n[j] \in Nat \ {0}
  BY <1>1, <1>5, SymbolEnds
<1>7. j - i = n[i] /\ e - j = n[j]
  BY <1>1, <1>6
<1>8. Greedy!CanMerge(i, j, e) /\ Greedy!ScoreOf(i, j, e) = b.score
  BY <1>1, <1>5, <1>6, <1>7, SameTable DEF Greedy!CanMerge, Greedy!ScoreOf
<1>9. Greedy!IsBest(i, j, e)
  <2>. SUFFICES ASSUME NEW k, NEW l, NEW f, Greedy!CanMerge(k, l, f)
                PROVE  \/ Greedy!ScoreOf(k, l, f) < b.score
                       \/ Greedy!ScoreOf(k, l, f) = b.score /\ i <= k
    BY <1>8 DEF Greedy!IsBest
  <2>1. PICK c \in work_queue : c.left = k /\ c.score = Greedy!ScoreOf(k, l, f)
    BY MergeableIsQueued
  <2>. QED
    BY <2>1, <1>3
<1>10. Symbols' = Symbols \ {j}
  <2>1. Index' = Index
    BY <1>4 DEF Index
  <2>2. \A k \in Index : n'[k] > 0 <=> n[k] > 0 /\ k # j
    BY <1>1, <1>4, <1>6
  <2>. QED
    BY <2>1, <2>2 DEF Symbols
<1>11. i \in Greedy!Position /\ j \in Greedy!Position /\ e \in Greedy!Position
  <2>1. L \in Nat /\ L = Len(word) /\ Symbols \subseteq 1 .. L
    BY DEF Inv, TypeInv, Symbols, Index, L
  <2>. QED
    BY <2>1, <1>6 DEF Greedy!Position
<1>. QED
  BY <1>4, <1>8, <1>9, <1>10, <1>11 DEF Greedy!Merge

\* Whatever is stale in the queue, and in whatever order it comes up, the tokenizer
\* merges what greedy merging would, one merge for one.
THEOREM ImplementsGreedy == Spec => ImplementsGreedyMerge
<1>1. Init => Greedy!Init
  <2>. SUFFICES ASSUME Init PROVE Symbols = 1 .. Len(word)
    BY DEF Init, Greedy!Init
  <2>. QED
    BY DEF Init, Symbols, Index
<1>2. Inv /\ [Next]_vars => [Greedy!Merge]_(Greedy!vars)
  <2>. SUFFICES ASSUME Inv, [Next]_vars PROVE Greedy!Merge \/ UNCHANGED Greedy!vars
    OBVIOUS
  <2>1. CASE UNCHANGED <<word, scores, n>>
    BY <2>1 DEF Greedy!vars, Symbols, Index
  <2>2. CASE \E b \in work_queue : MergeTop(b)
    BY <2>2, MergeIsGreedy
  <2>. QED
    BY <2>1, <2>2 DEF Next, Skip, vars
<1>. QED
  BY <1>1, <1>2, Invariance, PTL DEF Spec, ImplementsGreedyMerge, Greedy!Spec

-----------------------------------------------------------------------------
(* How long it takes.  A merge takes a symbol away and queues two pairs at   *)
(* most for the one it takes out of the queue.                               *)

Fuel == 2 * Cardinality(Symbols) + Cardinality(work_queue)

FuelInv == IsFiniteSet(work_queue) /\ Fuel <= 3 * L

LEMMA SymbolsAreFinite ==
  ASSUME Inv PROVE IsFiniteSet(Symbols) /\ Cardinality(Symbols) \in 0 .. L
<1>1. Symbols \in SUBSET (1 .. L) /\ L \in Nat
  BY DEF Inv, TypeInv, Symbols, Index, L
<1>2. IsFiniteSet(1 .. L) /\ Cardinality(1 .. L) = L
  BY <1>1, FS_Interval
<1>3. IsFiniteSet(Symbols) /\ Cardinality(Symbols) <= L
  BY <1>1, <1>2, FS_Subset
<1>. QED BY <1>1, <1>3, FS_CardinalityType

\* try_add_bigram adds one bigram or none.
LEMMA OneMore ==
  ASSUME NEW S, IsFiniteSet(S), NEW i, NEW j, NEW sizes
  PROVE  LET T == S \cup Bigrams(i, j, sizes)
         IN  IsFiniteSet(T) /\ Cardinality(T) <= Cardinality(S) + 1
<1>. DEFINE x == [left |-> i, right |-> j, size |-> sizes[i] + sizes[j],
                  score |-> Score(scores, word, i, sizes[i], sizes[j])]
<1>1. Bigrams(i, j, sizes) = {} \/ Bigrams(i, j, sizes) = {x}
  BY BigramsAre
<1>2. Cardinality(S) \in Nat
  BY FS_CardinalityType
<1>. HIDE DEF x
<1>3. CASE Bigrams(i, j, sizes) = {}
  BY <1>2, <1>3
<1>4. CASE Bigrams(i, j, sizes) = {x}
  <2>1. /\ IsFiniteSet(S \cup {x})
        /\ Cardinality(S \cup {x}) = IF x \in S THEN Cardinality(S) ELSE Cardinality(S) + 1
    BY FS_AddElement
  <2>. QED BY <1>2, <1>4, <2>1
<1>. QED BY <1>1, <1>3, <1>4

LEMMA InitFuel == Init => FuelInv
<1>. SUFFICES ASSUME Init PROVE FuelInv
  OBVIOUS
<1>1. Inv
  BY InitHolds
<1>2. L \in Nat \ {0} /\ Index = 1 .. L
  BY <1>1 DEF Inv, TypeInv, Index, L
<1>. DEFINE f == [b \in work_queue |-> b.right]
<1>3. \A b \in work_queue : /\ b.right \in 1 .. L
                            /\ b \in Bigrams(b.right - 1, b.right, n)
  <2>. SUFFICES ASSUME NEW b \in work_queue
                PROVE  b.right \in 1 .. L /\ b \in Bigrams(b.right - 1, b.right, n)
    OBVIOUS
  <2>1. PICK i \in 2 .. L : b \in Bigrams(i - 1, i, n)
    BY DEF Init, L
  <2>2. b.right = i
    BY <2>1, BigramsAre
  <2>. QED BY <1>2, <2>1, <2>2
<1>4. ASSUME NEW b \in work_queue, NEW c \in work_queue, b.right = c.right PROVE b = c
  <2>1. b \in Bigrams(b.right - 1, b.right, n) /\ c \in Bigrams(b.right - 1, b.right, n)
    BY <1>3, <1>4
  <2>. QED BY <2>1, BigramsAre
<1>5. f \in Injection(work_queue, 1 .. L)
  BY <1>3, <1>4 DEF Injection, IsInjective
<1>6. IsFiniteSet(1 .. L) /\ Cardinality(1 .. L) = L
  BY <1>2, FS_Interval
<1>7. IsFiniteSet(work_queue) /\ Cardinality(work_queue) <= L
  <2>. HIDE DEF f
  <2>. QED BY <1>5, <1>6, FS_Injection
<1>8. Cardinality(Symbols) \in 0 .. L /\ Cardinality(work_queue) \in Nat
  BY <1>1, <1>7, SymbolsAreFinite, FS_CardinalityType
<1>. QED BY <1>2, <1>7, <1>8 DEF FuelInv, Fuel

LEMMA StepFuel ==
  ASSUME Inv, FuelInv, NEW b \in work_queue, Skip(b) \/ MergeTop(b)
  PROVE  IsFiniteSet(work_queue)' /\ Fuel' \in Nat /\ Fuel' < Fuel
<1>1. /\ IsFiniteSet(work_queue \ {b}) /\ Cardinality(work_queue \ {b}) = Cardinality(work_queue) - 1
      /\ Cardinality(work_queue) \in Nat /\ Cardinality(work_queue \ {b}) \in Nat
  BY FS_RemoveElement, FS_CardinalityType DEF FuelInv
<1>2. IsFiniteSet(Symbols) /\ Cardinality(Symbols) \in Nat
  BY SymbolsAreFinite
<1>3. CASE Skip(b)
  <2>1. work_queue' = work_queue \ {b} /\ Symbols' = Symbols
    BY <1>3 DEF Skip, Symbols, Index
  <2>. QED BY <1>1, <1>2, <2>1 DEF Fuel
<1>4. CASE MergeTop(b)
  <2>. DEFINE l == b.left
              r == b.right
              S == work_queue \ {b}
              T == S \cup Bigrams(prev[l], l, n')
              U == T \cup Bigrams(l, next'[l], n')
  <2>1. Merges(l, r, next[r])
    BY <1>4, MergeMerges
  <2>2. /\ n'[l] = n[l] + n[r] /\ n'[r] = 0 /\ l < r
        /\ \A i \in Index \ {l, r} : n'[i] = n[i]
    BY <2>1, MergedSymbols
  <2>3. l \in Index /\ r \in Index /\ n[l] \in Nat /\ n[r] \in Nat /\ n[l] > 0 /\ n[r] > 0 /\ word' = word
    BY <2>1 DEF Merges, Inv, TypeInv, L
  <2>4. Symbols' = Symbols \ {r}
    BY <2>2, <2>3 DEF Symbols, Index
  <2>5. r \in Symbols
    BY <2>3 DEF Symbols
  <2>6. Cardinality(Symbols') = Cardinality(Symbols) - 1 /\ Cardinality(Symbols') \in Nat
    BY <1>2, <2>4, <2>5, FS_RemoveElement, FS_CardinalityType
  <2>7. work_queue' = (S \cup Bigrams(prev[l], l, n')) \cup Bigrams(l, next'[l], n')
    BY <1>4 DEF MergeTop
  <2>8. IsFiniteSet(T) /\ Cardinality(T) <= Cardinality(S) + 1
    BY <1>1, OneMore
  <2>9. IsFiniteSet(U) /\ Cardinality(U) <= Cardinality(T) + 1
    <3>. HIDE DEF T
    <3>. QED BY <2>8, OneMore
  <2>10. Cardinality(T) \in Nat /\ Cardinality(U) \in Nat
    <3>. HIDE DEF T, U
    <3>. QED BY <2>8, <2>9, FS_CardinalityType
  <2>11. work_queue' = U
    BY <2>7
  <2>. HIDE DEF T, U, S
  <2>. QED BY <1>1, <1>2, <2>6, <2>8, <2>9, <2>10, <2>11 DEF Fuel, S
<1>. QED BY <1>3, <1>4

LEMMA FuelType == ASSUME Inv, FuelInv PROVE Fuel \in 0 .. 3 * L
<1>1. Cardinality(Symbols) \in Nat /\ Cardinality(work_queue) \in Nat /\ L \in Nat
  BY SymbolsAreFinite, FS_CardinalityType DEF FuelInv, Inv, TypeInv
<1>. QED BY <1>1 DEF FuelInv, Fuel

LEMMA FuelHolds == Spec => []FuelInv
<1>1. ASSUME Inv, FuelInv, [Next]_vars PROVE FuelInv'
  <2>1. CASE UNCHANGED vars
    BY <1>1, <2>1 DEF vars, FuelInv, Fuel, Symbols, Index, L
  <2>2. CASE \E b \in work_queue : Skip(b) \/ MergeTop(b)
    <3>1. PICK b \in work_queue : Skip(b) \/ MergeTop(b)
      BY <2>2
    <3>2. IsFiniteSet(work_queue)' /\ Fuel' \in Nat /\ Fuel' < Fuel
      BY <1>1, <3>1, StepFuel
    <3>3. word' = word
      BY <3>1 DEF Skip, MergeTop
    <3>4. Fuel \in 0 .. 3 * L /\ L \in Nat /\ L' = L
      BY <1>1, <3>3, FuelType DEF Inv, TypeInv, L
    <3>. QED BY <3>2, <3>4 DEF FuelInv
  <2>. QED BY <1>1, <2>1, <2>2 DEF Next
<1>. QED BY <1>1, InitFuel, Invariance, PTL DEF Spec

\* Every step, of a merge and of a stale pair alike, uses fuel, of which a word of
\* that length has three times its length: the tokenizer ends.
THEOREM FuelIsUsed == Spec => [](Fuel \in 0 .. 3 * L) /\ [][Fuel' < Fuel]_vars
<1>1. Inv /\ FuelInv => Fuel \in 0 .. 3 * L
  BY FuelType
<1>2. Inv /\ FuelInv /\ [Next]_vars => [Fuel' < Fuel]_vars
  BY StepFuel DEF Next
<1>. QED BY <1>1, <1>2, FuelHolds, Invariance, PTL DEF Spec

LEMMA NatHasLeast ==
  ASSUME NEW T \in SUBSET Nat, T # {}
  PROVE  \E x \in T : \A y \in T : x <= y
<1>. DEFINE R == {ss \in Nat \X Nat : ss[1] < ss[2]}
<1>1. IsWellFoundedOn(R, Nat)
  BY NatLessThanWellFounded DEF OpToRel
<1>2. PICK x \in T : \A y \in T : ~(<<y, x>> \in R)
  <2>. HIDE DEF R
  <2>. QED BY <1>1, WFMin
<1>3. \A y \in T : ~(y < x)
  BY <1>2
<1>. QED BY <1>3

\* A finite set of pairs has a first one, in the order of the queue.
LEMMA TopExists ==
  ASSUME NEW Q, IsFiniteSet(Q), Q # {}, \A b \in Q : b.score \in Int /\ b.left \in Int
  PROVE  \E b \in Q : \A c \in Q : ~Before(c, b)
<1>. DEFINE HasTop(S) == \E b \in S : \A c \in S : ~Before(c, b)
            Bad == {S \in SUBSET Q : S # {} /\ ~HasTop(S)}
            Sizes == {Cardinality(S) : S \in Bad}
<1>1. SUFFICES ASSUME Bad # {} PROVE FALSE
  OBVIOUS
<1>2. \A S \in SUBSET Q : IsFiniteSet(S) /\ Cardinality(S) \in Nat
  BY FS_Subset, FS_CardinalityType
<1>3. Sizes \in SUBSET Nat /\ Sizes # {}
  BY <1>1, <1>2
<1>4. PICK k \in Sizes : \A j \in Sizes : k <= j
  <2>. HIDE DEF Sizes
  <2>. QED BY <1>3, NatHasLeast
<1>5. PICK S \in Bad : Cardinality(S) = k
  BY <1>4
<1>6. PICK x \in S : TRUE
  OBVIOUS
<1>. DEFINE T == S \ {x}
<1>7. T \in SUBSET Q /\ Cardinality(T) < k
  <2>1. S \in SUBSET Q /\ IsFiniteSet(S) /\ Cardinality(S) \in Nat
    BY <1>2, <1>5
  <2>2. Cardinality(S \ {x}) = Cardinality(S) - 1
    BY <1>6, <2>1, FS_RemoveElement
  <2>. QED BY <1>5, <2>1, <2>2
<1>8. T \notin Bad
  <2>. HIDE DEF Bad, T
  <2>. SUFFICES ASSUME T \in Bad PROVE FALSE
    OBVIOUS
  <2>1. Cardinality(T) \in Sizes /\ Cardinality(T) \in Nat /\ k \in Nat
    BY <1>2, <1>3, <1>7
  <2>. HIDE DEF Sizes
  <2>. QED BY <1>4, <1>7, <2>1
<1>9. CASE T = {}
  <2>1. S = {x}
    BY <1>6, <1>9
  <2>2. ~Before(x, x)
    BY <1>6 DEF Before
  <2>. QED BY <2>1, <2>2
<1>10. CASE T # {}
  <2>1. PICK t \in T : \A c \in T : ~Before(c, t)
    BY <1>7, <1>8, <1>10
  <2>2. CASE Before(x, t)
    <3>1. \A c \in T : ~Before(c, x)
      BY <1>6, <2>1, <2>2 DEF Before
    <3>2. ~Before(x, x)
      BY <1>6 DEF Before
    <3>. QED BY <1>6, <3>1, <3>2
  <2>3. CASE ~Before(x, t)
    BY <1>6, <2>1, <2>3
  <2>. QED BY <2>2, <2>3
<1>. QED BY <1>9, <1>10

\* As long as a pair waits there is one at the top, and so a step to take.
THEOREM QueueHasTop == Spec => [](work_queue # {} => \E b \in work_queue : IsTop(b))
<1>1. ASSUME Inv, FuelInv, work_queue # {} PROVE \E b \in work_queue : IsTop(b)
  <2>1. \A b \in work_queue : b.score \in Int /\ b.left \in Int
    BY <1>1 DEF Inv, TypeInv, Index, L
  <2>2. \E b \in work_queue : \A c \in work_queue : ~Before(c, b)
    BY <1>1, <2>1, TopExists DEF FuelInv
  <2>. QED BY <2>2 DEF IsTop
<1>. QED BY <1>1, FuelHolds, Invariance, PTL
=============================================================================
