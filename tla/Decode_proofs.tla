---------------------------- MODULE Decode_proofs ----------------------------
(***************************************************************************)
(* Theorems about Decode, for every vocabulary, window, spare room in the  *)
(* strip, penalty window and set of inputs.                                *)
(***************************************************************************)
EXTENDS Decode, FiniteSetTheorems, SequenceTheorems, TLAPS

USE CacheAssumption, PenaltyAssumption, DecodeAssumption

-----------------------------------------------------------------------------
(* The sliding cache.  cache_offset alone says nothing of what the slots    *)
(* hold: the invariant relates each position of the context to its slot.    *)

CacheType ==
    /\ context \in Seq(Token)
    /\ cache \in [Slot -> Token \cup {Blank}] /\ cache_offset \in Int
    /\ rewound \in BOOLEAN /\ failed \in BOOLEAN
    /\ input \in Seq(Token) /\ phase \in {"new", "idle", "feed", "sample"}
    /\ phase = "feed" => input # <<>>

\* A position whose slot has not left the strip is in its slot.
Holds ==
    \A p \in 1 .. n_past :
        cache_offset + p > 0 => cache[cache_offset + p - 1] = context[p]

CacheInv ==
    /\ CacheType
    /\ phase = "new" => n_past = 0
    /\ n_past > 0 =>
        /\ cache_offset <= 0 /\ cache_offset + n_past <= CacheLength
        /\ Holds
        /\ ~rewound => cache_offset = 0 \/ cache_offset + n_past >= Window
    /\ failed => rewound /\ phase \in {"feed", "sample"}

LEMMA CacheInvInit == Init => CacheInv
<1>. SUFFICES ASSUME Init PROVE CacheInv
  OBVIOUS
<1>1. context = <<>> /\ n_past = 0 /\ input = <<>> /\ phase = "new" /\ ~failed
  BY DEF Init, CacheInit, n_past
<1>2. cache \in [Slot -> Token \cup {Blank}]
  BY DEF Init, CacheInit
<1>3. cache_offset = 0 /\ rewound \in BOOLEAN /\ failed \in BOOLEAN
  BY DEF Init, CacheInit
<1>4. CacheType
  BY <1>1, <1>2, <1>3 DEF CacheType
<1>. QED BY <1>1, <1>4 DEF CacheInv

\* The slot of the token that is run, and the offset it is written at.
LEMMA SlotOfNext ==
    ASSUME CacheInv
    PROVE  /\ n_past \in Nat /\ CacheLength \in Nat \ {0} /\ Offset \in Int
           /\ Offset <= 0 /\ Offset + n_past <= CacheLength
           /\ NewOffset(Offset, n_past) \in Int /\ NewOffset(Offset, n_past) <= Offset
           /\ NewOffset(Offset, n_past) + n_past < CacheLength
           /\ NewOffset(Offset, n_past) + n_past + 1 <= CacheLength
           /\ Full(Offset, n_past) => /\ Offset + n_past = CacheLength
                                      /\ NewOffset(Offset, n_past) + n_past = Kept
           /\ ~Full(Offset, n_past) => NewOffset(Offset, n_past) = Offset
           /\ ReadLen(n_past) \in 1 .. n_past + 1 /\ ReadLen(n_past) <= Window
           /\ ReadFrom(Offset, n_past) \in Int
<1>1. n_past \in Nat /\ CacheLength \in Nat \ {0}
  BY DEF CacheInv, CacheType, n_past, CacheLength
<1>2. Offset \in Int /\ Offset <= 0 /\ Offset + n_past <= CacheLength
  BY <1>1 DEF CacheInv, CacheType, Offset
<1>. QED
  BY <1>1, <1>2 DEF NewOffset, Full, Shift, Kept, CacheLength, ReadLen, ReadFrom

\* Running a token keeps the slots of the positions behind it that stay in the
\* strip, and gives the token its own.
LEMMA FeedHolds ==
    ASSUME CacheInv, NEW token \in Token, Feed(token), ReadFrom(Offset, n_past) >= 0
    PROVE  /\ context' = Append(context, token)
           /\ context' \in Seq(Token) /\ Len(context') = n_past + 1
           /\ cache' \in [Slot -> Token \cup {Blank}]
           /\ cache_offset' = NewOffset(Offset, n_past)
           /\ Holds'
<1>. DEFINE n == n_past
            o == NewOffset(Offset, n)
            moved == IF Full(Offset, n)
                     THEN [s \in Slot |-> IF s < Kept THEN cache[s + Shift] ELSE cache[s]]
                     ELSE cache
<1>1. /\ context' = Append(context, token) /\ cache_offset' = o
      /\ cache' = [moved EXCEPT ![o + n] = token]
  BY SlotOfNext DEF Feed, Written
<1>2. context' \in Seq(Token) /\ Len(context') = n + 1
  BY <1>1 DEF CacheInv, CacheType, n_past
<1>3. moved \in [Slot -> Token \cup {Blank}]
  BY SlotOfNext DEF CacheInv, CacheType, Slot, Shift, Kept, CacheLength
<1>4. o + n \in Slot
  <2>1. o + n >= 0
    BY SlotOfNext DEF ReadFrom
  <2>. QED BY <2>1, SlotOfNext DEF Slot
<1>5. cache' \in [Slot -> Token \cup {Blank}]
  BY <1>1, <1>3
<1>6. ASSUME NEW p \in 1 .. n + 1, o + p > 0
      PROVE  cache'[o + p - 1] = context'[p]
  <2>1. CASE p = n + 1
    <3>1. o + p - 1 = o + n
      BY <2>1, SlotOfNext
    <3>2. context'[p] = token
      BY <1>1, <2>1 DEF CacheInv, CacheType, n_past
    <3>. QED BY <1>1, <1>3, <1>4, <3>1, <3>2
  <2>2. CASE p # n + 1
    <3>1. p \in 1 .. n /\ n > 0 /\ Offset = cache_offset
      BY <2>2, SlotOfNext DEF Offset
    <3>2. context'[p] = context[p]
      BY <1>1, <3>1 DEF CacheInv, CacheType, n_past
    <3>3. o + p - 1 \in Slot /\ o + p - 1 < o + n
      BY <1>6, <3>1, <1>4, SlotOfNext DEF Slot
    <3>4. cache'[o + p - 1] = moved[o + p - 1]
      BY <1>1, <1>3, <3>3, SlotOfNext
    <3>5. cache_offset + p > 0 => cache[cache_offset + p - 1] = context[p]
      BY <3>1 DEF CacheInv, Holds
    <3>6. CASE ~Full(Offset, n)
      <4>1. o = cache_offset
        BY <3>1, <3>6, SlotOfNext
      <4>. QED BY <1>6, <3>2, <3>4, <3>5, <3>6, <4>1
    <3>7. CASE Full(Offset, n)
      <4>1. o = cache_offset - Shift /\ Shift \in Nat /\ cache_offset \in Int
        BY <3>1, <3>7 DEF NewOffset, CacheInv, CacheType, Shift, Kept, CacheLength
      <4>2. o + p - 1 < Kept
        BY <3>3, <3>7, SlotOfNext DEF Kept
      <4>3. moved[o + p - 1] = cache[o + p - 1 + Shift]
        BY <3>3, <3>7, <4>2
      <4>4. o + p - 1 + Shift = cache_offset + p - 1 /\ cache_offset + p > 0
        BY <1>6, <4>1, <3>1
      <4>. QED BY <3>2, <3>4, <3>5, <4>3, <4>4
    <3>. QED BY <3>6, <3>7
  <2>. QED BY <2>1, <2>2
<1>7. Holds'
  BY <1>1, <1>2, <1>6 DEF Holds, n_past
<1>. QED BY <1>1, <1>2, <1>5, <1>7

\* As long as the model was not set back, the whole window of the next token is in
\* the strip.
LEMMA NeverFails ==
    ASSUME CacheInv, ~rewound
    PROVE  ReadFrom(Offset, n_past) >= 0
<1>1. CASE Full(Offset, n_past)
  BY <1>1, SlotOfNext DEF ReadFrom, Kept
<1>2. CASE ~Full(Offset, n_past)
  <2>1. CASE Offset = 0
    BY <1>2, <2>1, SlotOfNext DEF ReadFrom
  <2>2. CASE Offset # 0
    <3>1. n_past > 0 /\ Offset = cache_offset /\ Offset + n_past >= Window
      BY <2>2, SlotOfNext DEF Offset, CacheInv
    <3>. QED BY <1>2, <3>1, SlotOfNext DEF ReadFrom
  <2>. QED BY <2>1, <2>2
<1>. QED BY <1>1, <1>2

-----------------------------------------------------------------------------
LEMMA RunModelCache ==
    ASSUME CacheInv, RunModel
    PROVE  CacheInv'
<1>1. /\ Head(input) \in Token /\ Tail(input) \in Seq(Token)
      /\ Len(input) # 1 => Tail(input) # <<>>
  <2>1. input \in Seq(Token) /\ input # <<>>
    BY DEF RunModel, CacheInv, CacheType
  <2>2. Head(input) \in Token /\ Tail(input) \in Seq(Token) /\ Len(Tail(input)) = Len(input) - 1
    BY <2>1, HeadTailProperties
  <2>3. Len(input) \in Nat /\ (Tail(input) = <<>> => Len(Tail(input)) = 0)
    BY <2>1, EmptySeq, LenProperties
  <2>. QED BY <2>2, <2>3
<1>2. Feed(Head(input))
  BY DEF RunModel
<1>3. CASE ReadFrom(Offset, n_past) < 0
  <2>1. rewound
    BY <1>3, NeverFails, SlotOfNext
  <2>2. failed' = TRUE /\ UNCHANGED <<context, cache, cache_offset, rewound>>
    BY <1>2, <1>3 DEF Feed
  <2>3. phase' \in {"feed", "sample"} /\ input' = Tail(input)
        /\ (phase' = "feed" => Len(input) # 1)
    BY DEF RunModel
  <2>. QED BY <1>1, <2>1, <2>2, <2>3 DEF CacheInv, CacheType, Holds, n_past
<1>4. CASE ~(ReadFrom(Offset, n_past) < 0)
  <2>1. ReadFrom(Offset, n_past) >= 0
    BY <1>4, SlotOfNext
  <2>2. /\ context' \in Seq(Token) /\ Len(context') = n_past + 1
        /\ cache' \in [Slot -> Token \cup {Blank}]
        /\ cache_offset' = NewOffset(Offset, n_past) /\ Holds'
    BY <1>1, <1>2, <2>1, FeedHolds
  <2>3. UNCHANGED <<rewound, failed>>
    BY <1>2, <1>4 DEF Feed
  <2>4. phase' \in {"feed", "sample"} /\ input' = Tail(input)
        /\ (phase' = "feed" => Len(input) # 1)
    BY DEF RunModel
  <2>5. cache_offset' \in Int /\ cache_offset' <= 0 /\ cache_offset' + n_past' <= CacheLength
    BY <2>2, SlotOfNext DEF n_past
  <2>6. ~rewound' => cache_offset' = 0 \/ cache_offset' + n_past' >= Window
    <3>1. CASE Full(Offset, n_past)
      BY <2>2, <3>1, SlotOfNext DEF n_past, Kept
    <3>2. CASE ~Full(Offset, n_past)
      BY <2>2, <2>3, <3>2, SlotOfNext DEF n_past, CacheInv, Offset
    <3>. QED BY <3>1, <3>2
  <2>. QED BY <1>1, <2>2, <2>3, <2>4, <2>5, <2>6 DEF CacheInv, CacheType
<1>. QED BY <1>3, <1>4

LEMMA RewindCache ==
    ASSUME CacheInv, NEW n \in 0 .. n_past, Rewind(n)
    PROVE  CacheInv'
<1>1. /\ n < n_past /\ context' = SubSeq(context, 1, n)
      /\ rewound' = (n > 0 /\ (rewound \/ n < n_past))
      /\ phase = "idle"
      /\ UNCHANGED <<cache, cache_offset, failed, input, phase>>
  BY DEF Rewind, SetPast
<1>2. /\ context' \in Seq(Token) /\ Len(context') = n
      /\ \A p \in 1 .. n : context'[p] = context[p]
  BY <1>1 DEF CacheInv, CacheType, n_past
<1>3. n_past \in Nat /\ CacheLength \in Nat
  BY SlotOfNext
<1>4. CacheType'
  BY <1>1, <1>2 DEF CacheInv, CacheType
<1>5. n > 0 => /\ cache_offset' <= 0 /\ cache_offset' + n_past' <= CacheLength
               /\ Holds' /\ rewound'
  <2>. SUFFICES ASSUME n > 0
                PROVE  /\ cache_offset' <= 0 /\ cache_offset' + n_past' <= CacheLength
                       /\ Holds' /\ rewound'
    OBVIOUS
  <2>1. n_past' = n /\ n < n_past /\ n \in Nat /\ cache_offset \in Int
    BY <1>1, <1>2 DEF n_past, CacheInv, CacheType
  <2>2. cache_offset <= 0 /\ cache_offset + n_past <= CacheLength /\ Holds
    BY <1>3, <2>1 DEF CacheInv
  <2>3. cache_offset' <= 0 /\ cache_offset' + n_past' <= CacheLength
    BY <1>1, <1>3, <2>1, <2>2
  <2>4. Holds'
    <3>. SUFFICES ASSUME NEW p \in 1 .. n, cache_offset + p > 0
                  PROVE  cache[cache_offset + p - 1] = context'[p]
      BY <1>1, <2>1 DEF Holds
    <3>1. p \in 1 .. n_past
      BY <1>3, <2>1
    <3>. QED BY <1>2, <2>2, <3>1 DEF Holds
  <2>. QED BY <1>1, <2>1, <2>3, <2>4
<1>6. ~failed'
  BY <1>1 DEF CacheInv
<1>. QED BY <1>1, <1>2, <1>4, <1>5, <1>6 DEF CacheInv, n_past

LEMMA CacheInvStep == CacheInv /\ [Next]_vars => CacheInv'
<1>. SUFFICES ASSUME CacheInv, [Next]_vars PROVE CacheInv'
  OBVIOUS
<1>1. CASE InitialRun
  <2>1. /\ UNCHANGED <<context, cache, rewound, failed, input>>
        /\ phase = "new" /\ phase' = "idle"
    BY <1>1 DEF InitialRun, Reserve, penaltyVars
  <2>2. cache_offset' \in Int
    BY <1>1 DEF InitialRun, Reserve, NewOffset, Shift, CacheLength, Kept, CacheInv, CacheType
  <2>. QED BY <2>1, <2>2 DEF CacheInv, CacheType, n_past
<1>2. ASSUME NEW n \in 0 .. n_past, Rewind(n) PROVE CacheInv'
  BY <1>2, RewindCache
<1>3. ASSUME NEW ids \in Inputs, Generate(ids) PROVE CacheInv'
  BY <1>3 DEF Generate, cacheVars, CacheInv, CacheType, Holds, n_past
<1>4. CASE RunModel
  BY <1>4, RunModelCache
<1>5. ASSUME NEW t \in Choice, SampleToken(t) PROVE CacheInv'
  <2>1. /\ UNCHANGED <<context, cache, cache_offset, rewound, failed>>
        /\ phase = "sample" /\ ~failed
    BY <1>5 DEF SampleToken, cacheVars
  <2>2. /\ input' \in Seq(Token) /\ phase' \in {"idle", "feed"}
        /\ phase' = "feed" => input' # <<>>
    <3>1. CASE t = EOS \/ n_past + 1 >= MaxLength
      <4>1. input' = <<>> /\ phase' = "idle"
        BY <1>5, <3>1 DEF SampleToken
      <4>. QED BY <4>1, EmptySeq
    <3>2. CASE ~(t = EOS \/ n_past + 1 >= MaxLength)
      <4>1. t \in Token /\ input' = <<t>> /\ phase' = "feed"
        BY <1>5, <3>2 DEF SampleToken
      <4>2. Len(<<t>>) = 1 /\ <<t>> \in Seq(Token)
        BY <4>1
      <4>. QED BY <4>1, <4>2
    <3>. QED BY <3>1, <3>2
  <2>. QED BY <2>1, <2>2 DEF CacheInv, CacheType, Holds, n_past
<1>6. CASE UNCHANGED vars
  BY <1>6 DEF vars, cacheVars, CacheInv, CacheType, Holds, n_past
<1>. QED BY <1>1, <1>2, <1>3, <1>4, <1>5, <1>6 DEF Next

THEOREM CacheInvariant == Spec => []CacheInv
<1>. QED BY CacheInvInit, CacheInvStep, PTL DEF Spec

\* A model that is only ever set back to its start never asks for a slot that has
\* left the strip, whatever the window and the spare room.
THEOREM OnlyRewindsFailHolds == Spec => []OnlyRewindsFail
<1>1. CacheInv => OnlyRewindsFail
  BY DEF CacheInv, OnlyRewindsFail
<1>. QED BY <1>1, CacheInvariant, PTL

\* The arithmetic of a place in the window: position and slot of its i-th token.
LEMMA PlaceInWindow ==
    ASSUME NEW n \in Nat, NEW m \in 1 .. n + 1, NEW i \in 1 .. m, NEW o \in Int,
           NEW from, from = o + n + 1 - m, from >= 0
    PROVE  /\ n + 1 - m + i \in 1 .. n + 1
           /\ o + (n + 1 - m + i) - 1 = from + i - 1
           /\ o + (n + 1 - m + i) > 0
OBVIOUS

\* The end of a sequence as a function.
LEMMA TailOfSeq ==
    ASSUME NEW s \in Seq(Token), NEW k \in Nat, NEW m \in Nat, k + m = Len(s)
    PROVE  SubSeq(s, k + 1, k + m) = [i \in 1 .. m |-> s[k + i]]
<1>. DEFINE f == [i \in 1 .. m |-> s[k + i]]
            w == SubSeq(s, k + 1, k + m)
<1>1. \A i \in k + 1 .. k + m : s[i] \in Token
  OBVIOUS
<1>2. w \in Seq(Token) /\ Len(w) = m /\ \A i \in 1 .. m : w[i] = s[k + 1 + i - 1]
  BY <1>1, SubSeqProperties
<1>3. f \in Seq(Token) /\ Len(f) = m
  BY <1>1
<1>4. \A i \in 1 .. m : w[i] = f[i]
  BY <1>2
<1>. QED BY <1>2, <1>3, <1>4, SeqEqual

\* What attention reads is the window of the context, whatever was run, set back
\* and moved before.
THEOREM WindowAlwaysHolds == Spec => WindowHolds
<1>. DEFINE Window1 == phase = "feed" /\ ~failed' =>
                LET n == Len(context') IN
                seen' = SubSeq(context', IF n > Window THEN n - Window + 1 ELSE 1, n)
<1>1. CacheInv /\ [Next]_vars => [Window1]_vars
  <2>. SUFFICES ASSUME CacheInv, Next, phase = "feed", ~failed' PROVE Window1
    OBVIOUS
  <2>1. RunModel
    BY DEF Next, InitialRun, Rewind, Generate, SampleToken
  <2>2. Head(input) \in Token /\ Feed(Head(input)) /\ input # <<>>
    BY <2>1 DEF RunModel, CacheInv, CacheType
  <2>3. ReadFrom(Offset, n_past) >= 0
    BY <2>2, SlotOfNext DEF Feed
  <2>4. /\ Len(context') = n_past + 1 /\ context' \in Seq(Token)
        /\ cache_offset' = NewOffset(Offset, n_past) /\ Holds'
    BY <2>2, <2>3, FeedHolds
  <2>. DEFINE m == ReadLen(n_past)
              from == ReadFrom(Offset, n_past)
  <2>5. seen' = [i \in 1 .. m |-> cache'[from + i - 1]]
    BY <2>2, <2>3, SlotOfNext DEF Feed
  <2>6. \A i \in 1 .. m : cache'[from + i - 1] = context'[n_past + 1 - m + i]
    <3>. TAKE i \in 1 .. m
    <3>. DEFINE p == n_past + 1 - m + i
    <3>1. from = cache_offset' + n_past + 1 - m /\ n_past \in Nat /\ m \in 1 .. n_past + 1
          /\ cache_offset' \in Int /\ from >= 0
      BY <2>3, <2>4, SlotOfNext DEF ReadFrom
    <3>2. p \in 1 .. n_past + 1 /\ cache_offset' + p - 1 = from + i - 1 /\ cache_offset' + p > 0
      <4>. DEFINE n == n_past
                  o == cache_offset'
      <4>1. n \in Nat /\ m \in 1 .. n + 1 /\ o \in Int /\ from = o + n + 1 - m /\ from >= 0
        BY <3>1
      <4>2. p = n + 1 - m + i
        OBVIOUS
      <4>. HIDE DEF m, from, n, o, p
      <4>3. /\ n + 1 - m + i \in 1 .. n + 1
            /\ o + (n + 1 - m + i) - 1 = from + i - 1
            /\ o + (n + 1 - m + i) > 0
        BY <4>1, PlaceInWindow
      <4>4. p \in 1 .. n + 1 /\ o + p - 1 = from + i - 1 /\ o + p > 0
        BY <4>2, <4>3
      <4>. QED BY <4>4 DEF n, o
    <3>3. p \in 1 .. n_past'
      BY <2>4, <3>2 DEF n_past
    <3>. QED BY <2>4, <3>2, <3>3 DEF Holds
  <2>7. n_past + 1 - m + 1 = (IF Len(context') > Window THEN Len(context') - Window + 1 ELSE 1)
    BY <2>4, SlotOfNext DEF ReadLen
  <2>8. SubSeq(context', n_past + 1 - m + 1, n_past + 1)
            = [i \in 1 .. m |-> context'[n_past + 1 - m + i]]
    <3>1. n_past + 1 - m \in Nat /\ m \in Nat /\ (n_past + 1 - m) + m = Len(context')
          /\ n_past + 1 - m + 1 = (n_past + 1 - m) + 1
      BY <2>4, SlotOfNext
    <3>. HIDE DEF m
    <3>. QED BY <2>4, <3>1, TailOfSeq
  <2>. QED BY <2>4, <2>5, <2>6, <2>7, <2>8
<1>. QED BY <1>1, CacheInvariant, PTL DEF Spec, WindowHolds

-----------------------------------------------------------------------------
(* The logits penalty.  The ring, read from where the next choice goes, is  *)
(* the last penalty_window choices from the oldest to the newest; so the    *)
(* choice that the next one displaces is the one that leaves the window.    *)

Wrap(k) == IF hist_write + k >= PenaltyWindow THEN hist_write + k - PenaltyWindow
                                             ELSE hist_write + k

\* The choices in the window that are t.
InWindow(s, t) == {i \in 1 .. Len(s) : i > Len(s) - PenaltyWindow /\ s[i] = t}

PenaltyInv ==
    /\ chosen \in Seq(Choice)
    /\ token_history \in [Place -> Choice \cup {NoChoice}] /\ hist_write \in Place
    /\ \A k \in Place :
          LET i == Len(chosen) - PenaltyWindow + k + 1 IN
          token_history[Wrap(k)] = IF i > 0 THEN chosen[i] ELSE NoChoice
    /\ token_count \in {<<>>} \cup [Choice -> Int]
    /\ Counters \in [Choice -> Int]
    /\ \A t \in Choice : Counters[t] = Cardinality(InWindow(chosen, t))

LEMMA NewPenalty == PenaltyInit => PenaltyInv
<1>. SUFFICES ASSUME PenaltyInit PROVE PenaltyInv
  OBVIOUS
<1>. USE DEF PenaltyInit
<1>1. chosen \in Seq(Choice) /\ Len(chosen) = 0 /\ hist_write \in Place
  BY DEF Place
<1>2. \A k \in Place : /\ Wrap(k) \in Place
                       /\ ~(Len(chosen) - PenaltyWindow + k + 1 > 0)
  BY <1>1 DEF Wrap, Place
<1>3. Counters = [t \in Choice |-> 0]
  BY DEF Counters
<1>4. \A t \in Choice : InWindow(chosen, t) = {}
  BY <1>1 DEF InWindow
<1>. QED BY <1>1, <1>2, <1>3, <1>4, FS_EmptySet DEF PenaltyInv

\* A choice enters the window, and the one that was penalty_window before leaves it.
LEMMA WindowMoves ==
    ASSUME NEW s \in Seq(Choice), NEW c \in Choice, NEW t \in Choice
    PROVE  LET old == Len(s) - PenaltyWindow + 1 IN
           /\ IsFiniteSet(InWindow(s, t))
           /\ Cardinality(InWindow(Append(s, c), t)) =
                 Cardinality(InWindow(s, t))
                 - (IF old > 0 /\ s[old] = t THEN 1 ELSE 0)
                 + (IF c = t THEN 1 ELSE 0)
<1>. DEFINE n == Len(s)
            old == n - PenaltyWindow + 1
            S == InWindow(s, t)
            new == Append(s, c)
<1>1. n \in Nat /\ Len(new) = n + 1 /\ new[n + 1] = c /\ \A i \in 1 .. n : new[i] = s[i]
  OBVIOUS
<1>2. IsFiniteSet(S) /\ n + 1 \notin S
  <2>1. S \in SUBSET (1 .. n)
    BY DEF InWindow
  <2>2. n + 1 \notin S
    BY <1>1, <2>1
  <2>. HIDE DEF S
  <2>3. IsFiniteSet(1 .. n)
    BY <1>1, FS_Interval
  <2>4. IsFiniteSet(S)
    BY <2>1, <2>3, FS_Subset
  <2>. QED BY <2>2, <2>4
<1>3. (old \in S) <=> (old > 0 /\ s[old] = t)
  BY <1>1 DEF InWindow
<1>4. InWindow(new, t) = IF c = t THEN (S \ {old}) \cup {n + 1} ELSE S \ {old}
  BY <1>1 DEF InWindow
<1>5. /\ IsFiniteSet(S \ {old})
      /\ Cardinality(S \ {old}) = IF old \in S THEN Cardinality(S) - 1 ELSE Cardinality(S)
  BY <1>2, FS_RemoveElement
<1>6. Cardinality((S \ {old}) \cup {n + 1}) = Cardinality(S \ {old}) + 1
  BY <1>2, <1>5, FS_AddElement
<1>7. Cardinality(S) \in Nat /\ Cardinality(S \ {old}) \in Nat
  BY <1>2, <1>5, FS_CardinalityType
<1>. QED BY <1>2, <1>3, <1>4, <1>5, <1>6, <1>7

LEMMA AcceptKeeps ==
    ASSUME PenaltyInv, NEW c \in Choice, AcceptChoice(c)
    PROVE  PenaltyInv'
<1>. DEFINE n == Len(chosen)
            old == n - PenaltyWindow + 1
<1>1. chosen' = Append(chosen, c) /\ chosen' \in Seq(Choice) /\ Len(chosen') = n + 1 /\ n \in Nat
      /\ chosen'[n + 1] = c /\ \A i \in 1 .. n : chosen'[i] = chosen[i]
  BY DEF AcceptChoice, PenaltyInv
<1>2. /\ hist_write \in Place /\ hist_write' \in Place
      /\ hist_write' = IF hist_write + 1 >= PenaltyWindow THEN 0 ELSE hist_write + 1
      /\ token_history' = [token_history EXCEPT ![hist_write] = c]
      /\ token_history' \in [Place -> Choice \cup {NoChoice}]
  BY DEF AcceptChoice, PenaltyInv, Place
<1>3. token_history[hist_write] = IF old > 0 THEN chosen[old] ELSE NoChoice
  <2>1. 0 \in Place /\ Wrap(0) = hist_write /\ n - PenaltyWindow + 0 + 1 = old
    BY <1>1, <1>2 DEF Wrap, Place
  <2>. QED BY <2>1 DEF PenaltyInv
<1>4. ASSUME NEW k \in Place
      PROVE  token_history'[Wrap(k)'] = IF n + 1 - PenaltyWindow + k + 1 > 0
                                        THEN chosen'[n + 1 - PenaltyWindow + k + 1] ELSE NoChoice
  <2>1. CASE k = PenaltyWindow - 1
    <3>1. Wrap(k)' = hist_write
      BY <1>2, <2>1 DEF Wrap, Place
    <3>2. n + 1 - PenaltyWindow + k + 1 = n + 1
      BY <1>1, <2>1
    <3>. QED BY <1>1, <1>2, <3>1, <3>2 DEF PenaltyInv
  <2>2. CASE k # PenaltyWindow - 1
    <3>1. /\ k + 1 \in Place /\ Wrap(k)' = Wrap(k + 1) /\ Wrap(k + 1) # hist_write
          /\ Wrap(k + 1) \in Place
      BY <1>2, <2>2 DEF Wrap, Place
    <3>2. token_history'[Wrap(k)'] = token_history[Wrap(k + 1)]
      BY <1>2, <3>1 DEF PenaltyInv
    <3>3. token_history[Wrap(k + 1)] = IF n - PenaltyWindow + (k + 1) + 1 > 0
                                       THEN chosen[n - PenaltyWindow + (k + 1) + 1] ELSE NoChoice
      BY <3>1 DEF PenaltyInv
    <3>. DEFINE j == n + 1 - PenaltyWindow + k + 1
    <3>4. n - PenaltyWindow + (k + 1) + 1 = j /\ j \in Int /\ j <= n
      BY <1>1, <2>2 DEF Place
    <3>5. j > 0 => chosen'[j] = chosen[j]
      BY <1>1, <3>4
    <3>. HIDE DEF j
    <3>6. token_history'[Wrap(k)'] = IF j > 0 THEN chosen'[j] ELSE NoChoice
      BY <3>2, <3>3, <3>4, <3>5
    <3>. QED BY <3>6 DEF j
  <2>. QED BY <2>1, <2>2
<1>5. /\ Counters \in [Choice -> Int]
      /\ token_count' = [u \in Choice |-> Counters[u]
                             - (IF u = token_history[hist_write] THEN 1 ELSE 0)
                             + (IF u = c THEN 1 ELSE 0)]
      /\ token_count' \in [Choice -> Int]
  BY DEF AcceptChoice, PenaltyInv
<1>6. token_count' # <<>> /\ Counters' = token_count'
  BY <1>5 DEF Counters
<1>7. ASSUME NEW t \in Choice
      PROVE  Counters'[t] = Cardinality(InWindow(chosen', t))
  <2>1. Counters[t] = Cardinality(InWindow(chosen, t))
    BY DEF PenaltyInv
  <2>2. (t = token_history[hist_write]) <=> (old > 0 /\ chosen[old] = t)
    BY <1>3
  <2>3. chosen \in Seq(Choice)
    BY DEF PenaltyInv
  <2>4. Cardinality(InWindow(chosen', t)) =
            Cardinality(InWindow(chosen, t))
            - (IF old > 0 /\ chosen[old] = t THEN 1 ELSE 0) + (IF c = t THEN 1 ELSE 0)
    BY <1>1, <2>3, WindowMoves
  <2>. QED BY <1>5, <1>6, <2>1, <2>2, <2>4
<1>8. \A t \in Choice : Counters'[t] = Cardinality(InWindow(chosen, t)')
  BY <1>7 DEF InWindow
<1>9. Len(chosen') = n + 1
  BY <1>1
<1>10. token_count' \in {<<>>} \cup [Choice -> Int] /\ Counters' \in [Choice -> Int]
  BY <1>5, <1>6
<1>11. \A k \in Place :
         LET i == Len(chosen') - PenaltyWindow + k + 1 IN
         token_history'[Wrap(k)'] = IF i > 0 THEN chosen'[i] ELSE NoChoice
  BY <1>4, <1>9 DEF Wrap
<1>. QED BY ONLY <1>1, <1>2, <1>8, <1>10, <1>11 DEF PenaltyInv, Place

\* The counters of the penalty are right for every vocabulary and window: the ring
\* never takes off a choice that is still in the window, nor forgets one.
THEOREM CountsAreRight == Spec => []CountsAreOfWindow
<1>1. Init => PenaltyInv
  BY NewPenalty DEF Init, PenaltyInit
<1>2. PenaltyInv /\ [Next]_vars => PenaltyInv'
  <2>. SUFFICES ASSUME PenaltyInv, [Next]_vars PROVE PenaltyInv'
    OBVIOUS
  <2>1. ASSUME NEW ids \in Inputs, Generate(ids) PROVE PenaltyInv'
    <3>1. PenaltyInit'
      BY <2>1 DEF Generate, NewSampler, PenaltyInit
    <3>. QED BY <3>1, NewPenalty, PTL
  <2>2. ASSUME NEW t \in Choice, SampleToken(t) PROVE PenaltyInv'
    BY <2>2, AcceptKeeps DEF SampleToken
  <2>3. CASE UNCHANGED penaltyVars
    BY <2>3 DEF penaltyVars, PenaltyInv, Wrap, Counters, InWindow
  <2>. QED BY <2>1, <2>2, <2>3 DEF Next, vars, InitialRun, Rewind, RunModel
<1>3. PenaltyInv => CountsAreOfWindow
  BY DEF PenaltyInv, CountsAreOfWindow, Counters, InWindow
<1>. QED BY <1>1, <1>2, <1>3, PTL DEF Spec
=============================================================================
