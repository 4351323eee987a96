---------------------------- MODULE SlidingCache ----------------------------
(***************************************************************************)
(* The KV cache of a sliding-window attention layer (the partial cache,    *)
(* SlidingWindowAttentionImpl): a strip of sliding_window_len + extra_len  *)
(* slots.  Tokens are written one behind the other; when the strip is full *)
(* the end of the window is moved to its front and cache_offset says by    *)
(* how much positions and slots differ.                                    *)
(*                                                                         *)
(* A slot holds a token here for the key and value computed from it.       *)
(***************************************************************************)
EXTENDS Integers, Sequences

CONSTANTS
    Token,      \* the tokens that are run
    Blank,      \* what a slot holds that was never written
    Window,     \* sliding_window_len
    Extra       \* extra_len

ASSUME CacheAssumption ==
    /\ Blank \notin Token
    /\ Window \in Nat \ {0} /\ Extra \in Nat

VARIABLES
    context,        \* the tokens that n_past counts (what should have been run)
    cache,          \* the strip
    cache_offset,
    seen,           \* what the attention of the last token read
    rewound,        \* n_past was set back to a place inside the context (ghost)
    failed          \* a CHATLLM_CHECK threw

cacheVars == <<context, cache, cache_offset, seen, rewound, failed>>

-----------------------------------------------------------------------------
CacheLength == Window + Extra       \* cache_length
Slot == 0 .. CacheLength - 1
n_past == Len(context)

\* before_forward: the first token begins at the front.
Offset == IF n_past = 0 THEN 0 ELSE cache_offset

ShiftByWindow ==  \* mutant: a whole window is kept
    CacheLength - Window

\* What save_to_cache keeps of a full strip: the window but for the token that is
\* going to be written.
Kept == Window - 1
Shift == CacheLength - Kept

\* Where the token at position n is written, from the offset before, and what the
\* offset is then.
Full(offset, n) == CacheLength - (offset + n) < 1
NewOffset(offset, n) == IF Full(offset, n) THEN offset - Shift ELSE offset

\* The strip after the token at position n was written.
Written(offset, n, token) ==
    LET moved == IF Full(offset, n)
                 THEN [s \in Slot |-> IF s < Kept THEN cache[s + Shift] ELSE cache[s]]
                 ELSE cache
    IN  [moved EXCEPT ![NewOffset(offset, n) + n] = token]

\* The part of the strip that attention reads for position n.
ReadLen(n) == IF n + 1 > Window THEN Window ELSE n + 1
ReadFrom(offset, n) == NewOffset(offset, n) + n + 1 - ReadLen(n)

CacheInit ==
    /\ context = <<>> /\ seen = <<>>
    /\ cache = [s \in Slot |-> Blank]
    /\ cache_offset = 0
    /\ rewound = FALSE /\ failed = FALSE

KeepOffset(token) ==  \* mutant: the first token does not reset cache_offset
    LET n == n_past IN
    IF ReadFrom(cache_offset, n) < 0
    THEN failed' = TRUE /\ UNCHANGED <<context, cache, cache_offset, seen, rewound>>
    ELSE
    /\ cache' = Written(cache_offset, n, token)
    /\ cache_offset' = NewOffset(cache_offset, n)
    /\ seen' = [i \in 1 .. ReadLen(n) |-> cache'[ReadFrom(cache_offset, n) + i - 1]]
    /\ context' = Append(context, token)
    /\ UNCHANGED <<rewound, failed>>

\* One token is run: saved, then read with those before it; `offset must >= 0'.
Feed(token) ==
    LET n == n_past IN
    IF ReadFrom(Offset, n) < 0
    THEN failed' = TRUE /\ UNCHANGED <<context, cache, cache_offset, seen, rewound>>
    ELSE
    /\ cache' = Written(Offset, n, token)
    /\ cache_offset' = NewOffset(Offset, n)
    /\ seen' = [i \in 1 .. ReadLen(n) |-> cache'[ReadFrom(Offset, n) + i - 1]]
    /\ context' = Append(context, token)
    /\ UNCHANGED <<rewound, failed>>

\* set_n_past: nothing tells the cache.
SetPast(n) ==
    /\ context' = SubSeq(context, 1, n)
    /\ rewound' = (n > 0 /\ (rewound \/ n < n_past))
    /\ UNCHANGED <<cache, cache_offset, seen, failed>>

\* before_initial_run: a graph is built for position n, to see what memory it
\* takes.  Nothing is run; what save_to_cache does to cache_offset stays.
Reserve(n) ==
    /\ cache_offset' = LET o == NewOffset(IF n = 0 THEN 0 ELSE cache_offset, n)
                       IN  IF o + n >= CacheLength THEN 0 ELSE o
    /\ UNCHANGED <<context, cache, seen, rewound, failed>>
=============================================================================
