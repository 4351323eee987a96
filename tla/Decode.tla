------------------------------- MODULE Decode -------------------------------
(***************************************************************************)
(* The decode loop of a model with a sliding window, as its cache and its  *)
(* sampler see it: calls of generate that feed their input token by token  *)
(* and then sample, and calls that set the model back in between.          *)
(***************************************************************************)
EXTENDS FiniteSets, SlidingCache, LogitsPenalty

CONSTANTS
    EOS,        \* the choice that ends an answer
    Inputs,     \* what generate can be given: sequences of tokens
    MaxLength   \* max_length

ASSUME DecodeAssumption ==
    /\ Choice = Token \cup {EOS} /\ EOS \notin Token
    /\ Inputs \subseteq Seq(Token) /\ MaxLength \in Nat \ {0}

VARIABLES
    input,      \* curr_input_ids
    phase       \* "new", "idle", "feed" or "sample"

vars == <<cacheVars, penaltyVars, input, phase>>

-----------------------------------------------------------------------------
Init ==
    /\ CacheInit /\ PenaltyInit
    /\ input = <<>> /\ phase = "new"

\* The model's initial run reserves memory for the last position there can be.
InitialRun ==
    /\ phase = "new"
    /\ Reserve(MaxLength - 1)
    /\ phase' = "idle"
    /\ UNCHANGED <<penaltyVars, input>>

\* The pipeline sets the model back: to the start, or to a saved cursor.
Rewind(n) ==
    /\ phase = "idle" /\ n < n_past
    /\ SetPast(n)
    /\ UNCHANGED <<penaltyVars, input, phase>>

\* generate: a sampler is made for the call.
Generate(ids) ==
    /\ phase = "idle" /\ ids # <<>> /\ n_past + Len(ids) < MaxLength
    /\ NewSampler
    /\ input' = ids /\ phase' = "feed"
    /\ UNCHANGED cacheVars

\* generate_next_token without batches: one token at a time.
RunModel ==
    /\ phase = "feed" /\ ~failed
    /\ Feed(Head(input))
    /\ input' = Tail(input)
    /\ phase' = IF Len(input) = 1 THEN "sample" ELSE "feed"
    /\ UNCHANGED penaltyVars

\* The next token is sampled; it ends the answer, there is no room for it, or it is
\* run.
SampleToken(t) ==
    /\ phase = "sample" /\ ~failed
    /\ AcceptChoice(t)
    /\ IF t = EOS \/ n_past + 1 >= MaxLength
       THEN input' = <<>> /\ phase' = "idle"
       ELSE input' = <<t>> /\ phase' = "feed"
    /\ UNCHANGED cacheVars

Next ==
    \/ InitialRun
    \/ \E n \in 0 .. n_past : Rewind(n)
    \/ \E ids \in Inputs : Generate(ids)
    \/ RunModel
    \/ \E t \in Choice : SampleToken(t)

Spec == Init /\ [][Next]_vars

-----------------------------------------------------------------------------
(* Properties. *)

\* Every variable has its type.
TypeOK ==
    /\ context \in Seq(Token) /\ n_past <= MaxLength
    /\ cache \in [Slot -> Token \cup {Blank}] /\ cache_offset \in Int
    /\ seen \in Seq(Token \cup {Blank})
    /\ rewound \in BOOLEAN /\ failed \in BOOLEAN
    /\ token_history \in [Place -> Choice \cup {NoChoice}] /\ hist_write \in Place
    /\ token_count \in {<<>>} \cup [Choice -> Int]
    /\ chosen \in Seq(Choice)
    /\ input \in Seq(Token) /\ phase \in {"new", "idle", "feed", "sample"}

\* What a token's attention reads is the window: the last tokens of the context up
\* to it, in their order, however often the strip was moved and whatever the model
\* was set back to before.
WindowHolds ==
    [][phase = "feed" /\ ~failed' =>
         LET n == Len(context') IN
         seen' = SubSeq(context', IF n > Window THEN n - Window + 1 ELSE 1, n)]_vars

\* Only a model that was set back can ask for a part of the window that the strip
\* does not have any more, and fail.
OnlyRewindsFail == failed => rewound

\* The counters of the penalty count what was chosen in the last penalty_window
\* choices of this answer, neither more nor less.
CountsAreOfWindow ==
    token_count # <<>> =>
        \A t \in Choice :
            token_count[t] =
                LET n == Len(chosen) IN
                Cardinality({i \in 1 .. n : i > n - PenaltyWindow /\ chosen[i] = t})

\* `offset must >= 0' (CHATLLM_CHECK in get_k_from_cache).
OffsetNotNegative == ~failed
=============================================================================
