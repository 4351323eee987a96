---------------------------- MODULE ModelContext ----------------------------
(***************************************************************************)
(* A model and its KV cache: BaseModelForConditionalGeneration::generate   *)
(* and the calls under it, on the thread that generates, with              *)
(* abort_generation() called from any other thread.                        *)
(*                                                                         *)
(* Data: a token is a member of Token, its logits are left out (any token  *)
(* may be sampled) and a KV cache row is the token it was computed from.   *)
(* One forward computation (run_model) is one step: other threads share    *)
(* nothing with it but the flag `aborted'.                                 *)
(***************************************************************************)
EXTENDS Integers, Sequences

CONSTANTS
    Token,          \* the vocabulary
    EOS,            \* a terminating token, is_terminate_token_id()
    Empty,          \* a cache row that was never written
    NoSession,      \* no session file has been written
    MaxLength,      \* config_.max_length: rows of the cache, limit of generate
    Batch,          \* batch_input: most tokens of a prompt in one run
    Prompts,        \* the input_ids the pipeline may pass
    MaxNews,        \* the values of max_new_tokens (-1: unlimited)
    Keeps,          \* the values of max_context_length, what a shift keeps
    MaxOffset,      \* bound: no shift is made that would forget more than this
    ClientOps,      \* optional calls of the pipeline: "shift", "exec"
    Faults          \* memory shortages that may happen: "allocate", "reserve"

ASSUME ModelContextAssumption ==
    /\ MaxLength \in Nat \ {0} /\ Batch \in Nat \ {0}
    /\ EOS \in Token /\ Empty \notin Token
    /\ Prompts \subseteq Seq(Token) /\ MaxNews \subseteq Int
    /\ Keeps \subseteq Nat \ {0} /\ MaxOffset \in Nat

VARIABLES
    n_past,         \* tokens of the context that are in the cache
    n_past_offset,  \* tokens forgotten by shift_memory
    shift_pending,  \* the shift the next run applies to the cache
    cache,          \* the rows of k_cache and v_cache
    initial_run,    \* run_model has been called
    aborted,        \* written by abort_generation() and by generate
    completed,      \* the output parameter of generate
    curr_input_ids, \* tokens not yet in the cache
    fed,            \* how many of them generate_next_token has run
    past,           \* its position in the cache
    output_ids,     \* what the call of generate has produced
    max_new_tokens, \* of the call's gen_config
    gen_max_tokens, \* where the call stops, 0: nowhere
    pc,             \* where the call of generate is
    session         \* the session file, or NoSession

modelVars == <<n_past, n_past_offset, shift_pending, cache, initial_run>>
callVars  == <<completed, curr_input_ids, fed, past, output_ids,
               max_new_tokens, gen_max_tokens, pc>>
vars == <<modelVars, aborted, callVars, session>>

Rows    == 0 .. MaxLength - 1
Shift   == [shift : 0 .. MaxLength, total : 0 .. MaxLength]
NoShift == [shift |-> 0, total |-> 0]
Session == [n_past : 0 .. MaxLength, n_past_offset : Nat,
            cache : [Rows -> Token \cup {Empty}]]

ASSUME NoSessionAssumption == NoSession \notin Session \cup Seq(Token)

-----------------------------------------------------------------------------
(* KVCacheAttention: the rows a run moves, and the rows it writes. *)

\* before_forward: `remain' rows are copied to the front of the cache.
Shifted(c, s) ==
    [i \in Rows |-> IF s.shift > 0 /\ i < s.total - s.shift
                    THEN c[i + s.shift] ELSE c[i]]

\* save_to_cache: rows for ids are written from row p on.
Written(c, p, ids) ==
    [i \in Rows |-> IF i \in p .. p + Len(ids) - 1 THEN ids[i - p + 1] ELSE c[i]]

\* The view of the rows to write must lie in the cache (an assertion of ggml).
InCache(p, n) == p + n <= MaxLength

\* The rows a run reads for the context, the pending shift applied.
View == [i \in 1 .. n_past |-> Shifted(cache, shift_pending)[i - 1]]

-----------------------------------------------------------------------------
Init ==
    /\ n_past = 0 /\ n_past_offset = 0 /\ shift_pending = NoShift
    /\ cache = [i \in Rows |-> Empty]
    /\ initial_run = FALSE /\ aborted = FALSE /\ completed = FALSE
    /\ curr_input_ids = <<>> /\ fed = 0 /\ past = 0 /\ output_ids = <<>>
    /\ max_new_tokens = -1 /\ gen_max_tokens = 0
    /\ pc = "idle" /\ session = NoSession

\* generate, up to its loop.
Generate(ids, continuous, max_new) ==
    /\ pc = "idle"
    /\ aborted' = FALSE
    /\ n_past' = IF continuous THEN n_past ELSE 0
    /\ n_past_offset' = IF continuous THEN n_past_offset ELSE 0
    /\ curr_input_ids' = ids
    /\ output_ids' = <<>> /\ completed' = FALSE
    /\ max_new_tokens' = max_new
    /\ gen_max_tokens' = IF max_new > 0 THEN n_past' + Len(ids) + max_new ELSE 0
    /\ pc' = "loop"
    /\ UNCHANGED <<shift_pending, cache, initial_run, fed, past, session>>

LoopGuardOfCache == ~aborted /\ ~completed /\ n_past < MaxLength  \* mutant

LoopGuard == /\ ~aborted /\ ~completed
             /\ n_past + Len(curr_input_ids) < MaxLength

\* The head of the loop of generate, then the head of generate_next_token.
EnterLoop ==
    /\ pc = "loop" /\ LoopGuard
    /\ fed' = 0
    /\ past' = n_past + n_past_offset
    /\ pc' = "feed"
    /\ UNCHANGED <<modelVars, aborted, completed, curr_input_ids, output_ids,
                   max_new_tokens, gen_max_tokens, session>>

LeaveLoopIfStopped ==  \* mutant: a full context does not end the loop
    /\ pc = "loop" /\ (completed \/ aborted)
    /\ pc' = "idle"
    /\ UNCHANGED <<modelVars, aborted, completed, curr_input_ids, fed, past,
                   output_ids, max_new_tokens, gen_max_tokens, session>>

LeaveLoop ==
    /\ pc = "loop" /\ ~LoopGuard
    /\ completed' = (completed \/ aborted)
    /\ pc' = "idle"
    /\ fed' = 0 /\ past' = 0
    /\ UNCHANGED <<modelVars, aborted, curr_input_ids, output_ids,
                   max_new_tokens, gen_max_tokens, session>>

Remain == Len(curr_input_ids) - fed

\* What one call of run_model is given: a batch while more than a batch
\* remains and nobody aborts, everything that remains otherwise.
RunLengthToTheEnd == IF Remain > Batch THEN Batch ELSE Remain  \* mutant

RunLength == IF Remain > Batch /\ ~aborted THEN Batch ELSE Remain

RunIds == SubSeq(curr_input_ids, fed + 1, fed + RunLength)

\* run_model.  The first run ever of a model measures the memory it needs,
\* which uses up a pending shift and clears n_past.
RunModel ==
    /\ InCache(past, RunLength)
    /\ cache' = Written(IF initial_run THEN Shifted(cache, shift_pending) ELSE cache,
                        past, RunIds)
    /\ shift_pending' = [shift_pending EXCEPT !.shift = 0]
    /\ initial_run' = TRUE

PastAfterAnyRun == 0  \* mutant: every run resets n_past
PastAfterRun == IF initial_run THEN n_past ELSE 0

NextPastOfBatch == past  \* mutant
NextPast == past + RunLength

\* A run of part of the prompt.
RunBatch ==
    /\ pc = "feed" /\ RunLength < Remain
    /\ RunModel
    /\ n_past' = PastAfterRun
    /\ past' = NextPast
    /\ fed' = fed + RunLength
    /\ UNCHANGED <<n_past_offset, aborted, completed, curr_input_ids, output_ids,
                   max_new_tokens, gen_max_tokens, pc, session>>

Fed == Len(curr_input_ids)

\* The run that ends generate_next_token: logits come back, and n_past moves on
\* (a run of no token has no logits and completes the call).
RunLast ==
    /\ pc = "feed" /\ RunLength = Remain
    /\ RunModel
    /\ n_past' = PastAfterRun + Fed
    /\ past' = NextPast
    /\ fed' = fed + RunLength
    /\ curr_input_ids' = <<>>
    /\ completed' = (Len(curr_input_ids) = 0)
    /\ pc' = IF Len(curr_input_ids) = 0 THEN "loop" ELSE "sample"
    /\ UNCHANGED <<n_past_offset, aborted, output_ids,
                   max_new_tokens, gen_max_tokens, session>>

\* run_model asks for rows outside of the cache: the process ends.
RunOutside ==
    /\ pc = "feed" /\ ~InCache(past, RunLength)
    /\ pc' = "crashed"
    /\ UNCHANGED <<modelVars, aborted, completed, curr_input_ids, fed, past,
                   output_ids, max_new_tokens, gen_max_tokens, session>>

\* run_model finds no memory for the graph it has built.
RunNoMemory ==
    /\ "allocate" \in Faults
    /\ pc = "feed" /\ InCache(past, RunLength)
    /\ shift_pending' = [shift_pending EXCEPT !.shift = 0]
    /\ initial_run' = TRUE
    /\ n_past' = PastAfterRun
    /\ aborted' = TRUE
    /\ pc' = "loop"
    /\ UNCHANGED <<n_past_offset, cache, completed, curr_input_ids, fed, past,
                   output_ids, max_new_tokens, gen_max_tokens, session>>

\* The first run finds no memory: before_initial_run fails, n_past stays where
\* the measurement had put it.
ReserveNoMemory ==
    /\ "reserve" \in Faults
    /\ pc = "feed" /\ ~initial_run
    /\ shift_pending' = [shift_pending EXCEPT !.shift = 0]
    /\ initial_run' = TRUE
    /\ n_past' = IF MaxLength > RunLength THEN MaxLength - RunLength ELSE 0
    /\ aborted' = TRUE
    /\ pc' = "loop"
    /\ UNCHANGED <<n_past_offset, cache, completed, curr_input_ids, fed, past,
                   output_ids, max_new_tokens, gen_max_tokens, session>>

LimitPassed == gen_max_tokens > 0 /\ n_past + 1 > gen_max_tokens  \* mutant
LimitReached == gen_max_tokens > 0 /\ n_past + 1 >= gen_max_tokens

\* A token t is sampled and taken over, unless the call has been aborted.
Sample(t) ==
    /\ pc = "sample" /\ ~aborted
    /\ curr_input_ids' = <<t>>
    /\ output_ids' = IF t = EOS THEN output_ids ELSE Append(output_ids, t)
    /\ completed' = (t = EOS)
    /\ aborted' = LimitReached
    /\ pc' = "loop"
    /\ UNCHANGED <<modelVars, fed, past, max_new_tokens, gen_max_tokens, session>>

\* No token: the call has been aborted, or the sampler itself gives up.
SampleNothing ==
    /\ pc = "sample"
    /\ aborted' = TRUE
    /\ pc' = "loop"
    /\ UNCHANGED <<modelVars, completed, curr_input_ids, fed, past, output_ids,
                   max_new_tokens, gen_max_tokens, session>>

-----------------------------------------------------------------------------
(* The other calls of the pipeline, between two calls of generate. *)

\* Pipeline::rewind and BaseModel::set_n_past.
RewindBehind(n) ==  \* mutant
    /\ pc = "idle"
    /\ n_past > n
    /\ n_past' = n - 1 /\ n_past_offset' = 0
    /\ UNCHANGED <<shift_pending, cache, initial_run, aborted, callVars, session>>

Rewind(n) ==
    /\ pc = "idle"
    /\ n_past > n
    /\ n_past' = n /\ n_past_offset' = 0
    /\ UNCHANGED <<shift_pending, cache, initial_run, aborted, callVars, session>>

ShiftMemory(keep) ==
    /\ pc = "idle"
    /\ keep < n_past /\ n_past_offset + (n_past - keep) <= MaxOffset
    /\ shift_pending' = [shift |-> n_past - keep, total |-> n_past]
    /\ n_past_offset' = n_past_offset + (n_past - keep)
    /\ n_past' = keep
    /\ UNCHANGED <<cache, initial_run, aborted, callVars, session>>

SaveSession ==
    /\ pc = "idle"
    /\ session' = [n_past |-> n_past, n_past_offset |-> n_past_offset, cache |-> cache]
    /\ UNCHANGED <<modelVars, aborted, callVars>>

LoadSession ==
    /\ pc = "idle" /\ session # NoSession
    /\ n_past' = session.n_past
    /\ n_past_offset' = session.n_past_offset
    /\ cache' = session.cache
    /\ UNCHANGED <<shift_pending, initial_run, aborted, callVars, session>>

\* The program ends and is started again: a new model object, the same file.
Exec ==
    /\ n_past' = 0 /\ n_past_offset' = 0 /\ shift_pending' = NoShift
    /\ cache' = [i \in Rows |-> Empty]
    /\ initial_run' = FALSE /\ aborted' = FALSE /\ completed' = FALSE
    /\ curr_input_ids' = <<>> /\ fed' = 0 /\ past' = 0 /\ output_ids' = <<>>
    /\ max_new_tokens' = -1 /\ gen_max_tokens' = 0
    /\ pc' = "idle" /\ UNCHANGED session

\* abort_generation(), from any thread, at any time.
Abort == aborted' = TRUE /\ UNCHANGED <<modelVars, callVars, session>>

-----------------------------------------------------------------------------
Call == \E ids \in Prompts, continuous \in BOOLEAN, max_new \in MaxNews :
            Generate(ids, continuous, max_new)

Run  == RunBatch \/ RunLast \/ RunOutside \/ RunNoMemory \/ ReserveNoMemory

Step == \/ EnterLoop \/ LeaveLoop \/ Run \/ SampleNothing
        \/ \E t \in Token : Sample(t)

Next == \/ Call \/ Step \/ Abort
        \/ \E n \in 0 .. MaxLength : Rewind(n)
        \/ SaveSession \/ LoadSession
        \/ "shift" \in ClientOps /\ \E keep \in Keeps : ShiftMemory(keep)
        \/ "exec" \in ClientOps /\ Exec

\* The thread that called generate runs until generate returns.
Spec == Init /\ [][Next]_vars /\ WF_vars(Step)

-----------------------------------------------------------------------------
(* Properties. *)

\* Every variable has its type.
TypeOK ==
    /\ n_past \in 0 .. MaxLength /\ n_past_offset \in Nat
    /\ shift_pending \in Shift
    /\ cache \in [Rows -> Token \cup {Empty}]
    /\ initial_run \in BOOLEAN /\ aborted \in BOOLEAN /\ completed \in BOOLEAN
    /\ curr_input_ids \in Seq(Token) /\ fed \in Nat
    /\ past \in Nat /\ output_ids \in Seq(Token)
    /\ max_new_tokens \in Int /\ gen_max_tokens \in Nat
    /\ pc \in {"idle", "loop", "feed", "sample", "crashed"}
    /\ session \in Session \cup {NoSession}

\* No run of the model touches a row outside of the KV cache, whatever calls
\* came before it: the bound generate keeps (n_past, tested at the head of its
\* loop) is enough for the position run_model is given.
CacheInBounds == pc # "crashed"

\* `--max_new_tokens N: max number of new tokens in a round of generation'
\* (main.cpp): a call of generate produces no more than it was allowed.
NewTokensBounded == max_new_tokens > 0 => Len(output_ids) <= max_new_tokens

\* What generate returns is what the next call of generate, when it continues,
\* is conditioned on: the output is the end of the cached context, but for the
\* one token that was sampled last when the call stopped before a terminating
\* token (by max_new_tokens, an abort or the end of the context).
IsTail(s, t) == /\ Len(s) <= Len(t)
                /\ SubSeq(t, Len(t) - Len(s) + 1, Len(t)) = s

Cached == IF curr_input_ids = <<>> \/ curr_input_ids = <<EOS>> THEN output_ids
          ELSE SubSeq(output_ids, 1, Len(output_ids) - 1)

OutputIsContextTail ==
    [][pc = "loop" /\ pc' = "idle" /\ output_ids # <<>> => IsTail(Cached, View)]_vars

\* An abort that arrives while generate runs is not overlooked: no token is
\* produced after it, and a prompt being processed costs one more run at most.
AbortStops ==
    [][pc # "idle" /\ aborted /\ pc' # "idle" =>
            /\ output_ids' = output_ids
            /\ aborted'
            /\ pc = "feed" /\ past' # past => pc' # "feed"]_vars

\* `--load_session' saves the time to evaluate the saved prompt again
\* (docs/tool_calling.md): a run of the model only ever adds to the context.
RunKeepsContext ==
    [][pc = "feed" /\ pc' # "idle" => n_past' >= n_past /\ IsTail(View, SubSeq(View', 1, n_past))]_vars

\* generate returns, whatever is sampled.
GenerateReturns == pc # "idle" ~> pc = "idle"

\* The rows [0, n_past) hold the tokens of the conversation, in order and
\* without a gap, through batches, aborts, memory shortages, rewinds and sessions.
StoredContext == IF session = NoSession THEN NoSession
                 ELSE [i \in 1 .. session.n_past |-> session.cache[i - 1]]

Abstract == INSTANCE TokenContext
                WITH Limit <- MaxLength, context <- View, stored <- StoredContext

ImplementsTokenContext == Abstract!Spec
=============================================================================
