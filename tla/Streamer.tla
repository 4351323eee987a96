------------------------------ MODULE Streamer ------------------------------
(***************************************************************************)
(* How the text of an answer reaches the program while it is generated:    *)
(* FFIStreamer over BaseStreamer decodes the tokens and passes whole       *)
(* characters on, the ThoughtChunkInterceptor before it tells thoughts     *)
(* from the answer, by tags that may be cut anywhere by the tokens.        *)
(*                                                                         *)
(* Data: text is a sequence of bytes.  A byte is " ", a newline "\n", the  *)
(* Lead and the Trail of a character of two bytes, or a character of one.  *)
(* A token is the text it decodes to.                                      *)
(***************************************************************************)
EXTENDS Integers, Sequences, SequencesExt

CONSTANTS
    Token,      \* the texts of the vocabulary
    Lead, Trail,
    Tags,       \* ThoughtChunkInterceptor::tags, by the length of the opening;
                \* empty: thoughts are not detected
    Externals,  \* an AI prefix, or the text chatllm_ai_continue is given
    MaxText,    \* bound: bytes of all turns, one more for each turn
    ClientOps   \* "prefix", "continue", "retry"

ASSUME TextsAssumption ==
    /\ \A t \in Token \cup Externals : t \in Seq(STRING)
    /\ \A t \in Token : t # <<>>
    /\ Lead # "\n"
    /\ MaxText \in Nat

ASSUME TagsAssumption ==
    /\ Tags \in Seq([opening : Seq(STRING), closing : Seq(STRING)])
    /\ \A i \in DOMAIN Tags : Tags[i].opening # <<>> /\ Tags[i].closing # <<>>
    /\ \A i, j \in DOMAIN Tags : i < j => Len(Tags[i].opening) <= Len(Tags[j].opening)

VARIABLES
    pc,             \* "idle", or "streaming" while generate runs
    token_cache,    \* the text of the tokens since the last newline
    print_len,      \* how much of it has been passed on
    is_first,       \* nothing has been passed on in this turn
    interceptor,    \* the state of the ThoughtChunkInterceptor
    thought,        \* what the program was given as PRINT_THOUGHT_CHUNK,
    said,           \* and as PRINT_CHAT_CHUNK, in this turn
    text,           \* what the model has said in this turn
    passed,         \* what of it BaseStreamer has passed on
    plain,          \* the turn is one generation and nothing else
    spaced,         \* while a tag was looked for, a chunk has ended in a space
                    \* behind other text: trim has taken the space away
    spent           \* of MaxText

vars == <<pc, token_cache, print_len, is_first, interceptor, thought, said,
          text, passed, plain, spaced, spent>>

-----------------------------------------------------------------------------
(* BaseStreamer: whole characters. *)

Whole(s) == \A i \in DOMAIN s :
                /\ s[i] = Lead  => i < Len(s) /\ s[i + 1] = Trail
                /\ s[i] = Trail => i > 1 /\ s[i - 1] = Lead

\* get_end_of_valid_utf8
EndOfAny(s, offset) == Len(s)  \* mutant

EndOfValid(s, offset) ==
    Max({n \in offset .. Len(s) : Whole(SubSeq(s, offset + 1, n))})

EndsLine(s) == s[Len(s)] = "\n"

-----------------------------------------------------------------------------
(* ThoughtChunkInterceptor. *)

\* reset()
Fresh == [detecting |-> TRUE, is_thinking |-> FALSE, tag |-> 0,
          raw_acc |-> <<>>, cleaned_acc |-> <<>>, chunk_lengths |-> <<>>]

\* What a chunk makes of the interceptor, and what it lets through.
Passes(i, as_thought, as_said) == [state |-> i, thought |-> as_thought, said |-> as_said]
Keeps(i) == Passes(i, <<>>, <<>>)

Trimmed(s) ==
    LET Ink == {i \in DOMAIN s : s[i] # " "}
    IN  IF Ink = {} THEN <<>>
        ELSE SubSeq(s, Min(Ink), Max(Ink))

\* Without the spaces it begins with.
Begun(s) ==
    LET Ink == {i \in DOMAIN s : s[i] # " "}
    IN  IF Ink = {} THEN <<>>
        ELSE SubSeq(s, Min(Ink), Len(s))

Occurrences(tag, s) == {p \in DOMAIN s : IsPrefix(tag, SubSeq(s, p, Len(s)))}

Total(lengths) ==
    LET Sum[n \in 0 .. Len(lengths)] == IF n = 0 THEN 0 ELSE Sum[n - 1] + lengths[n]
    IN  Sum[Len(lengths)]

\* How many of the oldest chunks can hold no part of a closing tag that is not
\* complete: the ones after them are long enough for it.
ReleasableToTheLast(lengths, size) == Len(lengths)  \* mutant

Releasable(lengths, size) ==
    LET Enough == {i \in 1 .. Len(lengths) : Total(SubSeq(lengths, i, Len(lengths))) >= size}
    IN  IF Enough = {} THEN 0 ELSE Max(Enough) - 1

ThoughtChunk(i, chunk) ==
    LET raw     == i.raw_acc \o chunk
        lengths == Append(i.chunk_lengths, Len(chunk))
        closing == Tags[i.tag].closing
        Closed  == Occurrences(closing, raw)
        pos     == Min(Closed)
        n       == Releasable(lengths, Len(closing))
        size    == Total(SubSeq(lengths, 1, n))
    IN  IF Closed # {}
        THEN Passes([i EXCEPT !.is_thinking = FALSE, !.raw_acc = raw, !.chunk_lengths = lengths],
                    SubSeq(raw, 1, pos - 1), SubSeq(raw, pos + Len(closing), Len(raw)))
        ELSE Passes([i EXCEPT !.raw_acc = SubSeq(raw, size + 1, Len(raw)),
                              !.chunk_lengths = SubSeq(lengths, n + 1, Len(lengths))],
                    SubSeq(raw, 1, size), <<>>)

\* The tag that has been found (0: none) in cleaned text, and whether one more
\* byte could still make one: the tags are tried by length.
TagFound(cleaned) ==
    LET Found == {t \in DOMAIN Tags : IsPrefix(Tags[t].opening, cleaned)}
    IN  IF Found = {} THEN 0 ELSE Min(Found)

Undecided(cleaned) == \E t \in DOMAIN Tags : Len(cleaned) < Len(Tags[t].opening)

Detect(i, chunk) ==
    LET raw     == i.raw_acc \o chunk
        cleaned == Trimmed(i.cleaned_acc \o chunk)
        tag     == TagFound(cleaned)
        heard   == [i EXCEPT !.raw_acc = raw, !.cleaned_acc = cleaned]
    IN  IF tag # 0
        THEN ThoughtChunk([heard EXCEPT !.detecting = FALSE, !.is_thinking = TRUE,
                                        !.tag = tag, !.raw_acc = <<>>],
                          SubSeq(cleaned, Len(Tags[tag].opening) + 1, Len(cleaned)))
        ELSE IF Undecided(cleaned) THEN Keeps(heard)
        ELSE Passes([heard EXCEPT !.detecting = FALSE], <<>>, raw)

StateForAny(first) == interceptor  \* mutant: nothing is reset

StateFor(first) == IF first THEN Fresh ELSE interceptor

\* put_chunk
PutChunk(first, chunk) ==
    LET i == StateFor(first)
    IN  IF Tags = <<>> THEN Passes(interceptor, <<>>, chunk)
        ELSE IF i.is_thinking THEN ThoughtChunk(i, chunk)
        ELSE IF i.detecting THEN Detect(i, chunk)
        ELSE Passes(i, <<>>, chunk)

\* A space that was part of the text is trimmed off its end.
LosesSpace(first, chunk) ==
    LET i == StateFor(first)
    IN  /\ Tags # <<>> /\ i.detecting
        /\ Last(chunk) = " " /\ Trimmed(i.cleaned_acc \o chunk) # <<>>

Reported(r) ==
    /\ interceptor' = r.state
    /\ thought' = thought \o r.thought
    /\ said' = said \o r.said

-----------------------------------------------------------------------------
Init ==
    /\ pc = "idle" /\ token_cache = <<>> /\ print_len = 0 /\ is_first = TRUE
    /\ interceptor = [Fresh EXCEPT !.detecting = FALSE]
    /\ thought = <<>> /\ said = <<>>
    /\ text = <<>> /\ passed = <<>> /\ plain = TRUE /\ spaced = FALSE
    /\ spent = 0

NewTurn == pc = "idle" /\ spent < MaxText /\ pc' = "streaming" /\ spent' = spent + 1

\* Pipeline::chat, the model is about to speak.
Begin ==
    /\ NewTurn
    /\ thought' = <<>> /\ said' = <<>> /\ text' = <<>> /\ passed' = <<>>
    /\ plain' = TRUE /\ spaced' = FALSE
    /\ UNCHANGED <<token_cache, print_len, is_first, interceptor>>

\* The same after add_ai_prefix (first), or for chatllm_ai_continue (not first):
\* text that is none of the model's is reported before it.
BeginWith(external, first) ==
    /\ NewTurn
    /\ LET r == PutChunk(first, external) IN
       interceptor' = r.state /\ thought' = r.thought /\ said' = r.said
    /\ text' = <<>> /\ passed' = <<>>
    /\ plain' = FALSE /\ spaced' = FALSE
    /\ UNCHANGED <<token_cache, print_len, is_first>>

\* A part of the cached text is passed on, if it is not empty.
PassOn(chunk) ==
    /\ passed' = passed \o chunk
    /\ IF chunk = <<>> THEN UNCHANGED <<interceptor, thought, said, spaced>>
       ELSE /\ Reported(PutChunk(is_first, chunk))
            /\ spaced' = (spaced \/ LosesSpace(is_first, chunk))

PrintLen(s) == IF EndsLine(s) THEN 0 ELSE EndOfValid(s, print_len)

\* BaseStreamer::put.  A newline lets everything out, whatever it is.
Put(token) ==
    /\ pc = "streaming" /\ spent + Len(token) <= MaxText
    /\ spent' = spent + Len(token)
    /\ text' = text \o token
    /\ LET s   == token_cache \o token
           end == IF EndsLine(s) THEN Len(s) ELSE EndOfValid(s, print_len)
       IN  /\ PassOn(SubSeq(s, print_len + 1, end))
           /\ is_first' = (is_first /\ end = print_len)
           /\ token_cache' = IF EndsLine(s) THEN <<>> ELSE s
           /\ print_len' = PrintLen(s)
    /\ UNCHANGED <<pc, plain>>

\* The context has run out and the answer is started again, on the same stream.
Retry ==
    /\ pc = "streaming" /\ plain' = FALSE
    /\ UNCHANGED <<pc, token_cache, print_len, is_first, interceptor, thought, said,
                   text, passed, spaced, spent>>

\* FFIStreamer::end and BaseStreamer::end: a rest of the text is passed on, and the
\* streamer is ready for the next turn; the interceptor is left as it is.
Flush == IF EndOfValid(token_cache, print_len) > print_len
         THEN SubSeq(token_cache, print_len + 1, Len(token_cache)) ELSE <<>>

End ==
    /\ pc = "streaming"
    /\ PassOn(Flush)
    /\ is_first' = TRUE /\ token_cache' = <<>> /\ print_len' = 0
    /\ pc' = "idle"
    /\ UNCHANGED <<text, plain, spent>>

Next ==
    \/ Begin \/ End
    \/ \E token \in Token : Put(token)
    \/ "prefix" \in ClientOps /\ \E e \in Externals : BeginWith(e, TRUE)
    \/ "continue" \in ClientOps /\ \E e \in Externals : BeginWith(e, FALSE)
    \/ "retry" \in ClientOps /\ Retry

Spec == Init /\ [][Next]_vars

-----------------------------------------------------------------------------
(* Properties. *)

Bytes == UNION {{t[i] : i \in DOMAIN t} : t \in Token \cup Externals}

Interceptors ==
    [detecting : BOOLEAN, is_thinking : BOOLEAN, tag : 0 .. Len(Tags),
     raw_acc : Seq(Bytes), cleaned_acc : Seq(Bytes), chunk_lengths : Seq(Nat)]

\* Every variable has its type, and the interceptor knows the length of what it
\* holds back of a thought.
TypeOK ==
    /\ pc \in {"idle", "streaming"} /\ is_first \in BOOLEAN
    /\ plain \in BOOLEAN /\ spaced \in BOOLEAN
    /\ print_len \in 0 .. Len(token_cache) /\ spent \in 0 .. MaxText
    /\ \A s \in {token_cache, thought, said, text, passed} : s \in Seq(Bytes)
    /\ interceptor \in Interceptors
    /\ ~(interceptor.detecting /\ interceptor.is_thinking)
    /\ interceptor.detecting => interceptor.chunk_lengths = <<>>
    /\ interceptor.is_thinking =>
          interceptor.tag # 0 /\ Total(interceptor.chunk_lengths) = Len(interceptor.raw_acc)

\* What text says, once the tags are known: the thought that an opening tag at
\* its head begins, up to the closing tag, and the rest.
Parts(s) ==
    LET inked   == Begun(s)
        tag     == TagFound(inked)
        body    == SubSeq(inked, Len(Tags[tag].opening) + 1, Len(inked))
        Closed  == Occurrences(Tags[tag].closing, body)
        pos     == Min(Closed)
    IN  IF Tags = <<>> \/ tag = 0 THEN [thought |-> <<>>, said |-> s]
        ELSE IF Closed = {} THEN [thought |-> body, said |-> <<>>]
        ELSE [thought |-> SubSeq(body, 1, pos - 1),
              said    |-> SubSeq(body, pos + Len(Tags[tag].closing), Len(body))]

\* `possible leading or trailing tags (such as <think>, </think>) are removed'
\* (libchatllm.h): no thought is reported as an answer, no answer as a thought,
\* no part of a tag as either, not even while the tag is not complete, and
\* nothing else is removed.
OnlyTagsAreRemoved ==
    plain => /\ IsPrefix(thought, Parts(passed).thought)
             /\ IsPrefix(said, Parts(passed).said)

\* So it is however the tokens cut the text, as long as they do not cut it behind
\* a space while a tag is looked for: `<', ` ', `think>' is taken for a tag.
ThoughtsApart == ~spaced => OnlyTagsAreRemoved

\* Text is held back only while it may belong to a tag: before the answer is as
\* long as the longest tag, and in a thought by less than the closing tag and the
\* chunk it may start in.  In the end no thought is open: everything is out.
HeldBackForTagsOnly ==
    plain /\ ~spaced /\ passed # <<>> /\ Tags # <<>> =>
        LET parts   == Parts(passed)
            lengths == interceptor.chunk_lengths
        IN  IF interceptor.detecting
            THEN Len(Begun(passed)) < Len(Tags[Len(Tags)].opening)
            ELSE IF interceptor.is_thinking
            THEN /\ Len(parts.thought) - Len(thought) = Total(lengths)
                 /\ Total(Tail(lengths)) < Len(Tags[interceptor.tag].closing)
            ELSE thought = parts.thought /\ said = parts.said

\* The characters of the text are passed on whole, in order and each once, as
\* soon as they are complete: through newlines, tokens that end inside of a
\* character and the end of the turn.
CharactersAreWhole ==
    (\E tail \in {<<>>, <<Trail>>} : Whole(text \o tail)) =>
        Whole(passed) /\ IsPrefix(passed, text) /\ Len(text) - Len(passed) <= 1
=============================================================================
