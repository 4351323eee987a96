# chatllm.cpp in TLA+

A verification project for chatllm.cpp: TLA+ modules of its core, TLC
configurations that check them on small instances, and theorems that TLAPS
proves for every value of the constants. Paths such as `chat.cpp:736` are under
`src/` of the repository, unless they begin with `bindings/`, `docs/` or
`models/`. `PROJECT.json` maps every definition to the lines it stands for.

    tlc -workers 2 -config Conversation.cfg ConversationMC.tla
    tlapm ModelContext_proofs.tla

## The system

A program that embeds chatllm.cpp creates a *chat object* (C API,
`bindings/libchatllm.h`, implemented in `main.cpp`). It holds a history of
messages, a streamer with the program's callbacks, and a pipeline. A turn is a
call of `chatllm_user_input`: the message is pushed on the history, the
pipeline encodes what the model has not seen yet, the model runs the tokens
through its KV cache and samples new ones, the streamer decodes these and calls
back; at the end the answer is pushed on the history, too. Three counters say
how far the conversation has come, kept by three classes: the history's cursor
(`Messages`), the model's `n_past` (`BaseModel`), and the token position of
each answer (`Message::tok_pos`). Most of what can go wrong is that they
disagree.

| Component | State | Operations | Interacts with | Hard behaviour | Correct when |
|---|---|---|---|---|---|
| Model and KV cache (`models.cpp`, `layers.h`) | `n_past`, `n_past_offset`, cache rows, pending shift, `aborted` | generate, rewind, shift, save and load, abort | called by the pipeline; abort from another thread | abort between runs, out of memory, the first run of a process, positions after a shift | rows `[0, n_past)` are the conversation, no row outside of the cache is touched, every call returns |
| Chat history (`Messages`, `chat.h`, `chat.cpp`) | messages, cursor, round | push (Auto roles, merging), clear, shrink, move cursor | pushed by the C API, read by the encoder | long sequences of calls | roles alternate, rounds count turns, cursor in range |
| Pipeline (`chat.cpp`) | `initializing`, extending method | chat, continue, restart, rewind, sessions, system prompt | history, tokenizer, model, streamer | context running out in an answer, restored histories | the context is what the history says, once and in order |
| Session file (`chat.cpp`, `models.cpp`) | a file | save, load | written by one process, read by another | files cut short, field sizes | what loads is what was saved |
| Streamer chain (`chat.cpp`, `main.cpp`) | token cache, printed length, tag detection | put, put_chunk, end | called by generate, calls the program | tokens cut characters and tags anywhere | thoughts and answer are told apart, each byte once |
| C API and its threads (`main.cpp`) | `tool_input`, `is_prompt`, `is_async_busy` | user, tool and AI input, async calls, abort, destroy | everything above | callbacks and calls from several threads | one generation at a time, no input lost |
| Retrieval pipeline and vector store (`chat.cpp`, `vectorstore.cpp`) | stores, last retrieval | before_chat, query, load, export | rewrites the last message, runs the model for the query | partial loads, ranking order | the best matches are composed, in order |
| Beam search (`chat.cpp`) | beams, copied sessions | generate with k traces | saves and restores the model's session | copies in the wrong order | every trace's context is its own |
| Samplers and penalties (`models.cpp`) | ring of recent tokens, counters | sample, accept | generate | ring and counters apart | a counter is what the ring holds |
| Sliding-window cache (`layers.h`) | strip of slots, `cache_offset` | save, read, move the strip | run by the model; told nothing when `n_past` is set back | slots and positions drift apart | a token attends to its window |
| Byte pair tokenizers (`tokenizer.cpp`) | chain of symbols, queue of bigrams | queue, skip, merge | the encoders | queued pairs go stale | the merges are the greedy ones |
| Other tokenizers, chat encoders, loader, backend, layers, vision, audio, CLI, model files, ggml, bindings | | | | | sequential text and number processing, or vendored; see *Not modelled* |

## Modules

| Module | Models | Extends, uses |
|---|---|---|
| `TokenContext` | abstract: a bounded sequence of tokens that can be cut at either end, appended to, saved and loaded | |
| `ModelContext` | `generate`, batches, `run_model` and the cache rows, aborts, memory shortage, shift, rewind, sessions | implements `TokenContext` |
| `Messages` | class `Messages` | |
| `Conversation` | the C API, `Pipeline` with its three extending methods, and the encoding of the history, over a context of items | extends `Messages`, implements `TokenContext` |
| `SessionFile` | a session file byte by byte: written, cut, and read again | extends `Messages` |
| `Streamer` | `BaseStreamer`, `ThoughtChunkInterceptor`, `FFIStreamer` | |
| `ChatApi` | chat objects, the program's thread, detached threads, aborts, destroys, completion events | |
| `BeamSearch` | `BeamSearchPipeline` | |
| `SlidingCache` | the strip of a sliding-window attention layer | |
| `LogitsPenalty` | the ring and the counters of the penalty | |
| `Decode` | a loop of `generate` that drives both | extends `SlidingCache`, `LogitsPenalty` |
| `MergeTable` | the vocabulary as a table of pairs | |
| `GreedyMerge` | abstract: the best pair is merged, leftmost first, until there is none | extends `MergeTable` |
| `BpeTokenizer` | `llama_sp_tokenizer`, `llm_bpe_tokenizer` | extends `MergeTable`, implements `GreedyMerge` |
| `ModelContext_proofs`, `Conversation_proofs`, `SessionFile_proofs`, `Streamer_proofs`, `ChatApi_proofs`, `BeamSearch_proofs`, `Decode_proofs`, `BpeTokenizer_proofs` | theorems | the module they are named after; those about `Messages` are in `Conversation_proofs` |
| `ModelContextMC`, `MessagesMC`, `ConversationMC`, `SessionFileMC`, `StreamerMC`, `ChatApiMC`, `BeamSearchMC`, `DecodeMC`, `BpeTokenizerMC` | constants for TLC | |

`TokenContext` is the contract between the layers: `ModelContext` shows that
counters and cache rows implement it, `Conversation` (property
`UsesTokenContext`) that the pipeline asks for nothing but its operations, and
on that ground models the model's state as one sequence, `context`. A load that
fails on the way (`LoadFails`) is asked for by `Conversation` only: the sessions of
`ModelContext` are whole. `ChatApi`
in turn takes a turn of `Conversation` for a few steps of one thread.

### ModelContext

One action is one step of the thread that generates between two points where
another thread's `abort_generation` can matter: `Generate` (`models.cpp:956-1003`,
entry of the function, where `aborted` is cleared), `EnterLoop`/`LeaveLoop`
(the loop's guard at 1010 and what follows the loop), `RunBatch` and `RunLast`
(one `run_model` each, the loop over batches of `generate_next_token`,
1123-1137), `Sample` and `SampleNothing` (1044-1078). A row of the cache is the
token it was computed from; `Written` puts a run's tokens at the position the
code passes, `Shifted` moves rows the way `before_forward` does, so that a
wrong position shows as a wrong row. `RunOutside` is the assertion of ggml on a
view that leaves the tensor and ends the process. `RunNoMemory` and
`ReserveNoMemory` are the two places a run fails for want of memory, with the
values `n_past` is left with. `Exec` starts a new process with the old session
file. The samplers are "any token"; `is_output_terminated` is "the token is
EOS" (some models override it with more).

### Messages

`PushBack` is the whole of `Messages::push_back`: resolving `Auto`, merging
with the last message (349-358), counting the round (360-367). `Pushed`,
`RoundAfter`, `WithTokPos` and the others are operators so that `Conversation`
can make several pushes in a step. Content is a sequence of pieces, model
values; `push_back` of multimedia content is a push of several pieces.

### Conversation

`pc` follows one call of the C API at a time: `UserInput` (push), `Chat` (up to
`generate`, with `initializing`, `encode_history`, the cursor, the prefix of the
answer), then what `generate` does to the context, then `Retry` (the second try of
`chat_with_restart` and of `chat_with_ext_completion`) or `ShiftMemory` (the shift
of `chat_with_shift`, whose next call of `generate` is given the last token of the
output, or nothing when there is none), and `Answer` (the rest of
`chatllm_generate`: push, token position, save at a round, tool input, `goto
generate`). `ToolInput` is the callback of a tool while an answer is streamed.

A call of `generate` ends in one of five ways. The token sampled last is run at the
beginning of the loop's next round (`Run`: the tokens of an output that have been
run), so the model has it only if a stop token comes behind it: `Complete`. An
abort, the limit on new tokens or a lack of memory (`CutShort`) and the end of the
context (`RunOut`) leave it in the output, and so in the history, but not in the
context. `NoRoom` is an input that does not fit. `NothingRun` is an abort or a lack
of memory before the input has been run: the cursor has moved behind it
(`chat.cpp:770`), so it is not given again, and neither is an input that did not
fit and is not retried. The history variable `parted` tells that this has happened;
it goes back when the context begins anew. An answer may be of several tokens
(`program.answers`), and `chat_with_shift` joins what its generations return
(`Said`).

`ai_prefix` is set by `chatllm_set_ai_prefix` and goes into the context in front of
each answer (`Spelt`), never into the history. `LoadSession` is a load that
succeeds. In `LoadSessionFails` the file ends where `read` says: before the header
is recognized (the history is cleared, the context stays), behind the counters, or
within the layers (`Remains`: positions by the file's counters, rows that were
overwritten in part, `spoilt` where they are those of no text). A file that is too
short for a header is refused before anything is changed (`chat.cpp:2107`), a
stutter.

`Restart`, `HistoryAppend`, `HistorySetCursor`, `SetCursor`,
`SavePrompt` and the steps behind it, `LoadSession`, `LoadSessionFails`,
`AiContinue` are the other calls. A *program* is a record of what it calls, its
extending method and its limits; the constant `Programs` holds those a run is
about, and `Init` picks one. An item of the context takes one position: the
system prompt, a piece of a message, the opening of an answer, a token of an answer.
`HistorySetCursorAstray` is the search at `main.cpp:2120` that runs out of the
vector: `pc` becomes `undefined` and nothing follows. `ToolInputIsUsed` excludes
text that is brought while an answer is continued: `chatllm_ai_continue`
(`main.cpp:1903-1922`) does not look at `tool_input`, so that it waits for the
end of the next turn. It excludes the programs that bring text when no turn is on
(`LateToolInput`), which waits likewise.

### SessionFile

A file is a sequence of bytes. `SavedSession` is what `save_session` writes, field
by field, each as wide as the code writes it; `LoadMessage` and `ReadPiece` are
`Message::load`, which reads with the widths it has, each from the place where the
read before it ended. A crash or a full disk leaves any prefix. A load that fails
on the way has overwritten the cache as far as the file goes. `SessionAssumption`
says that bytes are numbers, that all caches of a model have one length, that a
file has at most `Huge` bytes, and that the first message has a piece; a count or
length with a byte above its second is `Huge`, more than any file holds. The loops
over messages and pieces are recursive functions of their number.

### Streamer

Text is a sequence of bytes; two bytes, `Lead` and `Trail`, make a long
character. `Put` is `BaseStreamer::put` with all it calls down to the callback,
`End` is `FFIStreamer::end` with `BaseStreamer::end`, which leaves the
interceptor as it is. Its state is one record with the code's field names.
`text` and `passed` are history variables that the properties compare with.
`TagsAssumption` says what a model brings: tags that are not empty, sorted by the
length of the opening one, as the code does it. Of the vocabulary nothing is
assumed: a token may be a lone space or end in one. `trim` after every chunk then
loses a space from the middle of what has been heard, and the interceptor takes
`<`, space, `think>` for a tag; the history variable `spaced` tells that it has
lost one in this turn (`LosesSpace`: the chunk ends in a space, and there is other
text before it), and the properties about tags leave out the rest of that turn.
Spaces in front of a tag are trimmed without harm (`Begun`). `OnlyTagsAreRemoved`
is the same without that exclusion; `StreamerLoneSpace.cfg` violates it.

### ChatApi

`thread` has a record for the program's thread and for each detached one: where
it is, for which object, with which result. `Call` is a blocking
`chatllm_start` or `chatllm_user_input`, `Async` is `ASYNC_FUN_BODY`
(`main.cpp:1783-1800`); `UserInput`, `Generate`, `Run`, `Put`, `Leave`, `End`,
`Answer` are one turn, cut where another thread can come between;
`StoreResult`, `ClearBusy`, `PutEvent`, `Finish` are the detached thread behind
its call. `next` is where the one static `thought_interceptor` hands text to:
`Start` points it at the object started last, and `End` closes that one's
stream, too. `PutEvent` goes through the streamer that was read before the call
(there is none at the first call, and none that lives after a destroy): the
outcome is then `undefined`. The program is taken to be careful in one thing:
it makes no call to an object of its own while one blocks, and asks
`chatllm_get_async_result_int` before it makes a blocking one. Its calls come from
one thread. That is why `Async` may check and set `is_async_busy`
(`main.cpp:1785-1786`) and `Destroy` check it and erase the object
(`main.cpp:1579-1585`) in one step: between the two nobody else sets the flag, and
a detached thread can only clear it. A program that starts or destroys from its
callbacks, on the detached threads, is not modelled: for it the plain flag is no
lock.

### BeamSearch

One action is one part of a round (`chat.cpp:2623-2886`): the live beams are
run from their copied sessions (`RunBeams`), candidates selected (`Select`), and
shared out in three passes (`Extend`, `Share`, `Displace`). Scores are any
order, so a selection is any N different candidates, and pass 3 may displace
any of the ended beams. `candidates` is a set of positions in the list of selections
and is read in the order of its numbers (`Rank`), as the code reads the list it
keeps of them. `session` is the sequence of tokens the copied model
state was computed from. `mixed` marks the beam that pass 3 gives the session of
a beam pass 2 had overwritten, which the code does and `SessionIsTrace` leaves
out.

### SlidingCache, LogitsPenalty, Decode

`SlidingCache` keeps the strip, `cache_offset` and, as history, the tokens the
attention of the last one read (`seen`). `Feed` is a run of one token: moving
the strip when it is full, writing, reading (`layers.h:2058-2150`); a read that
begins before the strip is the `CHATLLM_CHECK` that throws (`failed`).
`Reserve` is the measurement before the first run, which touches
`cache_offset`. `LogitsPenalty` is `process` and `accept_choice` with the ring.
`Decode` composes them as `generate` does, with rewinds in between.

### BpeTokenizer

`MergeTop` and `Skip` are one iteration of the loop over `work_queue`
(`tokenizer.cpp:86-118`,
`541-567`). A symbol is named
by the index of its first character, so `n` and the links are those of the code.
The constants `Words` and `Tables` are any words and vocabularies; `GreedyMerge`
is what is meant by byte pair encoding, without a queue.

## Runs

| Run | Configuration | What it asks, and the result | States |
|---|---|---|---|
| `model_context` | `ModelContext.cfg` | cache = conversation (refinement), types, in bounds, new tokens bounded, output = tail of the context, aborts stop, `generate` returns; with aborts, rewinds, sessions in one process, failed runs | 859 thousand |
| `model_faults` | `ModelContextFaults.cfg` | aborts stop, with shifts, restarts of the process and both shortages | 792 thousand |
| `messages` | `Messages.cfg` | well-formed histories under every operation | 127 thousand |
| `conversation` | `Conversation.cfg` | eleven programs: context and input = history as the model knows it, recorded positions exact, tool input used, each shift makes room, only the context's operations used, turns end | 490 thousand |
| `session_file` | `SessionFile.cfg` | a load that succeeds is sound, whatever was on the disk | 17 thousand |
| `streamer` | `Streamer.cfg` | characters whole, thoughts apart, little held back | 2.4 million |
| `chat_api` | `ChatApi.cfg` | one thread in an object, none in a destroyed one, accepted input is run, the event tells the truth, aborts end answers | 633 thousand |
| `beam_search` | `BeamSearch.cfg` | sessions are traces, traces differ, no selection lost or missing, the search ends | 140 thousand |
| `decode` | `Decode.cfg` | attention reads the window, only a rewind can fail, counters count the window | 97 thousand |
| `bpe_tokenizer` | `BpeTokenizer.cfg` | the chain spells the word, nothing mergeable is left, merges are the greedy ones (refinement), the queue empties | 92 thousand |
| `session_with_messages` | `SessionFileLoads.cfg` | **violated**: finding 1 | |
| `own_text` | `ChatApiOwnText.cfg` | **violated**: finding 2 | |

Type invariants are part of a run in `ModelContext` only; those of
`ModelContext`, `Messages`, `Conversation`, `Streamer`, `ChatApi`, `BeamSearch`
and `BpeTokenizer` are proved, the others say what the variables are (add
`TypeOK` to a configuration to check them).

### Bounds, and why they are enough

- `ModelContext`: a cache of 5 rows, batches of 2, prompts of 1 and 3 tokens,
  limits of 2 new tokens or none. With shifts, restarts of the process and both
  shortages: a cache of 3 rows, batches of 1, prompts up to 2. A prompt is
  shorter than, and longer than, a batch; the cache is filled by a prompt, by
  an answer, and exactly; a rewind can go to any row. `MaxOffset` bounds
  `n_past_offset`, which only shifts raise. All its safety properties are proved
  without these bounds.
- `Messages`: 4 messages of at most 2 pieces, rounds up to 3. Roles alternate
  between neighbours, so two turns show every transition.
- `Conversation`: *Plain* has turns, tools, restored histories, going back and
  sessions in a context of 9 items and 4 messages, where it runs out before an
  input and after a part of an answer; its `max_context` is so large that a
  window is the whole history. *Correcting* continues and goes back in a context
  that does not run out. *Talkative* uses the restart method with 7 messages and
  a window of about a turn, so that the second try may end or run out again.
  *Hasty* sets prefixes, has answers of two tokens cut short after any of them or
  before the first, lets tools speak, and goes back to answers; *Curt* does the
  first two with the restart method. *Busy* makes all other calls at any time (6
  items, 2 messages); in *Helped* tools speak up at any answer, a continued one
  included, and nothing else does. *Unlucky* loads files that are damaged at each
  of the places, over the same context, another one, and one under another system
  prompt. *Shifting* keeps 2, 4 or 5 of 6 items at a shift: room for an exchange,
  for one more item than the one that is fed again, and for none, which
  `ShiftMakesRoom` excludes and `ConversationFullWindow.cfg` is about. `MaxPieces` bounds merging,
  and the tokens of an answer.
- `SessionFile`: histories of 0, 1 and 2 messages, texts of 0 to 2 bytes and an
  image, token positions that differ, two caches to tell apart; every prefix of a
  file. `LoadIsSound` is proved without these bounds.
- `Streamer`: tags of 2 and 3 bytes that begin alike, tokens that hold an end of
  one part and the beginning of the next, a token that is a space; 7 bytes over all turns (a turn costs
  one), so a whole thought with an answer in one turn, or shorter turns in
  sequence.
- `ChatApi`: two objects, the program's thread and two detached ones: two calls
  of one object can overlap at their ends, and two objects share the
  interceptor. There is no counter to bound. Its invariants are proved for any
  numbers.
- `BeamSearch`: three beams over three tokens, answers of at most 3: two live
  beams and an ended one, two ended ones, selections that are all of one beam.
- `Decode`: a window of 3 in a strip of 5, up to 9 positions: the strip is moved
  three times; a penalty window of 2 wraps several times.
- `BpeTokenizer`: words up to 5 of two characters, tables of up to 3 of 9 pairs
  with two scores: equal scores, a pair that goes stale on either side, and a
  merge of two merged symbols.

`CHECK_DEADLOCK FALSE` stands where the bounds, the end of a search or of a
word, or undefined behaviour really leave nothing to do.

### Fairness

`ModelContext` assumes weak fairness of `Step`, the steps of a thread inside of
`generate`: no step waits for anybody, so a thread that is scheduled takes them.
Nothing is assumed of callers, of aborts or of the sampler. `Conversation`
assumes it of `Turn` for the same reason: `chatllm_user_input` is one
synchronous call. `TurnEnds` holds though a tool may answer every answer: each
one takes positions of the context, which runs out, and the retry happens once
only. Programs of `SpeaksOn` are left out of it: with the shift method a model
may speak for ever, and with the restart method so may a model and its tools
together, since the context is emptied whenever it has run out. `ChatApi` assumes weak fairness of each thread's `Step`, the scheduler's:
there is no lock a thread could wait at. `BeamSearch` and `BpeTokenizer` are
sequential loops and assume it of `Next`.

## Proofs

`ModelContext_proofs` (for every vocabulary, `MaxLength`, `Batch`, prompts,
limits):

- `TypeCorrect`: `Spec => []TypeOK`, by `TypeInv`.
- `AbortIsNotOverlooked`: the action property `AbortStops`, with all faults,
  shifts and restarts. It rests on `TypeInv` alone: an aborted `RunLength` is
  all that remains, so that no further batch can follow.
- `StaysInCache`: no run leaves the cache, if the program never calls for a
  shift. Alone it is not inductive: `BoundInv` adds that the offset is 0, that
  `past` is `n_past + fed` while a prompt is fed, and that the rest of the
  prompt fits behind it, which the guard of the loop establishes. It holds with
  restarts of the process and with all memory shortages.
- `NewTokensAreBounded`: without a restart in the middle of a call;
  `CountInv` relates the output, `n_past` and `gen_max_tokens` at each place of
  the loop, `FreshInv` tells the first run.
- `Refines`: `Spec` implements `TokenContext` with `View` for its context, if
  there is neither shift nor restart nor a failed reservation (the
  disagreements below and `models.cpp:1253` are why). The invariant `RefInv`
  says that the rows below `n_past` are tokens (`RowsInv`) and that the rows
  between `n_past` and `past` are the part of the prompt that has been run
  (`BatchInv`): a batch that is not counted yet is a stutter, the last one
  appends them all.
- `OutputIsInContext`: what `generate` returns is the end of the context, under
  the same conditions. `TailInv` says which tokens of the output are rows
  already (`Held`) and that the one that is not is the one that waits to be run.

`Conversation_proofs` begins with `Messages`, for histories of every length: `NeighboursDiffer`,
`CursorStays` and `RoundsFollow` state the three invariants of the run; they
share one inductive invariant `Inv` with the types, since the rounds need the
roles, and the roles the length. `RoundsBeginAtZero` adds `StartInv`: an empty
history has counted no round, and no cut takes the first message away alone.

The rest of `Conversation_proofs` is about every program, context and history.
`ConversationInv` has a part for each thing that a step must know of an earlier
one: `ToolTextWaits` (where text of a tool may be waiting), `AnswerGoesOn` (what is
continued is an answer), `PromptAlone`, `SessionsFit`, `CursorThere`. From it
follow `TypesHold`, `ToolTextIsUsed`, `ShiftsMakeRoom` (for windows of less than
`max_length - 1`: the token that is fed again takes a place, too), and
`UsesContext`: every step of the pipeline, with all its calls, is a step of
`TokenContext` or leaves the context alone; a load that fails is its `LoadFails`.
`ModelContext` and `Conversation` are so shown to meet at that contract, but for
loads that fail, which `ModelContext` has not. The lengths and types
of what is encoded rest on lemmas about `FlattenSeq`, which the library defines
by recursive functions: they are proved by the least counterexample, since the
induction theorems cannot be instantiated.

`ContextFollowsHistory`, `PromptFollowsHistory` and `PositionsMarkAnswers` state
that history and context agree: between turns, when the model is asked, and at
the positions kept with the answers. The context is compared with a *telling* of
the history (`Tellings`): an answer of the model may be known to it behind a
prefix, and without the token sampled last; for a program that sets no prefix and
cuts no answer short, the only telling is the history itself. An input that was
never run is excluded (`parted`). None of the three is inductive: `HistoryInv` follows the
conversation through a call. `Orderly` says what a history and the flags are like
at each `pc`: roles and rounds (`Shape`), who has spoken last (`Turns`), how long
a history can be that is encoded as a whole or continued (`Small`), and when the
encoders leave the system prompt out and answers have a prefix (`Skips`).
`Followed` says what the context is, for one start and one telling `k`: `Rests`
between turns, `Asks` with the input that is to be run, `Spoke` with the answer
that has not been pushed yet; each with `Marked`, that a kept position is the
length of what had been told up to that message. There is one lemma for
each action (`ChatFollowed` to `SessionFollowed`). The theorems hold for the
programs of `LeavesHistory`, which leave the token cursor alone, load whole
files, restore what a chat can have been, do not go back with a method that
forgets, and continue answers in a history that is short enough and that the model
knows as it is (no prefix, no answer cut short); and under
`KeepsSkipping`: what the encoders begin anew, after a session of the system
prompt, lacks that prompt, as `ConversationNewPrompt.cfg` shows. All programs of
`Conversation.cfg` that `LeavesHistory` is about satisfy `KeepsSkipping`. `MaxPieces` is at least 1: a message
has a piece.

`SessionFile_proofs`, for every history of texts and media, every cache, and every
prefix that reached the disk. The inductive `SessionInv` says that the cache has
the model's length, that the file is a prefix of what was saved, and that a load
that succeeded has left no message and the cache that was saved. `LoadsAreSound` states `LoadIsSound`;
`SessionsWithMessagesAreLost` is the general form of finding 1: the reader takes
the role for the lower half of the number of pieces and the lower half of that
number, which is at least 1, for its upper half, so that it asks for more pieces
than a file has bytes, comes to the end of the file, and finds no model there. That
reading so many pieces uses the file up rests on a count of the places read from
(`LoadPiecesSays`). `PromptSessionsAreLoaded` is the other side: a session of the
system prompt that is whole loads in every process, and gives its cache back.

`Streamer_proofs`, for every vocabulary, every set of tags and texts of every
length. `CharactersStayWhole` rests on `RestIsNext` (what is held is the text
that follows what has been passed on) and `RestIsHeld` (no beginning of it is
whole characters), which also show that `end` has nothing to pass on
(`NothingIsFlushed`). `ThoughtsStayApart` and `OnlyTagsAreHeldBack` hold until
`trim` has lost a space (`spaced`); that can only be while a tag is looked for, in
a text that has begun and whose chunk ends in a space. They follow from
`PlainIsHeard`, which says for each place of the interceptor what it has made of
the text it has heard: before a tag is found (`Seeks`), inside of a thought
(`Thinks`: the thought with what is held is the text behind the tag, the closing
tag is not in it, and what is held is not longer than needed to find one), and
behind it (`Answers`). The step that matters is that text which has been released
cannot be a part of a closing tag (`OccursInRest`, `FirstInRest`), and that the
opening found stays the same when more text comes (`TagStays`, which needs the
order of the tags). `TypesHold` includes the lengths in `chunk_lengths`, whose
sum is that of what is held.

`BeamSearch_proofs`, for any number of beams, any finite vocabulary and answers
of every length. The invariant `Inv` follows the three passes of a round:
`Selections` (they are different continuations, and the session of a source is
intact as long as nobody has `taken` its place), `Sharing` and `Displacing` (which
selections have been used, and that as many are left as beams to fill),
`Sessions` and `Level`. `SessionsFollowTraces`, `AnswersAreDistinct`,
`SelectionsSuffice` and the action property `SelectionsSurvive` follow.
`AnswersFit` (no answer is longer than `MaxLength`) adds `LengthInv`: what is live,
or is selected for going on, is shorter.

`Decode_proofs`, for every vocabulary, window, strip, penalty window and set of
inputs. `WindowAlwaysHolds` and `OnlyRewindsFailHolds` share `CacheInv`: each
position whose slot is still in the strip is in the slot `cache_offset` says, and
without a rewind at least a window of them is. `CountsAreRight`: the ring holds
the last choices in the order of `hist_write`, and the counters count it, which
needs the sum over a window that loses one element and gains one.

`ChatApi_proofs`, for any number of objects and threads. One invariant `Inv`
carries four theorems. Its heart is `LockInv`, that `is_async_busy` of an object
and the places of the threads say the same: whoever is between the start of an
asynchronous call and `ClearBusy` has the flag set and is alone; with it,
`AliveInv` (destroy looks at the flag) and `PromptInv` (outside of an answer the
stream is at its prompt, also when another object's `End` has closed it).
`ToldIsReady` adds `LatestInv` about the thread of the last call, from its
`StoreResult` to its event.

`BpeTokenizer_proofs`, for every word and table. `ChainInv` is the chain in both
directions; `QueueInv` says that a queued pair whose symbols both live and whose
left one has kept its size is a pair of neighbours; `CompleteInv` that each
mergeable pair of neighbours is queued. `ImplementsGreedy` follows: the top is
either stale, a stutter of `GreedyMerge`, or, because all mergeable pairs are in
the queue, the best of them, and among equals the leftmost. `QueueHasTop` shows
that a queue that is not empty has such a top.

*What is left to do.* The prover has no liveness, but what the liveness properties
rest on is proved: a number, `Fuel`, that each step of the loop makes smaller and
nothing else makes larger, so that it ends if its thread goes on.

- `ModelContext_proofs!FuelIsUsed` (for `GenerateReturns`): the rows that are
  still free, each worth the steps between two runs that are counted, and the rows
  the first run of a process may give back.
- `Conversation_proofs!FuelIsUsed` (for `TurnEnds`): the positions of the context,
  whether a tool's text waits or may still come, and the place of the turn; aborts
  and the texts of tools add nothing.
- `BeamSearch_proofs!FuelIsUsed` (for `SearchEnds`): the rounds that are left, and
  the phase; at most `6 * MaxLength + 5` steps.
- `BpeTokenizer_proofs!FuelIsUsed` (for `QueueEmpties`): twice the living symbols,
  and the queue; at most three rounds for each character.
- `ChatApi_proofs!AbortsAreObeyed` (for `AbortEnds`): an abort inside of the loop is
  not taken back by any other thread, by `LockInv`, and the thread is at its end in
  two steps.

The constants' assumptions are the `ASSUME`s of the modules, which TLC
evaluates in every run; what a theorem excludes besides is in its statement.

Only model-checked: liveness under fairness (`GenerateReturns`, `TurnEnds`,
`AbortEnds`, `SearchEnds`, `QueueEmpties`), which is out of the prover's reach, as is
whatever rests on `ENABLED`: that a step is possible as long as the work is not
done. All other properties of the passing runs are theorems.

## Findings

These have a run each, and their quotation in `PROJECT.json`.

1. `Message::save` writes `round` with eight bytes and `Message::load` reads
   four: no session with messages can be loaded (`chat.cpp:260`; for all data by
   `SessionsWithMessagesAreLost`).
2. All chat objects of a process share one `thought_interceptor`, which belongs
   to the one started last: the others' tokens go to its callbacks and its
   `user_data` (`main.cpp:1678`).
These disagreements between a text and the code have a property and a
configuration, which TLC violates:

- `chat_with_shift` tries for ever when `max_context_length` is `max_length - 1`
  or more: a shift then leaves no room for the last token of the output, which is
  fed again (`chat.cpp:1858-1869`, `models.cpp:945`; `ConversationFullWindow.cfg`,
  `ShiftGoesOn`). The default of `max_context_length` is 512, so that `-l 512
  --extending shift` is enough. The repository's README calls the content length
  `virtually unlimited'.
- `skip_sys_prompt` is never reset: after a session of the system prompt and
  `chatllm_restart` with another prompt the model is given none (`chat.cpp:1885`;
  `ConversationNewPrompt.cfg`, `NewPromptIsGiven`), where `libchatllm.h` says
  `update to a new system prompt'. It shows without `chatllm_restart`, too: the
  second try of the restart method leaves out the prompt that an earlier session
  of it had covered.
- `chatllm_ai_continue` encodes a window when the history is longer than half of
  the context, and rewinds to the length of that: the model goes back into an
  earlier message (`chat.cpp:1952`; `ConversationLongAnswer.cfg`,
  `ContinuesConversation`). It ignores `initializing`, the prefix of the answer and
  a token that was not run likewise.
- The interceptor takes `<`, space, `think>`, when the space ends a token, for a
  tag (`chat.cpp:523`; `StreamerLoneSpace.cfg`, `OnlyTagsAreRemoved`).
- A shift moves rows, `generate_next_token` goes on counting positions from the
  start of the conversation: rows behind the cache's end are addressed
  (`models.cpp:1129`; `ModelContextShiftBounds.cfg`, `CacheInBounds`).
- The first run of a process clears `n_past`, also behind a `load_session`
  (`models.cpp:1257`; `ModelContextReload.cfg`, `RunKeepsContext`).
- A beam ends by the length of its answer, to which the prompt is not added
  (`BeamSearchTotal.cfg`, `PromptAndOutputFit`).

The modules also follow the code in these:

- The event of an object's first asynchronous call has no streamer to go to, and
  one of an object destroyed in between none any more (`main.cpp:1791`;
  `EventIsDelivered` of `ChatApi` states it for objects that live on).
- An abort that comes before `generate` begins is cleared by it
  (`models.cpp:972`).
- An abort while a prompt is processed makes the last run take all that
  remains, more than a batch (`models.cpp:1131-1137`).
- A prompt that did not fit is dropped by a shift: the second `generate` has no
  input (`chat.cpp:1862-1865`). An input whose call was aborted, or ran out of
  memory, before its first run is dropped, too: the cursor has moved behind it when
  it was encoded (`chat.cpp:770`).
- The last token of an answer that was aborted or reached a limit is in the history
  and never in the context (`models.cpp:1058-1084`), and the prefix of an answer is
  in the context and never in the history (`chat.cpp:1937`).
- A load that fails has by then cleared the history, taken over the counters and
  overwritten layers (`chat.cpp:1633`, `models.cpp:1494-1503`), and leaves
  `initializing` as it was.
- The first measurement of memory, when it fails, leaves `n_past` behind rows that
  were never written (`models.cpp:1253`; `ReserveNoMemory`): the next call of
  `generate` goes on from there. It stays inside of the cache and returns
  (`StaysInCache`, `FuelIsUsed`), on a context that is not the conversation.
- A message appended with the role of the answer before it is merged into it
  and never encoded (`chat.cpp:349`); `Restorable` excludes it.
- `chatllm_tool_completion` stores into `tool_input` (`main.cpp:1951`), and a
  tool's input that comes when no turn is on waits for the next one
  (`main.cpp:1933`).
- The retry of the restart method gives the context a new beginning, but keeps
  the positions of the answers before it; `chatllm_history_set_cursor` then goes
  back to a place that marks nothing (`main.cpp:2120`). `LeavesHistory` excludes
  programs that do both.
- With the restart method each generation may begin the context anew, so that a
  tool that answers every answer keeps a turn going for ever (`chat.cpp:1798`,
  `main.cpp:1853`; `SpeaksOn` of `Conversation`).
- `save_session` reports success when later writes fail (`chat.cpp:2091`).
- With thought detection, an answer shorter than the longest opening tag is
  still held by the interceptor when it ends and is never reported
  (`chat.cpp:520`); the rest of an unfinished thought likewise. Whether a
  retried answer thinks is decided by the try before it.
- `f_end` is called twice a turn (`main.cpp:1538`, and through the chain at
  `chat.cpp:460-466`).
- A byte that begins no character stalls `get_end_of_valid_utf8`: the text behind
  it is held until the next newline, and dropped if the turn ends before one
  (`chat.cpp:433`). `CharactersAreWhole` is about well-formed text.
- The strip of the sliding cache is told nothing of a rewind: a read that then
  begins before it throws (`layers.h:2150`, `OffsetNotNegative` of
  `Decode`).

## Not modelled

- The share of the repository the modules cover is small because most of it is
  not the program's own logic: the vendored ggml with its back ends, the
  unicode tables, about a hundred model definitions (hyper-parameters, graphs
  and prompt templates), bindings and scripts.
- *Retrieval and vector store*: `before_chat` runs once before a turn, in one
  thread, on a history of its own; what is to check is an order of
  floating-point scores.
- *Unigram and word-piece tokenizers, regular expressions that split text into
  words, prompt formats of single models, vision, audio, layers' arithmetic*:
  sequential functions of data without the kind of behaviour that TLC explores
  better than a test.
- *Loader, back end and allocators*: I/O at start-up or calls into ggml; their
  failures are inputs of `ModelContext`.
- *The command line program* drives the same calls as the C API.
- `models/` overrides `generate` or its parts for some architectures (vision,
  audio, speech); the base class is what is modelled.
- Within the modelled parts: the ring and the multi-head-latent variants of the
  cache (`layers.h`), get-out paths without a loaded model, reversed roles, the
  tool-calling interceptors of single models, embedding, ranking and speech of
  the C API.

## What is left

1. `Retrieval` (`chat.cpp:2177-2379`, `vectorstore.cpp`): what a failed load
   leaves, the last message rewritten, the ranking order.
