---------------------------- MODULE Conversation ----------------------------
(***************************************************************************)
(* A chat object of the C API: the history of messages, the pipeline that  *)
(* turns it into the input of the model, and the context the model keeps.  *)
(* The calls of the C API are modelled as one thread makes them; what the  *)
(* callbacks of a generation call comes from that thread too.              *)
(*                                                                         *)
(* Data: the context is a sequence of items, each a token at one position: *)
(* the system prompt, a piece of a message, the marker that opens an       *)
(* answer, what a generation produces.  That the model keeps such a        *)
(* context is what ModelContext shows.                                     *)
(***************************************************************************)
EXTENDS Messages, SequencesExt

CONSTANTS
    UserTexts, Answers, ToolTexts, Completions,  \* who brings which Piece; a token each
    SysPrompts,     \* the system prompts that may be set
    NoPrompt,       \* nullptr, for a system prompt
    NoFile,         \* no session file has been written
    MaxLength,      \* bound: positions of a context
    Programs        \* the programs that embed a chat object

ASSUME ConversationAssumption ==
    /\ Piece = UserTexts \cup Answers \cup ToolTexts \cup Completions
    /\ MaxLength \in Nat \ {0, 1} /\ NoPrompt \notin SysPrompts
    /\ Programs \subseteq
         [calls : SUBSET STRING,                      \* what it calls, besides turns
          extending : {"none", "restart", "shift"},   \* set_extending_method
          max_length : 2 .. MaxLength,                \* gen_config.max_length
          max_context : Nat,                          \* gen_config.max_context_length
          save_rounds : Int,                          \* args.save_session_rounds
          says : SUBSET UserTexts,                    \* what its user says
          prompts : SUBSET SysPrompts,                \* the system prompts it sets
          answers : 0 .. MaxPieces,                   \* bound: tokens of an answer
          messages : 0 .. MaxMessages]                \* bound: messages of a history

VARIABLES
    program,        \* the one that runs
    context,        \* the items the model is conditioned on: n_past of them
    initializing,   \* the next chat starts from an empty context
    sys_prompt,     \* the tokenizer's system prompt
    skip_sys_prompt,\* encoders leave the system prompt out
    ai_prefix,      \* gen_config.ai_prefix: what answers begin with, or <<>>
    tool_input,     \* the text of a tool that waits to be pushed, or <<>>
    file,           \* the session file
    sess_n_past, sess_hist_len,  \* where load_session put the conversation
    pc,             \* where the call of the C API is
    call,           \* "chat": Pipeline::chat, "continue": chat_continue
    continuous,     \* of chat_with_restart, chat_without_extending
    retried,        \* the second call of generate is being made
    input_ids,      \* what generate is called with
    output,         \* what it has returned
    parted          \* the context lacks what the history says was given to it

promptVars  == <<sys_prompt, skip_sys_prompt, ai_prefix>>
sessionVars == <<file, sess_n_past, sess_hist_len>>
callVars    == <<call, continuous, retried, input_ids, output, parted>>
vars == <<messagesVars, program, context, initializing, promptVars, tool_input,
          sessionVars, pc, callVars>>

-----------------------------------------------------------------------------
(* Encoding. *)

Item(role, x) == <<role, x>>
Open == Item("Assistant", "opening")
Sys  == Item("System", sys_prompt)
Spoilt == Item("System", "spoilt")  \* rows that are not those of any text
Items == (Role \cup {"System"}) \X (Piece \cup SysPrompts \cup {"opening", "spoilt"})
Session == [history_len : Nat, context : Seq(Items)]

ASSUME NoFileAssumption == NoFile \notin Session /\ NoFile \notin Seq(Items)

Spoken(texts) == [i \in DOMAIN texts |-> Item("Assistant", texts[i])]

\* append_user, append_tool, append_ai
Render(m) == IF m.role = "Assistant" THEN <<Open>> \o Spoken(m.content)
             ELSE [i \in DOMAIN m.content |-> Item(m.role, m.content[i])]

RenderFrom(h, start) == FlattenSeq([i \in 1 .. Len(h) - start |-> Render(h[start + i])])

\* append_message: the system prompt goes in front of a first message of round 0.
SysPromptBefore(h, start) ==
    IF start < Len(h) /\ h[start + 1].round = 0 /\ ~skip_sys_prompt THEN <<Sys>> ELSE <<>>

PiecesFrom(h, start) == UNION {{i} \X DOMAIN h[i].content : i \in start .. Len(h)}

\* get_history_start: two messages at a time are added before the last one while
\* less than max_length is taken; the result is how many are left out.
HistoryStart(h, max_length) ==
    LET Tried == {s \in 1 .. Len(h) - 2 : (Len(h) - s) % 2 = 0}
        Full  == {s \in Tried : Cardinality(PiecesFrom(h, s)) >= max_length}
    IN  IF Full = {} THEN 0 ELSE CHOOSE s \in Full : \A r \in Full : r <= s

\* Where an incremental encoding starts: behind the answers at the cursor.
CursorStartHere(h) == cursor  \* mutant

CursorStart(h) ==
    LET Unanswered == {s \in cursor .. Len(h) - 1 : h[s + 1].role # "Assistant"}
    IN  IF Unanswered = {} THEN Len(h)
        ELSE CHOOSE s \in Unanswered : \A r \in Unanswered : s <= r

EncodeHistory(h, max_length, incremental, opening) ==
    LET start == IF incremental THEN CursorStart(h) ELSE HistoryStart(h, max_length \div 2)
    IN  SysPromptBefore(h, start) \o RenderFrom(h, start)
            \o (IF opening THEN <<Open>> ELSE <<>>)

\* Pipeline::rewind
RewoundTo(n) == IF Len(context) > n THEN SubSeq(context, 1, n) ELSE context

-----------------------------------------------------------------------------
(* A turn: chatllm_user_input, chatllm_generate, Pipeline::chat. *)

Init ==
    /\ MessagesInit
    /\ context = <<>> /\ initializing = TRUE
    /\ program \in Programs
    /\ sys_prompt \in program.prompts /\ skip_sys_prompt = FALSE /\ ai_prefix = <<>>
    /\ tool_input = <<>>
    /\ file = NoFile /\ sess_n_past = -1 /\ sess_hist_len = -1
    /\ pc = "idle" /\ call = "chat" /\ continuous = FALSE /\ retried = FALSE
    /\ input_ids = <<>> /\ output = <<>> /\ parted = FALSE

UserInput(text) ==
    /\ pc = "idle"
    /\ PushBack("User", <<text>>)
    /\ pc' = "chat"
    /\ UNCHANGED <<program, context, initializing, promptVars, tool_input, sessionVars,
                   callVars>>

Spelt == Spoken(ai_prefix)  \* add_ai_prefix: in front of the answer, not in the history

\* Up to the call of generate, which keeps the context or drops it.
Chat ==
    /\ pc = "chat"
    /\ call' = "chat" /\ retried' = FALSE
    /\ continuous' = ~initializing
    /\ initializing' = FALSE
    /\ input_ids' = EncodeHistory(history, program.max_context, continuous', TRUE) \o Spelt
    /\ cursor' = Len(history)
    /\ context' = IF continuous' THEN context ELSE <<>>
    /\ output' = <<>> /\ parted' = (parted /\ continuous') /\ pc' = "generate"
    /\ UNCHANGED <<program, history, round, promptVars, tool_input, sessionVars>>

Fits == Len(context) + Len(input_ids) < program.max_length

Shifts == call = "chat" /\ program.extending = "shift"

\* chat_with_shift joins the outputs of its generations.
Said == IF Shifts THEN output ELSE <<>>

\* The tokens of an output that have been run: the one sampled last is run at the
\* beginning of the loop's next round.
Run(text) == IF text = <<>> THEN text ELSE Front(text)

\* What the loop of generate has done when it has run the input and these tokens.
RunsOn(tokens) ==
    /\ pc = "generate" /\ Fits
    /\ context' = (context \o input_ids) \o Spoken(tokens)
    /\ Len(context') < program.max_length

Says(text) == /\ Len(Said) + Len(text) <= program.answers
              /\ output' = Said \o text

CompleteOneEarly(text) ==  \* mutant: the input takes the place of the last item
    /\ pc = "generate" /\ Fits
    /\ context' = SubSeq(context, 1, Len(context) - 1) \o input_ids \o Spoken(text)
    /\ Says(text)
    /\ pc' = "done"
    /\ UNCHANGED <<program, messagesVars, initializing, promptVars, tool_input,
                   sessionVars, call, continuous, retried, input_ids, parted>>

\* The model comes to an end: its stop token is run no more, all before it has
\* been.  Without an input there is nothing to sample from.
Complete(text) ==
    /\ RunsOn(text) /\ Says(text)
    /\ input_ids = <<>> => text = <<>>
    /\ pc' = "done"
    /\ UNCHANGED <<program, messagesVars, initializing, promptVars, tool_input,
                   sessionVars, call, continuous, retried, input_ids, parted>>

\* An abort, the limit on new tokens or a run without memory ends the loop: the
\* token sampled last is in the output, and never in the context.
CutShort(text) ==
    /\ RunsOn(Run(text)) /\ Says(text)
    /\ text # <<>> /\ input_ids # <<>>
    /\ pc' = "done"
    /\ UNCHANGED <<program, messagesVars, initializing, promptVars, tool_input,
                   sessionVars, call, continuous, retried, input_ids, parted>>

\* The same before the input has been run, which nobody gives again.
NothingRun ==
    /\ pc = "generate"
    /\ output' = Said /\ parted' = TRUE
    /\ pc' = "done"
    /\ UNCHANGED <<program, messagesVars, context, initializing, promptVars, tool_input,
                   sessionVars, call, continuous, retried, input_ids>>

RetriesForEver ==  \* mutant
    call = "continue" \/ program.extending = "restart"

Retries == ~retried /\ (call = "continue" \/ (program.extending = "restart" /\ continuous))

OutOfContext ==
    /\ pc' = IF Shifts THEN "shift" ELSE IF Retries THEN "retry" ELSE "done"
    /\ parted' = (parted \/ ~(Shifts \/ Retries))
    /\ UNCHANGED <<program, messagesVars, initializing, promptVars, tool_input,
                   sessionVars, call, continuous, retried, input_ids>>

\* generate has no room for its input,
NoRoom ==
    /\ pc = "generate" /\ ~Fits
    /\ output' = Said
    /\ OutOfContext
    /\ UNCHANGED context

\* or, after some text, for the token sampled last.
RunOut(text) ==
    /\ RunsOn(Run(text)) /\ Says(text)
    /\ text # <<>> /\ input_ids # <<>>
    /\ Len(context') + 1 >= program.max_length
    /\ OutOfContext

RetryKeepsContext ==  \* mutant: the old context stays
    /\ pc = "retry"
    /\ retried' = TRUE
    /\ input_ids' = EncodeHistory(history, program.max_context, FALSE, call = "chat")
                    \o (IF call = "chat" THEN Spelt ELSE <<>>)
    /\ cursor' = Len(history) /\ parted' = FALSE
    /\ pc' = "generate"
    /\ UNCHANGED <<program, history, round, context, initializing, promptVars,
                   tool_input, sessionVars, call, continuous, output>>

\* "Let me forget something and try again": the end of the history alone.
Retry ==
    /\ pc = "retry"
    /\ retried' = TRUE
    /\ input_ids' = EncodeHistory(history, program.max_context, FALSE, call = "chat")
                    \o (IF call = "chat" THEN Spelt ELSE <<>>)
    /\ cursor' = Len(history)
    /\ context' = <<>> /\ parted' = FALSE
    /\ pc' = "generate"
    /\ UNCHANGED <<program, history, round, initializing, promptVars, tool_input,
                   sessionVars, call, continuous, output>>

ShiftedIfSmall ==  \* mutant: the early return's comparison is turned round
    IF program.max_context <= Len(context) THEN context
    ELSE SubSeq(context, Len(context) - program.max_context + 1, Len(context))

\* shift_memory: the most recent items are kept.
Shifted ==
    IF program.max_context >= Len(context) THEN context
    ELSE SubSeq(context, Len(context) - program.max_context + 1, Len(context))

\* chat_with_shift: "Try to forget something and continue", with the last token of
\* the output.  An input there was no room for is gone.
ShiftMemory ==
    /\ pc = "shift"
    /\ context' = Shifted
    /\ input_ids' = IF output = <<>> THEN <<>> ELSE Spoken(<<Last(output)>>)
    /\ parted' = (parted \/ output = <<>>)
    /\ pc' = "generate"
    /\ UNCHANGED <<program, messagesVars, initializing, promptVars, tool_input,
                   sessionVars, call, continuous, retried, output>>

\* chatllm_set_ai_prefix, also from a callback.
SetAiPrefix(text) ==
    /\ pc \in {"idle", "done"}
    /\ ai_prefix' = text
    /\ UNCHANGED <<program, messagesVars, context, initializing, sys_prompt,
                   skip_sys_prompt, tool_input, sessionVars, pc, callVars>>

\* chatllm_tool_input and chatllm_tool_completion, from a callback while the
\* answer is streamed: both leave their text for the end of the turn.
ToolInput(text) ==
    /\ pc = "done" /\ output # <<>>
    /\ tool_input' = <<text>>
    /\ UNCHANGED <<program, messagesVars, context, initializing, promptVars,
                   sessionVars, pc, callVars>>

\* chatllm_tool_input after the turn: it does the same.
LateToolInput(text) ==
    /\ pc = "idle"
    /\ tool_input' = <<text>>
    /\ UNCHANGED <<program, messagesVars, context, initializing, promptVars,
                   sessionVars, pc, callVars>>

TokPos == IF initializing THEN 0 ELSE Len(context)  \* Pipeline::get_cursor

\* The answer is pushed with the position behind it.
AnsweredTokPosFirst(h, rnd) ==  \* mutant: the position goes to the message before
    Pushed(WithTokPos(h, TokPos), "Assistant", output, rnd)

Answered(h, rnd) == WithTokPos(Pushed(h, "Assistant", output, rnd), TokPos)

SessionOf(h) == [history_len |-> Len(h), context |-> context]

\* The rest of chatllm_generate: a tool's text starts another generation.
AnswerLeavesTool ==  \* mutant: tool_input waits for the next turn
    /\ pc = "done" /\ call = "chat"
    /\ history' = Answered(history, round)
    /\ pc' = "idle"
    /\ UNCHANGED <<program, cursor, round, context, initializing, promptVars,
                   tool_input, sessionVars, callVars>>

Answer ==
    /\ pc = "done" /\ call = "chat"
    /\ LET h == Answered(history, round) IN
       /\ history' = IF tool_input = <<>> THEN h ELSE Pushed(h, "Tool", tool_input, round)
       /\ round' = IF tool_input = <<>> THEN round ELSE RoundAfter(h, "Tool", round)
       /\ file' = IF program.save_rounds > 0 /\ Len(h) \div 2 = program.save_rounds
                  THEN SessionOf(h) ELSE file
    /\ tool_input' = <<>>
    /\ pc' = IF tool_input = <<>> THEN "idle" ELSE "chat"
    /\ UNCHANGED <<program, cursor, context, initializing, promptVars, sess_n_past,
                   sess_hist_len, callVars>>

-----------------------------------------------------------------------------
(* The other calls of the C API. *)

\* chatllm_ai_continue and chat_with_ext_completion: the answer is extended by
\* text, then by what the model adds.  The model goes back to where the history
\* ends, which is found by encoding it.
AddToLast(h, texts) == [h EXCEPT ![Len(h)].content = @ \o texts]

AiContinue(text) ==
    /\ pc = "idle"
    /\ history # <<>> /\ LastMessage(history).role = "Assistant"
    /\ Len(LastMessage(history).content) + 1 + program.answers <= MaxPieces
    /\ context' = RewoundTo(Len(EncodeHistory(history, program.max_length, FALSE, FALSE)))
    /\ cursor' = Len(history)
    /\ history' = AddToLast(history, <<text>>)
    /\ input_ids' = <<Item("Assistant", text)>>
    /\ call' = "continue" /\ retried' = FALSE /\ output' = <<>> /\ pc' = "generate"
    /\ UNCHANGED <<program, round, initializing, promptVars, tool_input, sessionVars,
                   continuous, parted>>

Continued ==
    /\ pc = "done" /\ call = "continue"
    /\ history' = WithTokPos(AddToLast(history, output), TokPos)
    /\ pc' = "idle"
    /\ UNCHANGED <<program, cursor, round, context, initializing, promptVars,
                   tool_input, sessionVars, callVars>>

\* chatllm_restart.  A session with messages would be returned to; the prompt
\* that is set otherwise is what the next chat starts with.
Restart(prompt) ==
    /\ pc = "idle"
    /\ IF sess_hist_len > 0 /\ prompt = NoPrompt
       THEN /\ history' = SubSeq(history, 1, sess_hist_len)
            /\ context' = RewoundTo(sess_n_past)
            /\ UNCHANGED <<cursor, round, initializing, sys_prompt>>
       ELSE /\ Clear
            /\ initializing' = TRUE
            /\ sys_prompt' = IF prompt = NoPrompt THEN sys_prompt ELSE prompt
            /\ UNCHANGED context
    /\ UNCHANGED <<program, skip_sys_prompt, ai_prefix, tool_input, sessionVars, pc,
                   callVars>>

HistoryAppend(role, text) ==
    /\ pc = "idle"
    /\ PushBack(role, <<text>>)
    /\ UNCHANGED <<program, context, initializing, promptVars, tool_input, sessionVars,
                   pc, callVars>>

\* chatllm_history_set_cursor, to a position behind an answer.
HistorySetCursor(pos) ==
    /\ pc = "idle" /\ pos \in 1 .. cursor - 1
    /\ history[pos].tok_pos >= 0
    /\ history' = SubSeq(history, 1, pos)
    /\ cursor' = pos
    /\ context' = RewoundTo(history[pos].tok_pos)
    /\ UNCHANGED <<program, round, initializing, promptVars, tool_input, sessionVars,
                   pc, callVars>>

\* chatllm_history_set_cursor to a message without a position: the search for
\* one runs up from the last message, out of the vector.
HistorySetCursorAstray(pos) ==
    /\ pc = "idle" /\ pos \in 1 .. cursor - 1
    /\ history[pos].tok_pos < 0
    /\ history' = SubSeq(history, 1, pos)
    /\ pc' = "undefined"
    /\ UNCHANGED <<program, cursor, round, context, initializing, promptVars,
                   tool_input, sessionVars, callVars>>

\* chatllm_set_cursor
SetCursor(pos) ==
    /\ pc = "idle" /\ pos < Len(context)
    /\ context' = RewoundTo(pos)
    /\ UNCHANGED <<program, messagesVars, initializing, promptVars, tool_input,
                   sessionVars, pc, callVars>>

\* chatllm_save_session.  Without a history the system prompt is evaluated first
\* (eval_sys_prompt: generate is called with it alone).
SaveSession ==
    /\ pc = "idle" /\ history # <<>>
    /\ file' = SessionOf(history)
    /\ UNCHANGED <<program, messagesVars, context, initializing, promptVars, tool_input,
                   sess_n_past, sess_hist_len, pc, callVars>>

SavePrompt ==
    /\ pc = "idle" /\ history = <<>>
    /\ context' = <<>> /\ pc' = "prompt"
    /\ UNCHANGED <<program, messagesVars, initializing, promptVars, tool_input,
                   sessionVars, callVars>>

EvalSysPromptOnly ==  \* mutant: the encoders are not told
    /\ pc = "prompt"
    /\ context' = <<Sys>>
    /\ initializing' = FALSE
    /\ pc' = "save"
    /\ UNCHANGED <<program, messagesVars, promptVars, tool_input, sessionVars,
                   callVars>>

EvalSysPrompt ==
    /\ pc = "prompt"
    /\ context' = <<Sys>>
    /\ skip_sys_prompt' = TRUE /\ initializing' = FALSE /\ parted' = FALSE
    /\ pc' = "save"
    /\ UNCHANGED <<program, messagesVars, sys_prompt, ai_prefix, tool_input,
                   sessionVars, call, continuous, retried, input_ids, output>>

WriteSession ==
    /\ pc = "save"
    /\ file' = SessionOf(history)
    /\ pc' = "idle"
    /\ UNCHANGED <<program, messagesVars, context, initializing, promptVars, tool_input,
                   sess_n_past, sess_hist_len, callVars>>

LoadSessionHistoryLeft ==  \* mutant: the messages are not cleared
    /\ pc = "idle" /\ file # NoFile /\ file.history_len = 0
    /\ context' = file.context
    /\ initializing' = FALSE /\ skip_sys_prompt' = TRUE
    /\ sess_n_past' = Len(file.context) /\ sess_hist_len' = 0
    /\ UNCHANGED <<program, messagesVars, sys_prompt, ai_prefix, tool_input, file, pc,
                   callVars>>

\* chatllm_load_session, of a file without messages (SessionFile shows what
\* becomes of one with messages).
LoadSession ==
    /\ pc = "idle" /\ file # NoFile /\ file.history_len = 0
    /\ Clear
    /\ context' = file.context
    /\ initializing' = FALSE /\ skip_sys_prompt' = TRUE
    /\ sess_n_past' = Len(file.context) /\ sess_hist_len' = 0 /\ parted' = FALSE
    /\ UNCHANGED <<program, sys_prompt, ai_prefix, tool_input, file, pc, call,
                   continuous, retried, input_ids, output>>

\* A file of which a part has been lost: the messages are gone, and of the context
\* as many positions are left as the file speaks of, if it speaks of them
\* ("counters"), and no rows but those that were the same, if it holds any
\* ("layers").  A file without a header is refused at once.
Remains(read) ==
    LET stored == file.context
        Same == {i \in DOMAIN stored : i <= Len(context) /\ \A j \in 1 .. i : context[j] = stored[j]}
    IN  CASE read = "header"   -> context
          [] read = "counters" ->
                [i \in DOMAIN stored |-> IF i <= Len(context) THEN context[i] ELSE Spoilt]
          [] read = "layers"   ->
                [i \in DOMAIN stored |-> IF i \in Same THEN stored[i] ELSE Spoilt]

LoadSessionFails(read) ==
    /\ pc = "idle"
    /\ read # "header" => file # NoFile /\ file.history_len = 0
    /\ Clear
    /\ context' = Remains(read)
    /\ UNCHANGED <<program, initializing, promptVars, tool_input, sessionVars, pc,
                   callVars>>

-----------------------------------------------------------------------------
Texts(S) == {<<>>} \cup {<<t>> : t \in S}

Outputs == SeqOf(Answers, program.answers)

Allowed(op) == op \in program.calls

Turn == \/ Chat \/ Retry \/ ShiftMemory \/ Answer \/ Continued
        \/ EvalSysPrompt \/ WriteSession
        \/ NoRoom \/ \E text \in Outputs : Complete(text) \/ RunOut(text)

\* Whoever ends an answer early: chatllm_abort_generation, max_new_tokens.
Abort == NothingRun \/ \E text \in Outputs : CutShort(text)

\* The program lets no more messages come together.
Room == Len(history) < program.messages

\* A restored history starts with the user, and answers what was said.
Restorable(role) ==
    role = "Assistant" => history # <<>> /\ LastMessage(history).role # "Assistant"

Next ==
    \/ Room /\ \E t \in program.says : UserInput(t)
    \/ Turn
    \/ Allowed("abort") /\ Abort
    \/ Allowed("prefix") /\ \E text \in Texts(Completions) : SetAiPrefix(text)
    \/ Allowed("tool") /\ \E t \in ToolTexts : ToolInput(t)
    \/ Allowed("completion") /\ \E t \in Completions : ToolInput(t)
    \/ Allowed("late_tool") /\ \E t \in ToolTexts : LateToolInput(t)
    \/ Allowed("continue") /\ \E t \in Completions : AiContinue(t)
    \/ Allowed("restart") /\ \E p \in program.prompts \cup {NoPrompt} : Restart(p)
    \/ Allowed("append") /\ Room /\ \E r \in Role, t \in program.says :
            (Restorable(r) \/ Allowed("append_any")) /\ HistoryAppend(r, t)
    \/ Allowed("history_cursor") /\ \E p \in 1 .. MaxMessages : HistorySetCursor(p)
    \/ Allowed("astray") /\ \E p \in 1 .. MaxMessages : HistorySetCursorAstray(p)
    \/ Allowed("cursor") /\ \E p \in 0 .. MaxLength : SetCursor(p)
    \/ Allowed("save") /\ (SaveSession \/ SavePrompt)
    \/ Allowed("load") /\ LoadSession
    \/ Allowed("load_fails") /\
            \E read \in {"header", "counters", "layers"} : LoadSessionFails(read)

Spec == Init /\ [][Next]_vars /\ WF_vars(Turn)

-----------------------------------------------------------------------------
(* Properties. *)

\* Every variable has its type.
TypeOK ==
    /\ MessagesTypeOK
    /\ context \in Seq(Items) /\ Len(context) <= program.max_length
    /\ initializing \in BOOLEAN /\ skip_sys_prompt \in BOOLEAN
    /\ program \in Programs /\ sys_prompt \in program.prompts
    /\ tool_input \in Texts(Piece) /\ ai_prefix \in Texts(Completions)
    /\ file \in Session \cup {NoFile}
    /\ sess_n_past \in Int /\ sess_hist_len \in Int
    /\ pc \in {"idle", "chat", "generate", "retry", "shift", "done", "prompt", "save",
              "undefined"}
    /\ call \in {"chat", "continue"} /\ continuous \in BOOLEAN /\ retried \in BOOLEAN
    /\ input_ids \in Seq(Items) /\ parted \in BOOLEAN
    /\ output \in Seq(Answers) /\ Len(output) <= program.answers

\* How much of the history the model has been given: what is before the cursor,
\* and the answer that generation has put behind it.
Given == IF cursor < Len(history) /\ history[cursor + 1].role = "Assistant"
         THEN cursor + 1 ELSE cursor

\* The model knows an answer of its own behind the prefix it was given, and, when
\* answers are cut short, without the token sampled last.
Spellings == IF Allowed("prefix") THEN Texts(Completions) ELSE {<<>>}
Cuts     == IF Allowed("abort") THEN BOOLEAN ELSE {FALSE}

KnownAs(m, prefix, cut) ==
    [m EXCEPT !.content = prefix \o (IF cut THEN Run(m.content) ELSE m.content)]

\* The answers the model has given, to where their positions have been kept.
Generated(end) == {i \in 1 .. end : history[i].tok_pos >= 0}

\* What the model may know of the messages up to end.
Tellings(end) ==
    {[i \in 1 .. end |-> IF i \in Generated(end) THEN KnownAs(history[i], f[i][1], f[i][2])
                         ELSE history[i]] :
        f \in [Generated(end) -> Spellings \X Cuts]}

\* The model's context that the messages of k behind start make, the system prompt
\* before the first round.
Window(k, start) ==
    (IF k = <<>> \/ (start < Len(k) /\ k[start + 1].round = 0) THEN <<Sys>> ELSE <<>>)
        \o RenderFrom(k, start)

\* Half of so long a context holds the contents of any history that tools do not
\* lengthen: an answer may come behind the last message there is room for.
IsWide(length) == length \div 2 > (MaxMessages + 1) * MaxPieces

Starts == IF program.extending = "none" /\ IsWide(program.max_context)
          THEN {0} ELSE 0 .. Given

\* The program leaves context and history to the chat object, which forgets whole
\* messages: it does not move the token cursor, loads whole files, and restores
\* what a chat can have been.  It goes back to an answer when nothing has been
\* forgotten since, and continues answers the model has given, knows as they are
\* in the history, and that is short enough.
LeavesHistory ==
    /\ program.calls \cap {"cursor", "load_fails", "append_any"} = {}
    /\ program.extending # "shift"
    /\ "history_cursor" \in program.calls => program.extending = "none"
    /\ "continue" \in program.calls =>
            /\ program.calls \cap {"append", "tool", "completion", "late_tool",
                                   "abort", "prefix"} = {}
            /\ IsWide(program.max_length)

\* Between turns the model is conditioned on what the history says: the system
\* prompt and every message, once and in order (the most recent ones when the
\* restart method has forgotten the others), but for the prefix an answer was
\* given and the last token of one that was cut short.  The cursor, the rounds,
\* the position of every answer and the model's n_past are kept apart by different
\* classes and meet only here.  Excluded: an input that was never run.
ContextIsHistory ==
    LeavesHistory /\ pc = "idle" /\ ~initializing /\ ~parted =>
        \E start \in Starts, k \in Tellings(Given) : context = Window(k, start)

\* What a generation goes on from is the conversation: with its input behind its
\* context the model has the history as it knows it, the opening of an answer and
\* the prefix in front of it, and nothing else, whether the input was encoded from
\* the cursor on, from the start of a window, or is the text that continues an
\* answer.
PromptIsHistory ==
    LeavesHistory /\ pc = "generate" /\ ~parted =>
        \E start \in Starts, k \in Tellings(Len(history)) :
            context \o input_ids = Window(k, start)
                                   \o (IF call = "chat" THEN <<Open>> \o Spelt ELSE <<>>)

\* Going back to an answer (chatllm_history_set_cursor) gives the context the
\* model had right after it: the position kept with each message marks it.
TokPosRestores ==
    LeavesHistory /\ program.extending = "none"
    /\ pc = "idle" /\ ~initializing /\ ~parted =>
        \E start \in Starts, k \in Tellings(Given) : \A i \in Generated(Given) :
            /\ history[i].tok_pos <= Len(context)
            /\ SubSeq(context, 1, history[i].tok_pos) = Window(SubSeq(k, 1, i), start)

\* `add a suffix to ai output and continue generation' (libchatllm.h): an answer is
\* continued from all that was said before it.
ContinuesConversation ==
    pc = "generate" /\ call = "continue" /\ ~retried =>
        context \o input_ids = Window(history, 0)

\* `update to a new system prompt' (chatllm_restart in libchatllm.h): the answer that
\* begins an empty context is given the system prompt that is set.
NewPromptIsGiven ==
    pc = "generate" /\ call = "chat" /\ ~continuous /\ ~retried => Head(input_ids) = Sys

\* `If this function is called after chatllm_user_input returns, this is
\* equivalent to chatllm_user_input' (libchatllm.h): no text of a tool is left
\* waiting when a turn has ended.  Excluded: the programs that make that very call,
\* and text that is brought while an answer is continued (chatllm_ai_continue does
\* not look for any).
ToolInputIsUsed ==
    "late_tool" \notin program.calls /\ pc = "idle" /\ call = "chat" => tool_input = <<>>

\* chat_with_shift tries again as long as generate has not completed: whatever was
\* not run by then, the last token of the output with what is left of the context
\* must leave generate a token to run.  Excluded: windows that the context is never
\* larger than, or by one token that takes the place it left.
ShiftMakesRoom ==
    [][pc = "shift" /\ pc' = "generate" /\ program.max_context + 1 < program.max_length
       => Fits']_vars

\* `Continuous chatting (content length is virtually unlimited)', by `Restart and
\* Shift' (README.md): no window is excluded.
ShiftGoesOn == [][pc = "shift" /\ pc' = "generate" => Fits']_vars

\* With the shift method a model may speak for ever; with the restart method it and
\* its tools may, since the context begins anew whenever it has run out.
SpeaksOn ==
    \/ program.extending = "shift"
    \/ program.extending = "restart" /\ (Allowed("tool") \/ Allowed("completion"))

\* A turn ends, also when it runs out of context (it tries again once only) and
\* when tools go on answering the model (the context fills up).
TurnEnds == pc \in {"chat", "generate"} /\ ~SpeaksOn ~> pc = "idle"

\* The pipeline uses the model's context by the operations it offers, and a load
\* that fails does to it what it does there.
Context == INSTANCE TokenContext
               WITH Token <- Items, Limit <- MaxLength, NoSession <- NoFile,
                    stored <- IF file = NoFile THEN NoFile ELSE file.context

UsesTokenContext == Context!Spec
=============================================================================
