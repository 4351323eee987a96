------------------------------ MODULE ChatApi ------------------------------
(***************************************************************************)
(* The chat objects of a process as the threads of the program that embeds *)
(* them see them: calls that block, calls that run on a detached thread of *)
(* their own, an abort from anywhere, the end of an object, and the        *)
(* callbacks that all of them make.                                        *)
(*                                                                         *)
(* What a call says to the model is Conversation's subject.  Here a turn   *)
(* is: the guard, generate's loop, the end of the stream, the answer.  How *)
(* many tokens the model says, and how often a full context is extended or *)
(* a tool's input starts another generation, is left open.                 *)
(*                                                                         *)
(* The program is taken to be careful in this only: while a call of its    *)
(* own blocks it makes no other call to that object, and it makes a        *)
(* blocking call when chatllm_get_async_result_int says that no            *)
(* asynchronous one is on.  Asynchronous calls, aborts and destroy come at *)
(* any time, from callbacks too.                                           *)
(***************************************************************************)
EXTENDS Integers

CONSTANTS
    Obj,        \* chat objects, created and of the same kind
    Main,       \* the program's thread
    Worker,     \* detached threads there can be at a time (a bound)
    None        \* no object, no thread

ASSUME ChatApiAssumption == Main \notin Worker /\ None \notin Obj \cup Worker

VARIABLES
    is_prompt,      \* the streamer's: no answer is being streamed
    is_async_busy,  \* the chat object's: an asynchronous call is on
    async_result,   \* async_result_int
    aborted,        \* the model's
    place,          \* "created", "started" or "destroyed", for each object
    next,           \* whose streamer the static thought_interceptor hands text to
    thread,         \* what each thread does, for which object, whether it took the
                    \* object's streamer before its call, and its result
    latest          \* the thread of an object's last asynchronous call

flags == <<is_prompt, is_async_busy, async_result>>
vars == <<flags, aborted, place, next, thread, latest>>

-----------------------------------------------------------------------------
Thread == {Main} \cup Worker
Outside == [pc |-> "outside", obj |-> None, streamer |-> FALSE, result |-> 0]

\* The thread is in the pipeline of its object.
InPipeline == {"start", "user_input", "generate", "loop", "token", "end", "answer"}
Uses(t, o) == thread[t].pc \in InPipeline /\ thread[t].obj = o

At(t, pc) == thread[t].pc = pc
Goes(t, pc) == thread' = [thread EXCEPT ![t].pc = pc]

\* The streamer is made by the first call; a later one finds it.
Calls(t, o, pc) ==
    thread' = [thread EXCEPT ![t] = [Outside EXCEPT !.pc = pc, !.obj = o,
                                                   !.streamer = place[o] # "created"]]

\* No blocking call to o is on.
Quiet(o) == ~Uses(Main, o)

Init ==
    /\ is_prompt = [o \in Obj |-> TRUE]
    /\ is_async_busy = [o \in Obj |-> FALSE]
    /\ async_result = [o \in Obj |-> 0]
    /\ aborted = [o \in Obj |-> FALSE]
    /\ place = [o \in Obj |-> "created"]
    /\ next = None
    /\ thread = [t \in Thread |-> Outside]
    /\ latest = [o \in Obj |-> None]

-----------------------------------------------------------------------------
(* The program's calls. *)

\* The call that fits an object: chatllm_start, then chatllm_user_input.
FirstStep == [created |-> "start", started |-> "user_input"]

\* A call that blocks the program's thread.
Call(o) ==
    /\ At(Main, "outside") /\ place[o] # "destroyed" /\ ~is_async_busy[o]
    /\ Calls(Main, o, FirstStep[place[o]])
    /\ UNCHANGED <<flags, aborted, place, next, latest>>

AsyncUnchecked(w, o) ==  \* mutant: is_async_busy is not looked at
    /\ place[o] # "destroyed" /\ Quiet(o) /\ At(w, "outside")
    /\ is_async_busy' = [is_async_busy EXCEPT ![o] = TRUE]
    /\ Calls(w, o, FirstStep[place[o]])
    /\ latest' = [latest EXCEPT ![o] = w]
    /\ UNCHANGED <<is_prompt, async_result, aborted, place, next>>

\* chatllm_async_start and chatllm_async_user_input, by the program's thread or in
\* a callback: refused, or handed to a thread.
Async(w, o) ==
    /\ place[o] # "destroyed" /\ Quiet(o) /\ At(w, "outside")
    /\ ~is_async_busy[o]
    /\ is_async_busy' = [is_async_busy EXCEPT ![o] = TRUE]
    /\ Calls(w, o, FirstStep[place[o]])
    /\ latest' = [latest EXCEPT ![o] = w]
    /\ UNCHANGED <<is_prompt, async_result, aborted, place, next>>

\* chatllm_abort_generation, from any thread.
Abort(o) ==
    /\ place[o] = "started"
    /\ aborted' = [aborted EXCEPT ![o] = TRUE]
    /\ UNCHANGED <<flags, place, next, thread, latest>>

DestroyByPrompt(o) ==  \* mutant: only is_prompt is looked at
    /\ place[o] = "started" /\ Quiet(o) /\ is_prompt[o]
    /\ place' = [place EXCEPT ![o] = "destroyed"]
    /\ UNCHANGED <<flags, aborted, next, thread, latest>>

\* chatllm_destroy, unless it refuses.
Destroy(o) ==
    /\ place[o] = "started" /\ Quiet(o)
    /\ is_prompt[o] /\ ~is_async_busy[o]
    /\ place' = [place EXCEPT ![o] = "destroyed"]
    /\ UNCHANGED <<flags, aborted, next, thread, latest>>

-----------------------------------------------------------------------------
(* A call, on the program's thread or on a worker. *)

\* A call is over: it returns, or its result is what the thread of ASYNC_FUN_BODY
\* goes on with.
Returns(t, result) ==
    thread' = [thread EXCEPT ![t] = IF t = Main THEN Outside
                                    ELSE [@ EXCEPT !.pc = "store", !.result = result]]

\* chatllm_start makes the streamer and the pipeline; start_chat puts the
\* interceptor that all objects share in front of the streamer.
Start(t) ==
    /\ At(t, "start")
    /\ place' = [place EXCEPT ![thread[t].obj] = "started"]
    /\ next' = thread[t].obj
    /\ Returns(t, 0)
    /\ UNCHANGED <<flags, aborted, latest>>

\* chatllm_user_input up to generate.
UserInput(t) ==
    /\ At(t, "user_input")
    /\ IF is_prompt[thread[t].obj] THEN Goes(t, "generate") ELSE Returns(t, -1)
    /\ UNCHANGED <<flags, aborted, place, next, latest>>

\* generate begins: an abort that came before is forgotten.
Generate(t) ==
    /\ At(t, "generate")
    /\ aborted' = [aborted EXCEPT ![thread[t].obj] = FALSE]
    /\ Goes(t, "loop")
    /\ UNCHANGED <<flags, place, next, latest>>

RunAlways(t) ==  \* mutant: the loop does not look at aborted
    /\ At(t, "loop")
    /\ Goes(t, "token")
    /\ UNCHANGED <<flags, aborted, place, next, latest>>

\* The loop's guard, and a run of the model.
Run(t) ==
    /\ At(t, "loop") /\ ~aborted[thread[t].obj]
    /\ Goes(t, "token")
    /\ UNCHANGED <<flags, aborted, place, next, latest>>

\* A token is sampled and put; or it ends the answer.
Put(t) ==
    /\ At(t, "token")
    /\ \/ /\ is_prompt' = [is_prompt EXCEPT ![thread[t].obj] = FALSE]
          /\ Goes(t, "loop")
       \/ Goes(t, "end") /\ UNCHANGED is_prompt
    /\ UNCHANGED <<is_async_busy, async_result, aborted, place, next, latest>>

\* The loop's guard fails: aborted, or out of context, which the extending method
\* may answer with another generate.
Leave(t) ==
    /\ At(t, "loop")
    /\ \/ Goes(t, "end")
       \/ ~aborted[thread[t].obj] /\ Goes(t, "generate")
    /\ UNCHANGED <<flags, aborted, place, next, latest>>

EndElsewhere(t) ==  \* mutant: only the interceptor's streamer is at its prompt
    /\ At(t, "end")
    /\ is_prompt' = [is_prompt EXCEPT ![next] = TRUE]
    /\ Goes(t, "answer")
    /\ UNCHANGED <<is_async_busy, async_result, aborted, place, next, latest>>

\* FFIStreamer::end: f_end, then the chain of interceptors, which ends in the
\* streamer the interceptor belongs to, then this streamer itself.
End(t) ==
    /\ At(t, "end")
    /\ is_prompt' = [is_prompt EXCEPT ![next] = TRUE, ![thread[t].obj] = TRUE]
    /\ Goes(t, "answer")
    /\ UNCHANGED <<is_async_busy, async_result, aborted, place, next, latest>>

\* The rest of chatllm_generate: a tool's input starts another generation; saving
\* a session may fail.
Answer(t) ==
    /\ At(t, "answer")
    /\ \/ Goes(t, "generate")
       \/ \E result \in {0, -1} : Returns(t, result)
    /\ UNCHANGED <<flags, aborted, place, next, latest>>

-----------------------------------------------------------------------------
(* The thread of ASYNC_FUN_BODY behind its call. *)

StoreResult(w) ==
    /\ At(w, "store")
    /\ async_result' = [async_result EXCEPT ![thread[w].obj] = thread[w].result]
    /\ Goes(w, "clear")
    /\ UNCHANGED <<is_prompt, is_async_busy, aborted, place, next, latest>>

ClearAndForget(w) ==  \* mutant: clearing the flag resets the result with it
    /\ At(w, "clear")
    /\ is_async_busy' = [is_async_busy EXCEPT ![thread[w].obj] = FALSE]
    /\ async_result' = [async_result EXCEPT ![thread[w].obj] = 0]
    /\ Goes(w, "event")
    /\ UNCHANGED <<is_prompt, aborted, place, next, latest>>

ClearBusy(w) ==
    /\ At(w, "clear")
    /\ is_async_busy' = [is_async_busy EXCEPT ![thread[w].obj] = FALSE]
    /\ Goes(w, "event")
    /\ UNCHANGED <<is_prompt, async_result, aborted, place, next, latest>>

\* put_event(PRINT_EVT_ASYNC_COMPLETED), and the callback, on the streamer taken
\* before the call: there was none, or a program that saw the call end has
\* destroyed it since.
PutEvent(w) ==
    /\ At(w, "event")
    /\ Goes(w, IF thread[w].streamer /\ place[thread[w].obj] = "started"
               THEN "told" ELSE "undefined")
    /\ UNCHANGED <<flags, aborted, place, next, latest>>

Finish(w) ==
    /\ At(w, "told")
    /\ thread' = [thread EXCEPT ![w] = Outside]
    /\ latest' = [o \in Obj |-> IF latest[o] = w THEN None ELSE latest[o]]
    /\ UNCHANGED <<flags, aborted, place, next>>

-----------------------------------------------------------------------------
Step(t) ==
    \/ Start(t) \/ UserInput(t) \/ Generate(t) \/ Run(t) \/ Put(t) \/ Leave(t) \/ End(t)
    \/ Answer(t) \/ StoreResult(t) \/ ClearBusy(t) \/ PutEvent(t) \/ Finish(t)

Next ==
    \/ \E o \in Obj : Call(o) \/ Abort(o) \/ Destroy(o)
    \/ \E o \in Obj, w \in Worker : Async(w, o)
    \/ \E t \in Thread : Step(t)

Spec == Init /\ [][Next]_vars /\ \A t \in Thread : WF_vars(Step(t))

-----------------------------------------------------------------------------
(* Properties. *)

\* Every variable has its type.
TypeOK ==
    /\ is_prompt \in [Obj -> BOOLEAN] /\ is_async_busy \in [Obj -> BOOLEAN]
    /\ async_result \in [Obj -> {0, -1}] /\ aborted \in [Obj -> BOOLEAN]
    /\ place \in [Obj -> {"created", "started", "destroyed"}]
    /\ next \in Obj \cup {None}
    /\ thread \in [Thread -> [pc : InPipeline \cup {"outside", "store", "clear", "event",
                                                    "told", "undefined"},
                              obj : Obj \cup {None}, streamer : BOOLEAN, result : {0, -1}]]
    /\ latest \in [Obj -> Worker \cup {None}]

\* An object's history, model and streamer are used by one thread at a time,
\* though they have no lock: is_async_busy, is_prompt and the order in which they
\* are set keep the threads apart.
OneThreadAtATime ==
    \A o \in Obj : \A t, u \in Thread : Uses(t, o) /\ Uses(u, o) => t = u

\* `object can't be destroy while still working' (libchatllm.h).
WorkingIsAlive == \A o \in Obj, t \in Thread : Uses(t, o) => place[o] # "destroyed"

\* `last async operation completed' (PRINT_EVT_ASYNC_COMPLETED): in the callback
\* of the last call's event its result can be read, and the object is ready for
\* another call, blocking or not, unless one has been made.
ReadyWhenTold ==
    \A w \in Worker : LET o == thread[w].obj IN
        At(w, "told") /\ latest[o] = w /\ Quiet(o) =>
            ~is_async_busy[o] /\ is_prompt[o] /\ async_result[o] = thread[w].result

\* A call that was accepted is run: it is never refused because the stream of an
\* earlier one is still open, even if the thread of that one lives on.
AcceptedIsRun ==
    \A t \in Thread : At(t, "user_input") => is_prompt[thread[t].obj]

\* `abort generation': given inside generate's loop, the answer ends, whatever the
\* model would still have said.  (One given before is forgotten by Generate.)
AbortEnds ==
    \A t \in Thread :
        thread[t].pc \in {"loop", "token"} /\ aborted[thread[t].obj] ~> At(t, "end")

\* What goes through the interceptor is handed to the streamer it came from:
\* `user data provided to callback functions' (libchatllm.h) is that of the object.
OwnText == \A t \in Thread : At(t, "token") => next = thread[t].obj

\* The event of a call that ended reaches the callback of an object that lives on.
EventIsDelivered ==
    \A t \in Thread : At(t, "undefined") => place[thread[t].obj] = "destroyed"
=============================================================================
