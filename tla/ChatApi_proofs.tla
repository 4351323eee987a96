--------------------------- MODULE ChatApi_proofs ---------------------------
(***************************************************************************)
(* Theorems about ChatApi, for every number of chat objects and threads.   *)
(***************************************************************************)
EXTENDS ChatApi, TLAPS

\* Thread t has o for itself: it is in the pipeline, or it is a detached one that
\* has not cleared the busy flag yet.
Holds(t, o) == thread[t].obj = o /\ thread[t].pc \in InPipeline \cup {"store", "clear"}

\* The busy flag is the lock of the detached threads, and the program's thread
\* goes by it before its call.
LockInv ==
    \A o \in Obj :
        /\ \A w \in Worker : Holds(w, o) => is_async_busy[o]
        /\ \A w, v \in Worker : Holds(w, o) /\ Holds(v, o) => w = v
        /\ Holds(Main, o) => ~is_async_busy[o]

\* Who holds an object has not been deprived of it.
AliveInv == \A o \in Obj, t \in Thread : Holds(t, o) => place[o] # "destroyed"

\* An object that is not at its prompt is being spoken through, by the thread that
\* holds it.
Speaking == {"generate", "loop", "token", "end"}
PromptInv ==
    \A o \in Obj : ~is_prompt[o] =>
        \E t \in Thread : thread[t].obj = o /\ thread[t].pc \in Speaking

Outsiders == \A t \in Thread : thread[t].obj = None => thread[t].pc = "outside"

\* The program's thread has no part in ASYNC_FUN_BODY.
MainReturns == thread[Main].pc \in InPipeline \cup {"outside"}

Inv == TypeOK /\ Outsiders /\ MainReturns /\ LockInv /\ AliveInv /\ PromptInv

-----------------------------------------------------------------------------
LEMMA InitHolds == Init => Inv
<1>. SUFFICES ASSUME Init PROVE Inv
  OBVIOUS
<1>1. \A t \in Thread : thread[t] = Outside
  BY DEF Init
<1>2. Main \in Thread /\ Worker \subseteq Thread
  BY DEF Thread
<1>3. TypeOK
  BY DEF Init, TypeOK, Outside
<1>4. \A o \in Obj, t \in Thread : ~Holds(t, o)
  BY <1>1 DEF Holds, Outside, InPipeline
<1>. QED
  BY <1>1, <1>2, <1>3, <1>4
     DEF Inv, Outsiders, MainReturns, LockInv, AliveInv, PromptInv, Outside, Init

-----------------------------------------------------------------------------
(* What threads do to each other: nothing. *)

\* A thread that goes on, or lets go of its object, disturbs nobody.
LEMMA MovesKeep ==
  ASSUME LockInv, AliveInv, NEW t \in Thread,
         \A u \in Thread \ {t} : thread'[u] = thread[u],
         \A o \in Obj : Holds(t, o)' => Holds(t, o),
         is_async_busy' = is_async_busy,
         \A o \in Obj : place[o] # "destroyed" => place'[o] # "destroyed"
  PROVE  LockInv' /\ AliveInv'
<1>1. \A u \in Thread, o \in Obj : Holds(u, o)' => Holds(u, o)
  BY DEF Holds
<1>2. LockInv'
  BY <1>1 DEF LockInv, Thread
<1>3. AliveInv'
  BY <1>1 DEF AliveInv
<1>. QED
  BY <1>2, <1>3

\* A thread that takes up an object nobody holds.
LEMMA TakesKeep ==
  ASSUME LockInv, AliveInv, NEW t \in Thread, NEW p \in Obj,
         \A u \in Thread \ {t} : thread'[u] = thread[u],
         thread'[t].obj = p,
         \A u \in Thread : ~Holds(u, p),
         Main \notin Worker,
         IF t = Main THEN is_async_busy' = is_async_busy /\ ~is_async_busy[p]
                     ELSE is_async_busy' = [is_async_busy EXCEPT ![p] = TRUE],
         is_async_busy \in [Obj -> BOOLEAN],
         place[p] # "destroyed", place' = place
  PROVE  LockInv' /\ AliveInv'
<1>1. \A u \in Thread, o \in Obj : Holds(u, o)' => Holds(u, o) \/ (u = t /\ o = p)
  BY DEF Holds
<1>2. \A o \in Obj \ {p} : is_async_busy'[o] = is_async_busy[o]
  BY DEF Thread
<1>3. LockInv'
  <2>. SUFFICES ASSUME NEW o \in Obj
                PROVE  /\ \A w \in Worker : Holds(w, o)' => is_async_busy'[o]
                       /\ \A w, v \in Worker : Holds(w, o)' /\ Holds(v, o)' => w = v
                       /\ Holds(Main, o)' => ~is_async_busy'[o]
    BY DEF LockInv
  <2>1. CASE o = p
    <3>1. \A u \in Thread : Holds(u, p)' => u = t
      BY <1>1
    <3>2. t = Main => ~is_async_busy'[p]
      OBVIOUS
    <3>3. t # Main => is_async_busy'[p]
      OBVIOUS
    <3>. QED
      BY <2>1, <3>1, <3>2, <3>3 DEF Thread
  <2>2. CASE o # p
    BY <2>2, <1>1, <1>2 DEF LockInv, Thread
  <2>. QED
    BY <2>1, <2>2
<1>4. AliveInv'
  BY <1>1 DEF AliveInv
<1>. QED
  BY <1>3, <1>4

\* An object's stream that is open stays in the hands of who speaks.
LEMMA SpeakersKeep ==
  ASSUME PromptInv, NEW t \in Thread,
         \A u \in Thread \ {t} : thread'[u] = thread[u],
         \A o \in Obj : is_prompt[o] => is_prompt'[o],
         \A o \in Obj : thread[t].obj = o /\ thread[t].pc \in Speaking =>
                            \/ is_prompt'[o]
                            \/ thread'[t].obj = o /\ thread'[t].pc \in Speaking
  PROVE  PromptInv'
  BY DEF PromptInv

-----------------------------------------------------------------------------
(* The program's calls. *)

\* What a thread is that has been called for an object.
LEMMA CalledFor ==
  ASSUME NEW pc \in {"start", "user_input"}, NEW o \in Obj, NEW taken \in BOOLEAN
  PROVE  LET r == [Outside EXCEPT !.pc = pc, !.obj = o, !.streamer = taken]
         IN  /\ r.pc = pc /\ r.obj = o
             /\ r \in [pc : InPipeline, obj : Obj, streamer : BOOLEAN, result : {0, -1}]
  BY DEF Outside, InPipeline

LEMMA CallKeeps ==
  ASSUME Inv, NEW o \in Obj, Call(o) PROVE Inv'
<1>. USE ChatApiAssumption DEF Inv
<1>. DEFINE r == [Outside EXCEPT !.pc = FirstStep[place[o]], !.obj = o,
                                 !.streamer = place[o] # "created"]
<1>1. Main \in Thread /\ thread' = [thread EXCEPT ![Main] = r] /\ thread[Main].pc = "outside"
  BY DEF Call, Calls, At, Thread
<1>2. place[o] \in {"created", "started"}
  BY DEF TypeOK, Call
<1>3. FirstStep[place[o]] \in {"start", "user_input"}
  BY <1>2 DEF FirstStep
<1>4. r.pc \in {"start", "user_input"} /\ r.obj = o
  BY <1>3, CalledFor
<1>5. r \in [pc : InPipeline, obj : Obj, streamer : BOOLEAN, result : {0, -1}]
  BY <1>3, CalledFor
<1>. HIDE DEF r
<1>7. TypeOK'
  BY <1>1, <1>5 DEF TypeOK, Call, flags
<1>8. thread'[Main] = r /\ \A u \in Thread \ {Main} : thread'[u] = thread[u]
  BY <1>1 DEF TypeOK
<1>9. Outsiders' /\ MainReturns'
  BY <1>8, <1>4, <1>5, <1>7 DEF Outsiders, MainReturns
<1>10. \A u \in Thread : ~Holds(u, o)
  BY <1>1 DEF Call, LockInv, Thread, Holds, InPipeline
<1>11. LockInv' /\ AliveInv'
  BY <1>1, <1>2, <1>4, <1>8, <1>10, TakesKeep DEF Call, flags, TypeOK
<1>12. PromptInv'
  BY <1>1, <1>8, SpeakersKeep DEF Call, flags, Speaking
<1>. QED
  BY <1>7, <1>9, <1>11, <1>12

LEMMA AsyncKeeps ==
  ASSUME Inv, NEW o \in Obj, NEW w \in Worker, Async(w, o) PROVE Inv'
<1>. USE ChatApiAssumption DEF Inv
<1>. DEFINE r == [Outside EXCEPT !.pc = FirstStep[place[o]], !.obj = o,
                                 !.streamer = place[o] # "created"]
<1>1. w \in Thread /\ w # Main /\ thread' = [thread EXCEPT ![w] = r] /\ thread[w].pc = "outside"
  BY DEF Async, Calls, At, Thread
<1>2. place[o] \in {"created", "started"}
  BY DEF TypeOK, Async
<1>3. FirstStep[place[o]] \in {"start", "user_input"}
  BY <1>2 DEF FirstStep
<1>4. r.pc \in {"start", "user_input"} /\ r.obj = o
  BY <1>3, CalledFor
<1>5. r \in [pc : InPipeline, obj : Obj, streamer : BOOLEAN, result : {0, -1}]
  BY <1>3, CalledFor
<1>. HIDE DEF r
<1>6. TypeOK'
  BY <1>1, <1>5 DEF TypeOK, Async
<1>7. thread'[w] = r /\ \A u \in Thread \ {w} : thread'[u] = thread[u]
  BY <1>1 DEF TypeOK
<1>8. Outsiders' /\ MainReturns'
  BY <1>1, <1>7, <1>4, <1>5, <1>6 DEF Outsiders, MainReturns, Thread
<1>9. \A u \in Thread : ~Holds(u, o)
  <2>1. ~Holds(Main, o)
    BY DEF Async, Quiet, Uses, Holds, MainReturns
  <2>. QED
    BY <2>1 DEF Async, LockInv, Thread
<1>10. LockInv' /\ AliveInv'
  BY <1>1, <1>2, <1>4, <1>7, <1>9, TakesKeep DEF Async, TypeOK
<1>11. PromptInv'
  BY <1>1, <1>7, SpeakersKeep DEF Async, Speaking
<1>. QED
  BY <1>6, <1>8, <1>10, <1>11

LEMMA AbortKeeps ==
  ASSUME Inv, NEW o \in Obj, Abort(o) PROVE Inv'
<1>1. TypeOK'
  BY DEF Inv, TypeOK, Abort, flags
<1>. QED
  BY <1>1 DEF Inv, Abort, flags, Outsiders, MainReturns, LockInv, AliveInv, PromptInv, Holds

LEMMA DestroyKeeps ==
  ASSUME Inv, NEW o \in Obj, Destroy(o) PROVE Inv'
<1>1. TypeOK'
  BY DEF Inv, TypeOK, Destroy, flags
<1>2. AliveInv'
  <2>1. \A t \in Thread : ~Holds(t, o)
    BY DEF Inv, Destroy, Quiet, Uses, Holds, MainReturns, LockInv, Thread
  <2>2. \A p \in Obj \ {o} : place'[p] = place[p]
    BY DEF Inv, TypeOK, Destroy
  <2>. QED
    BY <2>1, <2>2 DEF Inv, AliveInv, Destroy, Holds
<1>. QED
  BY <1>1, <1>2 DEF Inv, Destroy, flags, Outsiders, MainReturns, LockInv, PromptInv, Holds

-----------------------------------------------------------------------------
(* A call, on the program's thread or on a worker. *)

Places == InPipeline \cup {"outside", "store", "clear", "event", "told", "undefined"}

\* A thread that goes on within its call.
LEMMA GoesOn ==
  ASSUME TypeOK, NEW t \in Thread, NEW pc \in Places, Goes(t, pc)
  PROVE  /\ thread'[t].pc = pc /\ thread'[t].obj = thread[t].obj
         /\ \A u \in Thread \ {t} : thread'[u] = thread[u]
         /\ thread' \in [Thread -> [pc : Places, obj : Obj \cup {None},
                                   streamer : BOOLEAN, result : {0, -1}]]
  BY DEF Goes, TypeOK, Places

\* A thread whose call returns.
LEMMA ReturnsOn ==
  ASSUME TypeOK, NEW t \in Thread, NEW result \in {0, -1}, Returns(t, result)
  PROVE  /\ IF t = Main THEN thread'[t].pc = "outside" /\ thread'[t].obj = None
                        ELSE thread'[t].pc = "store" /\ thread'[t].obj = thread[t].obj
         /\ \A u \in Thread \ {t} : thread'[u] = thread[u]
         /\ thread' \in [Thread -> [pc : Places, obj : Obj \cup {None},
                                   streamer : BOOLEAN, result : {0, -1}]]
  BY ZenonT(40) DEF Returns, TypeOK, Places, Outside

\* Who is in a call has an object.
LEMMA HasObject ==
  ASSUME TypeOK, Outsiders, NEW t \in Thread, thread[t].pc # "outside"
  PROVE  thread[t].obj \in Obj
  BY DEF TypeOK, Outsiders

\* A step of a thread keeps the invariant if it leaves the busy flags alone, ends
\* no object, takes up none, and closes the stream it stops speaking through.
LEMMA ThreadKeeps ==
  ASSUME Inv, NEW t \in Thread, TypeOK',
         \A u \in Thread \ {t} : thread'[u] = thread[u],
         thread'[t].obj = None => thread'[t].pc = "outside",
         t = Main => thread'[t].pc \in InPipeline \cup {"outside"},
         thread'[t].pc \in InPipeline \cup {"store", "clear"} =>
             /\ thread'[t].obj = thread[t].obj
             /\ thread[t].pc \in InPipeline \cup {"store", "clear"},
         is_async_busy' = is_async_busy,
         \A o \in Obj : place[o] # "destroyed" => place'[o] # "destroyed",
         \A o \in Obj : is_prompt[o] => is_prompt'[o] \/ o = thread[t].obj,
         \A o \in Obj : ~is_prompt'[o] /\ o = thread[t].obj =>
             \/ thread'[t].pc \in Speaking /\ thread'[t].obj = o
             \/ is_prompt[o] = is_prompt'[o] /\ thread[t].pc \notin Speaking
  PROVE  Inv'
<1>1. Outsiders' /\ MainReturns'
  BY DEF Inv, Outsiders, MainReturns, Thread
<1>2. \A o \in Obj : Holds(t, o)' => Holds(t, o)
  BY DEF Holds
<1>3. LockInv' /\ AliveInv'
  BY <1>2, MovesKeep DEF Inv
<1>4. PromptInv'
  <2>. SUFFICES ASSUME NEW o \in Obj, ~is_prompt'[o]
                PROVE  \E u \in Thread : thread'[u].obj = o /\ thread'[u].pc \in Speaking
    BY DEF PromptInv
  <2>1. CASE is_prompt[o]
    BY <2>1
  <2>2. CASE ~is_prompt[o]
    <3>1. PICK u \in Thread : thread[u].obj = o /\ thread[u].pc \in Speaking
      BY <2>2 DEF Inv, PromptInv
    <3>. QED
      BY <3>1
  <2>. QED
    BY <2>1, <2>2
<1>. QED
  BY <1>1, <1>3, <1>4 DEF Inv

LEMMA StartKeeps ==
  ASSUME Inv, NEW t \in Thread, Start(t) PROVE Inv'
<1>. USE ChatApiAssumption
<1>. TypeOK /\ Outsiders
  BY DEF Inv
<1>1. thread[t].pc = "start" /\ thread[t].obj \in Obj
  BY HasObject DEF Start, At
<1>2. place' = [place EXCEPT ![thread[t].obj] = "started"] /\ next' = thread[t].obj
  BY DEF Start
<1>3. Returns(t, 0) /\ UNCHANGED <<is_prompt, is_async_busy, async_result, aborted, latest>>
  BY DEF Start, flags
<1>4. TypeOK'
  BY <1>1, <1>2, <1>3, ReturnsOn DEF TypeOK, Places
<1>5. \A o \in Obj : place[o] # "destroyed" => place'[o] # "destroyed"
  BY <1>2 DEF TypeOK
<1>. QED
  BY <1>1, <1>3, <1>4, <1>5, ReturnsOn, ThreadKeeps DEF Speaking, InPipeline

LEMMA UserInputKeeps ==
  ASSUME Inv, NEW t \in Thread, UserInput(t) PROVE Inv'
<1>. USE ChatApiAssumption
<1>. TypeOK /\ Outsiders
  BY DEF Inv
<1>1. thread[t].pc = "user_input" /\ thread[t].obj \in Obj
  BY HasObject DEF UserInput, At
<1>2. UNCHANGED <<is_prompt, is_async_busy, async_result, aborted, place, next, latest>>
  BY DEF UserInput, flags
<1>3. CASE Goes(t, "generate")
  <2>1. TypeOK'
    BY <1>2, <1>3, GoesOn DEF TypeOK, Places, InPipeline
  <2>. QED
    BY <1>1, <1>2, <1>3, <2>1, GoesOn, ThreadKeeps DEF Speaking, InPipeline, Places
<1>4. CASE Returns(t, -1)
  <2>1. TypeOK'
    BY <1>2, <1>4, ReturnsOn DEF TypeOK, Places
  <2>. QED
    BY <1>1, <1>2, <1>4, <2>1, ReturnsOn, ThreadKeeps DEF Speaking, InPipeline
<1>. QED
  BY <1>3, <1>4 DEF UserInput

LEMMA GenerateKeeps ==
  ASSUME Inv, NEW t \in Thread, Generate(t) PROVE Inv'
<1>. USE ChatApiAssumption
<1>. TypeOK /\ Outsiders
  BY DEF Inv
<1>1. thread[t].pc = "generate" /\ thread[t].obj \in Obj
  BY HasObject DEF Generate, At
<1>2. UNCHANGED <<is_prompt, is_async_busy, async_result, place, next, latest>> /\ Goes(t, "loop")
  BY DEF Generate, flags
<1>3. TypeOK'
  BY <1>1, <1>2, GoesOn DEF Generate, TypeOK, Places, InPipeline
<1>. QED
  BY <1>1, <1>2, <1>3, GoesOn, ThreadKeeps DEF Speaking, InPipeline, Places

LEMMA RunKeeps ==
  ASSUME Inv, NEW t \in Thread, Run(t) PROVE Inv'
<1>. USE ChatApiAssumption
<1>. TypeOK /\ Outsiders
  BY DEF Inv
<1>1. thread[t].pc = "loop" /\ thread[t].obj \in Obj
  BY HasObject DEF Run, At
<1>2. UNCHANGED <<is_prompt, is_async_busy, async_result, aborted, place, next, latest>> /\ Goes(t, "token")
  BY DEF Run, flags
<1>3. TypeOK'
  BY <1>1, <1>2, GoesOn DEF Run, TypeOK, Places, InPipeline
<1>. QED
  BY <1>1, <1>2, <1>3, GoesOn, ThreadKeeps DEF Speaking, InPipeline, Places

LEMMA PutKeeps ==
  ASSUME Inv, NEW t \in Thread, Put(t) PROVE Inv'
<1>. USE ChatApiAssumption
<1>. TypeOK /\ Outsiders
  BY DEF Inv
<1>1. thread[t].pc = "token" /\ thread[t].obj \in Obj
  BY HasObject DEF Put, At
<1>2. UNCHANGED <<is_async_busy, async_result, aborted, place, next, latest>>
  BY DEF Put
<1>3. CASE is_prompt' = [is_prompt EXCEPT ![thread[t].obj] = FALSE] /\ Goes(t, "loop")
  <2>1. TypeOK'
    BY <1>1, <1>2, <1>3, GoesOn DEF TypeOK, Places, InPipeline
  <2>2. \A o \in Obj : is_prompt[o] => is_prompt'[o] \/ o = thread[t].obj
    BY <1>3 DEF TypeOK
  <2>. QED
    BY <1>1, <1>2, <1>3, <2>1, <2>2, GoesOn, ThreadKeeps DEF Speaking, InPipeline, Places
<1>4. CASE Goes(t, "end") /\ UNCHANGED is_prompt
  <2>1. TypeOK'
    BY <1>1, <1>2, <1>4, GoesOn DEF TypeOK, Places, InPipeline
  <2>. QED
    BY <1>1, <1>2, <1>4, <2>1, GoesOn, ThreadKeeps DEF Speaking, InPipeline, Places
<1>. QED
  BY <1>3, <1>4 DEF Put

LEMMA LeaveKeeps ==
  ASSUME Inv, NEW t \in Thread, Leave(t) PROVE Inv'
<1>. USE ChatApiAssumption
<1>. TypeOK /\ Outsiders
  BY DEF Inv
<1>1. thread[t].pc = "loop" /\ thread[t].obj \in Obj
  BY HasObject DEF Leave, At
<1>2. UNCHANGED <<is_prompt, is_async_busy, async_result, aborted, place, next, latest>>
  BY DEF Leave, flags
<1>3. PICK pc \in {"end", "generate"} : Goes(t, pc)
  BY DEF Leave
<1>4. TypeOK'
  BY <1>1, <1>2, <1>3, GoesOn DEF TypeOK, Places, InPipeline
<1>. QED
  BY <1>1, <1>2, <1>3, <1>4, GoesOn, ThreadKeeps DEF Speaking, InPipeline, Places

LEMMA EndKeeps ==
  ASSUME Inv, NEW t \in Thread, End(t) PROVE Inv'
<1>. USE ChatApiAssumption
<1>. TypeOK /\ Outsiders
  BY DEF Inv
<1>1. thread[t].pc = "end" /\ thread[t].obj \in Obj
  BY HasObject DEF End, At
<1>2. UNCHANGED <<is_async_busy, async_result, aborted, place, next, latest>> /\ Goes(t, "answer")
  BY DEF End
<1>3. is_prompt' = [is_prompt EXCEPT ![next] = TRUE, ![thread[t].obj] = TRUE]
  BY DEF End
<1>4. is_prompt' \in [Obj -> BOOLEAN] /\ is_prompt'[thread[t].obj]
  BY <1>1, <1>3 DEF TypeOK
<1>5. \A o \in Obj : is_prompt[o] => is_prompt'[o]
  BY <1>1, <1>3 DEF TypeOK
<1>6. TypeOK'
  BY <1>1, <1>2, <1>4, GoesOn DEF TypeOK, Places, InPipeline
<1>. QED
  BY <1>1, <1>2, <1>4, <1>5, <1>6, GoesOn, ThreadKeeps DEF Speaking, InPipeline, Places

LEMMA AnswerKeeps ==
  ASSUME Inv, NEW t \in Thread, Answer(t) PROVE Inv'
<1>. USE ChatApiAssumption
<1>. TypeOK /\ Outsiders
  BY DEF Inv
<1>1. thread[t].pc = "answer" /\ thread[t].obj \in Obj
  BY HasObject DEF Answer, At
<1>2. UNCHANGED <<is_prompt, is_async_busy, async_result, aborted, place, next, latest>>
  BY DEF Answer, flags
<1>3. CASE Goes(t, "generate")
  <2>1. TypeOK'
    BY <1>2, <1>3, GoesOn DEF TypeOK, Places, InPipeline
  <2>. QED
    BY <1>1, <1>2, <1>3, <2>1, GoesOn, ThreadKeeps DEF Speaking, InPipeline, Places
<1>4. CASE \E result \in {0, -1} : Returns(t, result)
  <2>1. TypeOK'
    BY <1>2, <1>4, ReturnsOn DEF TypeOK, Places
  <2>. QED
    BY <1>1, <1>2, <1>4, <2>1, ReturnsOn, ThreadKeeps DEF Speaking, InPipeline
<1>. QED
  BY <1>3, <1>4 DEF Answer

-----------------------------------------------------------------------------
(* The thread of ASYNC_FUN_BODY behind its call. *)

LEMMA StoreResultKeeps ==
  ASSUME Inv, NEW t \in Thread, StoreResult(t) PROVE Inv'
<1>. USE ChatApiAssumption
<1>. TypeOK /\ Outsiders
  BY DEF Inv
<1>1. thread[t].pc = "store" /\ thread[t].obj \in Obj
  BY HasObject DEF StoreResult, At
<1>2. t # Main
  BY <1>1 DEF Inv, MainReturns, InPipeline
<1>3. UNCHANGED <<is_prompt, is_async_busy, aborted, place, next, latest>>
  BY DEF StoreResult, flags
<1>4. Goes(t, "clear") /\ async_result' = [async_result EXCEPT ![thread[t].obj] = thread[t].result]
  BY DEF StoreResult
<1>5. thread[t].result \in {0, -1}
  BY DEF TypeOK
<1>6. TypeOK'
  BY <1>1, <1>3, <1>4, <1>5, GoesOn DEF TypeOK, Places, InPipeline
<1>. QED
  BY <1>1, <1>2, <1>3, <1>4, <1>6, GoesOn, ThreadKeeps DEF Speaking, InPipeline, Places

LEMMA ClearBusyKeeps ==
  ASSUME Inv, NEW t \in Thread, ClearBusy(t) PROVE Inv'
<1>. USE ChatApiAssumption
<1>. TypeOK /\ Outsiders
  BY DEF Inv
<1>1. thread[t].pc = "clear" /\ thread[t].obj \in Obj
  BY HasObject DEF ClearBusy, At
<1>2. t # Main
  BY <1>1 DEF Inv, MainReturns, InPipeline
<1>3. UNCHANGED <<is_prompt, async_result, aborted, place, next, latest>>
  BY DEF ClearBusy, flags
<1>4. Goes(t, "event") /\ is_async_busy' = [is_async_busy EXCEPT ![thread[t].obj] = FALSE]
  BY DEF ClearBusy
<1>5. TypeOK'
  BY <1>1, <1>3, <1>4, GoesOn DEF TypeOK, Places, InPipeline
<1>6. /\ thread'[t].pc = "event" /\ thread'[t].obj = thread[t].obj
      /\ \A u \in Thread \ {t} : thread'[u] = thread[u]
  BY <1>4, GoesOn DEF Places
<1>7. Outsiders' /\ MainReturns'
  BY <1>1, <1>2, <1>6 DEF Inv, Outsiders, MainReturns, Thread
<1>8. \A u \in Thread, o \in Obj : Holds(u, o)' => Holds(u, o) /\ u # t
  BY <1>6 DEF Holds, InPipeline
<1>9. PICK p \in Obj : p = thread[t].obj
  BY <1>1
<1>10. \A u \in Thread : ~Holds(u, p)'
  <2>1. Holds(t, p) /\ t \in Worker
    BY <1>1, <1>2, <1>9 DEF Holds, Thread
  <2>2. \A u \in Thread : Holds(u, p) => u = t
    BY <2>1 DEF Inv, LockInv, Thread
  <2>. QED
    BY <2>2, <1>8
<1>11. LockInv'
  <2>1. \A o \in Obj : o # p => is_async_busy'[o] = is_async_busy[o]
    BY <1>4, <1>9 DEF TypeOK
  <2>2. ~is_async_busy'[p]
    BY <1>4, <1>9 DEF TypeOK
  <2>. QED
    BY <2>1, <2>2, <1>8, <1>10 DEF Inv, LockInv, Thread
<1>12. AliveInv'
  BY <1>3, <1>8 DEF Inv, AliveInv
<1>13. PromptInv'
  BY <1>1, <1>3, <1>6, SpeakersKeep DEF Inv, Speaking
<1>. QED
  BY <1>5, <1>7, <1>11, <1>12, <1>13 DEF Inv

LEMMA PutEventKeeps ==
  ASSUME Inv, NEW t \in Thread, PutEvent(t) PROVE Inv'
<1>. USE ChatApiAssumption
<1>. TypeOK /\ Outsiders
  BY DEF Inv
<1>1. thread[t].pc = "event" /\ thread[t].obj \in Obj
  BY HasObject DEF PutEvent, At
<1>2. t # Main
  BY <1>1 DEF Inv, MainReturns, InPipeline
<1>3. UNCHANGED <<is_prompt, is_async_busy, async_result, aborted, place, next, latest>>
  BY DEF PutEvent, flags
<1>4. PICK pc \in {"told", "undefined"} : Goes(t, pc)
  BY DEF PutEvent
<1>5. TypeOK'
  BY <1>1, <1>3, <1>4, GoesOn DEF TypeOK, Places, InPipeline
<1>. QED
  BY <1>1, <1>2, <1>3, <1>4, <1>5, GoesOn, ThreadKeeps DEF Speaking, InPipeline, Places

LEMMA FinishKeeps ==
  ASSUME Inv, NEW t \in Thread, Finish(t) PROVE Inv'
<1>. USE ChatApiAssumption
<1>. TypeOK /\ Outsiders
  BY DEF Inv
<1>1. thread[t].pc = "told" /\ thread' = [thread EXCEPT ![t] = Outside]
  BY DEF Finish, At
<1>2. UNCHANGED <<is_prompt, is_async_busy, async_result, aborted, place, next>>
  BY DEF Finish, flags
<1>3. thread'[t] = Outside /\ \A u \in Thread \ {t} : thread'[u] = thread[u]
  BY <1>1 DEF TypeOK
<1>4. thread'[t].pc = "outside" /\ thread'[t].obj = None
  BY <1>3 DEF Outside
<1>5. TypeOK'
  BY <1>1, <1>2 DEF Finish, TypeOK, Outside
<1>. QED
  BY <1>1, <1>2, <1>3, <1>4, <1>5, ThreadKeeps DEF Speaking, InPipeline

-----------------------------------------------------------------------------
(* The theorems. *)

LEMMA StepHolds == Inv /\ [Next]_vars => Inv'
<1>. SUFFICES ASSUME Inv, [Next]_vars PROVE Inv'
  OBVIOUS
<1>1. CASE UNCHANGED vars
  BY <1>1 DEF vars, flags, Inv, TypeOK, Outsiders, MainReturns, LockInv, AliveInv, PromptInv, Holds
<1>2. CASE \E o \in Obj : Call(o) \/ Abort(o) \/ Destroy(o)
  BY <1>2, CallKeeps, AbortKeeps, DestroyKeeps
<1>3. CASE \E o \in Obj, w \in Worker : Async(w, o)
  BY <1>3, AsyncKeeps
<1>4. CASE \E t \in Thread : Step(t)
  BY <1>4, StartKeeps, UserInputKeeps, GenerateKeeps, RunKeeps, PutKeeps, LeaveKeeps, EndKeeps,
     AnswerKeeps, StoreResultKeeps, ClearBusyKeeps, PutEventKeeps, FinishKeeps DEF Step
<1>. QED
  BY <1>1, <1>2, <1>3, <1>4 DEF Next

LEMMA Invariance == Spec => []Inv
  BY InitHolds, StepHolds, PTL DEF Spec

\* Every variable has its type, however many objects and threads there are.
THEOREM TypeCorrect == Spec => []TypeOK
<1>1. Inv => TypeOK
  BY DEF Inv
<1>. QED
  BY <1>1, Invariance, PTL

\* No two threads are in the pipeline of one object: the busy flag keeps detached
\* threads from each other and from the program's.
THEOREM ThreadsAreKeptApart == Spec => []OneThreadAtATime
<1>1. Inv => OneThreadAtATime
  BY DEF Inv, LockInv, Holds, OneThreadAtATime, Uses, Thread
<1>. QED
  BY <1>1, Invariance, PTL

\* chatllm_destroy takes no object from a thread that works on it.
THEOREM WorkersAreSafe == Spec => []WorkingIsAlive
<1>1. Inv => WorkingIsAlive
  BY DEF Inv, AliveInv, Holds, WorkingIsAlive, Uses
<1>. QED
  BY <1>1, Invariance, PTL

\* A user's input that was let in is answered: nobody else's stream is open.
THEOREM InputIsNotRefused == Spec => []AcceptedIsRun
<1>1. Inv => AcceptedIsRun
  <2>. SUFFICES ASSUME Inv, NEW t \in Thread, thread[t].pc = "user_input"
                PROVE  is_prompt[thread[t].obj]
    BY DEF AcceptedIsRun, At
  <2>. TypeOK /\ Outsiders
    BY DEF Inv
  <2>1. thread[t].obj \in Obj
    BY HasObject
  <2>2. \A u \in Thread : thread[u].obj = thread[t].obj /\ thread[u].pc \in Speaking => u = t
    BY <2>1 DEF Inv, LockInv, Holds, Speaking, InPipeline, Thread
  <2>. QED
    BY <2>1, <2>2 DEF Inv, PromptInv, Speaking
<1>. QED
  BY <1>1, Invariance, PTL

-----------------------------------------------------------------------------
(* What the completion event promises. *)

\* The worker that holds an object is its latest; the result of the latest stays
\* until there is another, and so does the flag that it has cleared.
LatestInv ==
    \A o \in Obj, w \in Worker :
        /\ Holds(w, o) => latest[o] = w
        /\ latest[o] = w /\ thread[w].obj = o =>
              /\ thread[w].pc \in {"clear", "event", "told"} =>
                    async_result[o] = thread[w].result
              /\ thread[w].pc \in {"event", "told"} => ~is_async_busy[o]

\* The steps within a call do not touch any of this.
LEMMA LatestStays ==
  ASSUME LatestInv, NEW t \in Thread,
         \A u \in Thread \ {t} : thread'[u] = thread[u],
         \A o \in Obj : Holds(t, o)' => Holds(t, o),
         thread'[t].pc \in {"clear", "event", "told"} =>
             /\ thread[t].pc \in {"event", "told"}
             /\ thread'[t].obj = thread[t].obj /\ thread'[t].result = thread[t].result,
         UNCHANGED <<is_async_busy, async_result, latest>>
  PROVE  LatestInv'
<1>1. \A u \in Thread, o \in Obj : Holds(u, o)' => Holds(u, o)
  BY DEF Holds
<1>. QED
  BY <1>1 DEF LatestInv, Thread

LEMMA InitLatest == Init => LatestInv
  BY DEF Init, LatestInv, Holds, Outside, InPipeline, Thread

LEMMA StepLatest ==
  ASSUME Inv, Inv', LatestInv, [Next]_vars PROVE LatestInv'
<1>. USE ChatApiAssumption
<1>. TypeOK /\ Outsiders
  BY DEF Inv
<1>1. CASE UNCHANGED vars
  BY <1>1 DEF vars, flags, LatestInv, Holds
<1>2. ASSUME NEW o \in Obj, Call(o) PROVE LatestInv'
  BY <1>2 DEF Call, Calls, At, flags, LatestInv, Holds, Thread, TypeOK
<1>3. ASSUME NEW o \in Obj, Abort(o) \/ Destroy(o) PROVE LatestInv'
  BY <1>3 DEF Abort, Destroy, flags, LatestInv, Holds
<1>4. ASSUME NEW p \in Obj, NEW v \in Worker, Async(v, p) PROVE LatestInv'
  <2>. DEFINE r == [Outside EXCEPT !.pc = FirstStep[place[p]], !.obj = p,
                                   !.streamer = place[p] # "created"]
  <2>1. v \in Thread /\ thread' = [thread EXCEPT ![v] = r] /\ thread[v].pc = "outside"
    BY <1>4 DEF Async, Calls, At, Thread
  <2>2. FirstStep[place[p]] \in {"start", "user_input"}
    BY <1>4 DEF Async, TypeOK, FirstStep
  <2>3. r.pc \in {"start", "user_input"} /\ r.obj = p
    BY <2>2, CalledFor
  <2>. HIDE DEF r
  <2>4. thread'[v] = r /\ \A u \in Thread \ {v} : thread'[u] = thread[u]
    BY <2>1 DEF TypeOK
  <2>5. /\ latest'[p] = v /\ \A o \in Obj \ {p} : latest'[o] = latest[o]
        /\ \A o \in Obj \ {p} : is_async_busy'[o] = is_async_busy[o]
        /\ is_async_busy'[p] /\ async_result' = async_result
    BY <1>4 DEF Async, TypeOK
  <2>6. \A w \in Worker \ {v} : ~Holds(w, p)'
    BY <1>4, <2>4 DEF Async, Holds, Inv, LockInv, Thread
  <2>. SUFFICES ASSUME NEW o \in Obj, NEW w \in Worker
                PROVE  /\ Holds(w, o)' => latest'[o] = w
                       /\ latest'[o] = w /\ thread'[w].obj = o =>
                             /\ thread'[w].pc \in {"clear", "event", "told"} =>
                                   async_result'[o] = thread'[w].result
                             /\ thread'[w].pc \in {"event", "told"} => ~is_async_busy'[o]
    BY DEF LatestInv
  <2>7. CASE w = v
    BY <2>7, <2>3, <2>4, <2>5 DEF Holds
  <2>8. CASE w # v
    <3>1. thread'[w] = thread[w] /\ (Holds(w, o)' => Holds(w, o) /\ o # p)
      BY <2>8, <2>4, <2>6 DEF Holds, Thread
    <3>. QED
      BY <2>8, <3>1, <2>5 DEF LatestInv
  <2>. QED
    BY <2>7, <2>8
<1>5. ASSUME NEW t \in Thread, Step(t) PROVE LatestInv'
  <2>1. thread[t].pc \in Places /\ (thread[t].pc # "outside" => thread[t].obj \in Obj)
    BY HasObject DEF TypeOK, Places
  <2>2. ASSUME NEW pc \in Places, Goes(t, pc)
        PROVE  /\ thread'[t].pc = pc /\ thread'[t].obj = thread[t].obj
               /\ thread'[t].result = thread[t].result
               /\ \A u \in Thread \ {t} : thread'[u] = thread[u]
    BY <2>2 DEF Goes, TypeOK
  <2>3. ASSUME NEW pc \in InPipeline, Goes(t, pc), thread[t].pc \in InPipeline,
               UNCHANGED <<is_async_busy, async_result, latest>>
        PROVE  LatestInv'
    BY <2>2, <2>3, LatestStays DEF Holds, InPipeline, Places
  <2>4. ASSUME NEW result \in {0, -1}, Returns(t, result), thread[t].pc \in InPipeline,
               UNCHANGED <<is_async_busy, async_result, latest>>
        PROVE  LatestInv'
    BY <2>1, <2>4, ReturnsOn, LatestStays DEF Holds, InPipeline
  <2>5. CASE Start(t)
    BY <2>5, <2>4 DEF Start, At, flags, InPipeline
  <2>6. CASE UserInput(t)
    BY <2>6, <2>3, <2>4 DEF UserInput, At, flags, InPipeline
  <2>7. CASE Generate(t) \/ Run(t) \/ Put(t) \/ Leave(t) \/ End(t)
    BY <2>7, <2>3 DEF Generate, Run, Put, Leave, End, At, flags, InPipeline
  <2>8. CASE Answer(t)
    BY <2>8, <2>3, <2>4 DEF Answer, At, flags, InPipeline
  <2>9. CASE StoreResult(t) \/ ClearBusy(t)
    <3>1. thread[t].pc \in {"store", "clear"} /\ t \in Worker /\ thread[t].obj \in Obj
      BY <2>9, <2>1 DEF StoreResult, ClearBusy, At, Inv, MainReturns, InPipeline, Thread
    <3>2. PICK p \in Obj : p = thread[t].obj
      BY <3>1
    <3>3. Holds(t, p) /\ \A w \in Worker : Holds(w, p) => w = t
      BY <3>1, <3>2 DEF Holds, Inv, LockInv
    <3>4. latest' = latest /\ latest[p] = t
      BY <2>9, <3>1, <3>3 DEF StoreResult, ClearBusy, LatestInv
    <3>5. \A o \in Obj \ {p} : /\ async_result'[o] = async_result[o]
                               /\ is_async_busy'[o] = is_async_busy[o]
      BY <2>9, <3>2 DEF StoreResult, ClearBusy, TypeOK
    <3>6. CASE StoreResult(t)
      <4>1. /\ thread'[t].pc = "clear" /\ thread'[t].obj = p
            /\ thread'[t].result = thread[t].result
            /\ \A u \in Thread \ {t} : thread'[u] = thread[u]
        BY <3>2, <3>6, <2>2 DEF StoreResult, Places
      <4>2. async_result'[p] = thread[t].result
        BY <3>2, <3>6 DEF StoreResult, TypeOK
      <4>. QED
        BY <3>1, <3>3, <3>4, <3>5, <4>1, <4>2 DEF LatestInv, Holds, Thread
    <3>7. CASE ClearBusy(t)
      <4>1. /\ thread'[t].pc = "event" /\ thread'[t].obj = p
            /\ thread'[t].result = thread[t].result /\ thread[t].pc = "clear"
            /\ \A u \in Thread \ {t} : thread'[u] = thread[u]
        BY <3>2, <3>7, <2>2 DEF ClearBusy, At, Places
      <4>2. ~is_async_busy'[p] /\ async_result' = async_result
        BY <3>2, <3>7 DEF ClearBusy, TypeOK
      <4>. QED
        BY <3>1, <3>2, <3>3, <3>4, <3>5, <4>1, <4>2 DEF LatestInv, Holds, Thread, InPipeline
    <3>. QED
      BY <2>9, <3>6, <3>7
  <2>10. CASE PutEvent(t)
    <3>1. PICK pc \in {"told", "undefined"} : Goes(t, pc)
      BY <2>10 DEF PutEvent
    <3>2. thread[t].pc = "event" /\ UNCHANGED <<is_async_busy, async_result, latest>>
      BY <2>10 DEF PutEvent, At, flags
    <3>. QED
      BY <3>1, <3>2, <2>2, LatestStays DEF Holds, InPipeline, Places
  <2>11. CASE Finish(t)
    <3>1. thread'[t] = Outside /\ \A u \in Thread \ {t} : thread'[u] = thread[u]
      BY <2>11 DEF Finish, TypeOK
    <3>2. Outside.pc = "outside" /\ Outside.obj = None
      BY DEF Outside
    <3>3. \A o \in Obj : latest'[o] = IF latest[o] = t THEN None ELSE latest[o]
      BY <2>11 DEF Finish
    <3>4. is_async_busy' = is_async_busy /\ async_result' = async_result
      BY <2>11 DEF Finish, flags
    <3>. QED
      BY <3>1, <3>2, <3>3, <3>4 DEF LatestInv, Holds, Thread, InPipeline
  <2>. QED
    BY <1>5, <2>5, <2>6, <2>7, <2>8, <2>9, <2>10, <2>11 DEF Step
<1>. QED
  BY <1>1, <1>2, <1>3, <1>4, <1>5 DEF Next

\* Who is told that the last asynchronous call has completed finds its result, and
\* an object that takes the next call.
THEOREM ToldIsReady == Spec => []ReadyWhenTold
<1>1. Inv /\ LatestInv => ReadyWhenTold
  <2>. SUFFICES ASSUME Inv, LatestInv, NEW w \in Worker, thread[w].pc = "told",
                       latest[thread[w].obj] = w, Quiet(thread[w].obj)
                PROVE  /\ ~is_async_busy[thread[w].obj] /\ is_prompt[thread[w].obj]
                       /\ async_result[thread[w].obj] = thread[w].result
    BY DEF ReadyWhenTold, At
  <2>1. w \in Thread /\ thread[w].obj \in Obj
    BY HasObject DEF Inv, Thread
  <2>2. ~is_async_busy[thread[w].obj] /\ async_result[thread[w].obj] = thread[w].result
    BY <2>1 DEF LatestInv
  <2>3. ASSUME NEW t \in Thread, thread[t].obj = thread[w].obj, thread[t].pc \in Speaking
        PROVE  FALSE
    BY <2>1, <2>2, <2>3
       DEF Quiet, Uses, Speaking, InPipeline, Inv, LockInv, Holds, Thread
  <2>. QED
    BY <2>1, <2>2, <2>3 DEF Inv, PromptInv
<1>2. Spec => [](Inv /\ LatestInv)
  <2>1. Inv /\ LatestInv /\ [Next]_vars => (Inv /\ LatestInv)'
    BY StepHolds, StepLatest
  <2>. QED
    BY <2>1, InitHolds, InitLatest, PTL DEF Spec
<1>. QED
  BY <1>1, <1>2, PTL
-----------------------------------------------------------------------------
(* An abort that reaches the loop of generate.                              *)

\* Thread t is inside of the loop, and its object has been told to abort.
AbortedLoop(t) == thread[t].pc \in {"loop", "token"} /\ aborted[thread[t].obj]

\* What becomes of it: it ends its answer, or is still to do so, at most one step
\* nearer to the guard that makes it.
Obeys(t) ==
    \/ thread'[t].pc = "end"
    \/ /\ AbortedLoop(t)'
       /\ thread'[t].obj = thread[t].obj
       /\ thread'[t].pc # thread[t].pc => thread'[t].pc = "loop"
       /\ Step(t) => thread'[t].pc # thread[t].pc

\* Another thread that forgets an abort does so for an object of its own.
LEMMA OthersForgetTheirs ==
    ASSUME Inv, NEW t \in Thread, NEW u \in Thread \ {t}, thread[t].pc \in InPipeline,
           thread[u].pc \in InPipeline
    PROVE  thread[u].obj # thread[t].obj
<1>1. thread[t].obj \in Obj /\ thread[u].obj \in Obj
  BY HasObject DEF Inv, InPipeline
<1>2. SUFFICES ASSUME thread[u].obj = thread[t].obj PROVE FALSE
  OBVIOUS
<1>3. Holds(t, thread[t].obj) /\ Holds(u, thread[t].obj)
  BY <1>2 DEF Holds
<1>. QED BY <1>1, <1>3 DEF Inv, LockInv, Thread

LEMMA AbortedObeys ==
    ASSUME Inv, [Next]_vars, NEW t \in Thread, AbortedLoop(t)
    PROVE  Obeys(t)
<1>1. /\ thread[t].pc \in {"loop", "token"} /\ thread[t].obj \in Obj
      /\ aborted[thread[t].obj] /\ aborted \in [Obj -> BOOLEAN]
  BY HasObject DEF Inv, TypeOK, AbortedLoop
<1>2. ASSUME thread'[t] = thread[t], ~Step(t), aborted'[thread[t].obj]
      PROVE  Obeys(t)
  BY <1>1, <1>2 DEF Obeys, AbortedLoop
<1>3. Step(t) => thread'[t].pc = "end" \/ (thread'[t].pc = "loop" /\ thread[t].pc = "token"
                                          /\ thread'[t].obj = thread[t].obj
                                          /\ aborted' = aborted)
  <2>1. thread \in [Thread -> [pc : Places, obj : Obj \cup {None}, streamer : BOOLEAN,
                               result : {0, -1}]]
    BY DEF Inv, TypeOK, Places
  <2>2. Step(t) => Put(t) \/ Leave(t)
    BY <1>1 DEF Step, At, Start, UserInput, Generate, Run, End, Answer, StoreResult,
                ClearBusy, PutEvent, Finish
  <2>3. ASSUME Put(t)
        PROVE  /\ thread[t].pc = "token" /\ aborted' = aborted
               /\ Goes(t, "loop") \/ Goes(t, "end")
    BY <2>3 DEF Put, At
  <2>4. ASSUME Leave(t) PROVE Goes(t, "end")
    BY <1>1, <2>4 DEF Leave
  <2>5. ASSUME NEW pc \in Places, Goes(t, pc)
        PROVE  thread'[t].pc = pc /\ thread'[t].obj = thread[t].obj
    BY <2>1, <2>5 DEF Goes
  <2>. QED BY <2>2, <2>3, <2>4, <2>5 DEF Places, InPipeline
<1>4. CASE Step(t)
  BY <1>1, <1>3, <1>4 DEF Obeys, AbortedLoop
<1>5. CASE ~Step(t)
  <2>1. ASSUME NEW o \in Obj, Call(o) \/ Abort(o) \/ Destroy(o) PROVE Obeys(t)
    <3>1. thread'[t] = thread[t]
      <4>1. Call(o) => t # Main
        BY <1>1 DEF Call, At
      <4>. QED BY <2>1, <4>1 DEF Call, Calls, Abort, Destroy, Inv, TypeOK
    <3>2. aborted'[thread[t].obj]
      BY <1>1, <2>1 DEF Call, Abort, Destroy
    <3>. QED BY <1>2, <1>5, <3>1, <3>2
  <2>2. ASSUME NEW o \in Obj, NEW w \in Worker, Async(w, o) PROVE Obeys(t)
    <3>1. t # w
      BY <1>1, <2>2 DEF Async, At
    <3>. QED BY <1>1, <1>2, <1>5, <2>2, <3>1 DEF Async, Calls, Inv, TypeOK
  <2>3. ASSUME NEW u \in Thread, Step(u) PROVE Obeys(t)
    <3>1. u # t
      BY <1>5, <2>3
    <3>2. thread'[t] = thread[t]
      BY <2>3, <3>1 DEF Step, Start, UserInput, Generate, Run, Put, Leave, End, Answer,
                        StoreResult, ClearBusy, PutEvent, Finish, Goes, Returns, Inv, TypeOK
    <3>3. aborted'[thread[t].obj]
      <4>1. CASE Generate(u)
        <5>1. thread[u].obj # thread[t].obj
          BY <1>1, <3>1, <4>1, OthersForgetTheirs DEF Generate, At, InPipeline
        <5>. QED BY <1>1, <4>1, <5>1 DEF Generate
      <4>2. CASE ~Generate(u)
        <5>1. aborted' = aborted
          BY <2>3, <4>2 DEF Step, Start, UserInput, Run, Put, Leave, End, Answer,
                            StoreResult, ClearBusy, PutEvent, Finish
        <5>. QED BY <1>1, <5>1
      <4>. QED BY <4>1, <4>2
    <3>. QED BY <1>2, <1>5, <3>2, <3>3
  <2>4. CASE UNCHANGED vars
    BY <1>1, <1>2, <1>5, <2>4 DEF vars
  <2>. QED BY <2>1, <2>2, <2>3, <2>4 DEF Next
<1>. QED BY <1>4, <1>5

\* An abort that reaches a thread inside of generate's loop is not lost, whatever
\* the other threads call, destroy or abort: the thread takes at most two more
\* steps, the second of which ends its answer.  With this AbortEnds needs no more
\* than that the thread goes on.
THEOREM AbortsAreObeyed == Spec => [][\A t \in Thread : AbortedLoop(t) => Obeys(t)]_vars
<1>1. Inv /\ [Next]_vars => [\A t \in Thread : AbortedLoop(t) => Obeys(t)]_vars
  BY AbortedObeys
<1>. QED BY <1>1, Invariance, PTL DEF Spec
=============================================================================
