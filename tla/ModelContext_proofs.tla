------------------------- MODULE ModelContext_proofs -------------------------
(***************************************************************************)
(* Theorems about ModelContext, for every vocabulary, cache length, batch  *)
(* size and set of prompts.                                                *)
(***************************************************************************)
EXTENDS ModelContext, SequenceTheorems, TLAPS

-----------------------------------------------------------------------------
(* The types of the operators on cache rows. *)

CacheRows == [Rows -> Token \cup {Empty}]

LEMMA WrittenType ==
    ASSUME NEW c \in CacheRows, NEW p \in Nat, NEW ids \in Seq(Token)
    PROVE  Written(c, p, ids) \in CacheRows
BY ModelContextAssumption DEF Written, CacheRows, Rows

LEMMA ShiftedType ==
    ASSUME NEW c \in CacheRows, NEW s \in Shift
    PROVE  Shifted(c, s) \in CacheRows
BY ModelContextAssumption DEF Shifted, CacheRows, Rows, Shift

\* What a run is given, when the position in the prompt is valid.
LEMMA RunIdsType ==
    ASSUME curr_input_ids \in Seq(Token), fed \in Nat, fed <= Len(curr_input_ids),
           aborted \in BOOLEAN
    PROVE  /\ Remain \in Nat /\ RunLength \in Nat /\ RunLength <= Remain
           /\ fed + RunLength <= Len(curr_input_ids)
           /\ RunIds \in Seq(Token) /\ Len(RunIds) = RunLength
           /\ \A i \in 1 .. RunLength : RunIds[i] = curr_input_ids[fed + i]
<1>1. /\ Remain \in Nat /\ RunLength \in Nat /\ RunLength <= Remain
      /\ fed + RunLength <= Len(curr_input_ids)
  BY ModelContextAssumption DEF Remain, RunLength
<1>2. /\ RunIds \in Seq(Token) /\ Len(RunIds) = RunLength
      /\ \A i \in 1 .. RunLength : RunIds[i] = curr_input_ids[fed + i]
  BY <1>1 DEF RunIds
<1>. QED BY <1>1, <1>2

-----------------------------------------------------------------------------
(* Type correctness.  TypeOK alone is not inductive: that n_past stays in   *)
(* the cache after a run needs the bound tested at the head of the loop to  *)
(* be still true when the run ends.                                         *)

TypeInv ==
    /\ TypeOK
    /\ pc = "feed" => /\ fed <= Len(curr_input_ids)
                      /\ n_past + Len(curr_input_ids) < MaxLength

LEMMA TypeInit == Init => TypeInv
BY ModelContextAssumption DEF Init, TypeInv, TypeOK, Rows, Shift, NoShift

LEMMA RunModelType ==
    ASSUME TypeInv, pc = "feed", RunModel
    PROVE  /\ cache' \in CacheRows /\ shift_pending' \in Shift
           /\ initial_run' \in BOOLEAN /\ NextPast \in Nat
           /\ PastAfterRun \in 0 .. n_past
<1>. USE DEF TypeInv, TypeOK
<1>1. RunIds \in Seq(Token) /\ RunLength \in Nat
  BY RunIdsType
<1>2. cache \in CacheRows /\ Shifted(cache, shift_pending) \in CacheRows
  BY ShiftedType DEF CacheRows
<1>3. cache' \in CacheRows
  BY <1>1, <1>2, WrittenType DEF RunModel
<1>4. shift_pending' \in Shift
  BY ModelContextAssumption DEF RunModel, Shift
<1>. QED BY <1>1, <1>3, <1>4 DEF RunModel, NextPast, PastAfterRun

LEMMA TypeStep == TypeInv /\ [Next]_vars => TypeInv'
<1>. SUFFICES ASSUME TypeInv, [Next]_vars PROVE TypeInv'
  OBVIOUS
<1>. USE ModelContextAssumption DEF TypeInv, TypeOK
<1>1. ASSUME NEW ids \in Prompts, NEW continuous \in BOOLEAN, NEW max_new \in MaxNews,
             Generate(ids, continuous, max_new)
      PROVE  TypeInv'
  <2>1. ids \in Seq(Token) /\ Len(ids) \in Nat /\ max_new \in Int
    OBVIOUS
  <2>2. n_past' \in 0 .. MaxLength /\ n_past_offset' \in Nat
    BY <1>1 DEF Generate
  <2>3. gen_max_tokens' \in Nat
    BY <1>1, <2>1, <2>2 DEF Generate
  <2>4. initial_run' \in BOOLEAN /\ aborted' \in BOOLEAN /\ completed' \in BOOLEAN
    BY <1>1 DEF Generate
  <2>. QED BY <1>1, <2>1, <2>2, <2>3, <2>4 DEF Generate
<1>2. CASE EnterLoop
  BY <1>2 DEF EnterLoop, LoopGuard, modelVars
<1>3. CASE LeaveLoop
  BY <1>3 DEF LeaveLoop, modelVars
<1>4. CASE RunBatch
  <2>1. /\ cache' \in CacheRows /\ shift_pending' \in Shift
        /\ initial_run' \in BOOLEAN /\ NextPast \in Nat
        /\ PastAfterRun \in 0 .. n_past
    BY <1>4, RunModelType DEF RunBatch
  <2>2. fed' \in Nat /\ fed' <= Len(curr_input_ids)
    BY <1>4, RunIdsType DEF RunBatch
  <2>. QED BY <1>4, <2>1, <2>2 DEF RunBatch, CacheRows
<1>5. CASE RunLast
  <2>1. /\ cache' \in CacheRows /\ shift_pending' \in Shift
        /\ initial_run' \in BOOLEAN /\ NextPast \in Nat
        /\ PastAfterRun \in 0 .. n_past
    BY <1>5, RunModelType DEF RunLast
  <2>2. fed' \in Nat /\ fed' <= Len(curr_input_ids)
    BY <1>5, RunIdsType DEF RunLast
  <2>3. n_past' \in 0 .. MaxLength
    BY <1>5, <2>1 DEF RunLast, Fed
  <2>4. curr_input_ids' \in Seq(Token) /\ completed' \in BOOLEAN
        /\ pc' \in {"loop", "sample"}
    BY <1>5 DEF RunLast
  <2>. QED BY <1>5, <2>1, <2>2, <2>3, <2>4 DEF RunLast, CacheRows
<1>6. CASE RunOutside
  BY <1>6 DEF RunOutside, modelVars
<1>7. CASE RunNoMemory
  BY <1>7 DEF RunNoMemory, PastAfterRun, Shift
<1>8. CASE ReserveNoMemory
  <2>1. n_past' \in 0 .. MaxLength
    BY <1>8, RunIdsType DEF ReserveNoMemory
  <2>2. initial_run' \in BOOLEAN /\ aborted' \in BOOLEAN /\ completed' \in BOOLEAN
    BY <1>8 DEF ReserveNoMemory
  <2>. QED BY <1>8, <2>1, <2>2, SMTT(40) DEF ReserveNoMemory, Shift
<1>9. ASSUME NEW t \in Token, Sample(t) PROVE TypeInv'
  BY <1>9 DEF Sample, LimitReached, modelVars
<1>10. CASE SampleNothing
  BY <1>10 DEF SampleNothing, modelVars
<1>11. ASSUME NEW n \in 0 .. MaxLength, Rewind(n) PROVE TypeInv'
  BY <1>11 DEF Rewind, callVars
<1>12. ASSUME NEW keep \in Keeps, ShiftMemory(keep) PROVE TypeInv'
  BY <1>12 DEF ShiftMemory, callVars, Shift
<1>13. CASE SaveSession
  BY <1>13 DEF SaveSession, modelVars, callVars, Session
<1>14. CASE LoadSession
  BY <1>14 DEF LoadSession, callVars, Session
<1>15. CASE Exec
  <2>1. initial_run' \in BOOLEAN /\ aborted' \in BOOLEAN /\ completed' \in BOOLEAN
    BY <1>15 DEF Exec
  <2>2. cache' \in [Rows -> Token \cup {Empty}] /\ shift_pending' \in Shift
    BY <1>15 DEF Exec, Shift, NoShift
  <2>. QED BY <1>15, <2>1, <2>2 DEF Exec
<1>16. CASE Abort
  BY <1>16 DEF Abort, modelVars, callVars
<1>17. CASE UNCHANGED vars
  BY <1>17 DEF vars, modelVars, callVars
<1>. QED BY <1>1, <1>2, <1>3, <1>4, <1>5, <1>6, <1>7, <1>8, <1>9, <1>10, <1>11,
            <1>12, <1>13, <1>14, <1>15, <1>16, <1>17 DEF Next, Call, Step, Run

\* Type correctness of the model and its cache counters, whatever the pipeline
\* calls and whatever memory is short: in particular n_past, which shift_memory,
\* load_session and the first run all write, never passes the cache length.
THEOREM TypeCorrect == Spec => []TypeOK
<1>1. TypeInv => TypeOK
  BY DEF TypeInv
<1>. QED BY <1>1, TypeInit, TypeStep, PTL DEF Spec

\* An abort from another thread, at whatever point of generate it arrives, is
\* neither cleared nor followed by another token, and the part of a prompt that
\* remains is run at once.
THEOREM AbortIsNotOverlooked == Spec => AbortStops
<1>. DEFINE Heeded == pc # "idle" /\ aborted /\ pc' # "idle" =>
                        /\ output_ids' = output_ids /\ aborted'
                        /\ pc = "feed" /\ past' # past => pc' # "feed"
<1>1. ASSUME TypeInv, [Next]_vars PROVE [Heeded]_vars
  <2>. SUFFICES ASSUME pc # "idle", aborted, pc' # "idle" PROVE Heeded
    OBVIOUS
  <2>1. ~RunBatch
    <3>1. Remain \in Int
      BY <1>1 DEF TypeInv, TypeOK, Remain
    <3>2. RunLength = Remain
      BY DEF RunLength
    <3>3. RunBatch => RunLength < Remain
      BY DEF RunBatch
    <3>. QED BY <3>1, <3>2, <3>3
  <2>2. CASE EnterLoop \/ LeaveLoop
    BY <2>2 DEF EnterLoop, LeaveLoop, LoopGuard
  <2>3. CASE RunLast \/ RunOutside \/ RunNoMemory \/ ReserveNoMemory
    BY <2>3 DEF RunLast, RunOutside, RunNoMemory, ReserveNoMemory
  <2>4. CASE SampleNothing \/ \E t \in Token : Sample(t)
    BY <2>4 DEF SampleNothing, Sample
  <2>5. CASE \/ Call \/ SaveSession \/ LoadSession \/ Exec
             \/ \E n \in 0 .. MaxLength : Rewind(n)
             \/ \E keep \in Keeps : ShiftMemory(keep)
    BY <2>5 DEF Call, Generate, SaveSession, LoadSession, Exec, Rewind, ShiftMemory
  <2>6. CASE Abort \/ UNCHANGED vars
    BY <2>6 DEF Abort, vars, callVars
  <2>. HIDE DEF Heeded
  <2>. QED BY <1>1, <2>1, <2>2, <2>3, <2>4, <2>5, <2>6 DEF Next, Step, Run
<1>. QED BY <1>1, TypeInit, TypeStep, PTL DEF Spec, AbortStops

-----------------------------------------------------------------------------
(* Without shift_memory no run leaves the cache.  The bound is inductive    *)
(* once the position of a run is tied to the bound the loop tested: nothing *)
(* is forgotten (NoShiftInv), so past starts at n_past, and what remains of *)
(* the prompt ends before the last row (FeedInv).                           *)

NoShiftInv ==
    /\ n_past_offset = 0 /\ shift_pending.shift = 0
    /\ session # NoSession => session.n_past_offset = 0

FeedInv ==
    /\ pc = "feed" => past + Remain < MaxLength
    /\ pc # "crashed"

BoundInv == TypeInv /\ NoShiftInv /\ FeedInv

LEMMA NoShiftStep ==
    ASSUME "shift" \notin ClientOps, TypeInv, NoShiftInv, [Next]_vars
    PROVE  NoShiftInv'
<1>. USE NoSessionAssumption DEF NoShiftInv, TypeInv, TypeOK, Shift
<1>1. CASE Call
  BY <1>1 DEF Call, Generate
<1>2. CASE EnterLoop \/ LeaveLoop \/ SampleNothing \/ RunOutside
  BY <1>2 DEF EnterLoop, LeaveLoop, SampleNothing, RunOutside, modelVars
<1>3. CASE RunBatch \/ RunLast
  BY <1>3 DEF RunBatch, RunLast, RunModel
<1>4. CASE RunNoMemory \/ ReserveNoMemory
  BY <1>4 DEF RunNoMemory, ReserveNoMemory
<1>5. CASE \E t \in Token : Sample(t)
  BY <1>5 DEF Sample, modelVars
<1>6. CASE \E n \in 0 .. MaxLength : Rewind(n)
  BY <1>6 DEF Rewind
<1>7. CASE SaveSession
  BY <1>7 DEF SaveSession, modelVars
<1>8. CASE LoadSession
  BY <1>8 DEF LoadSession
<1>9. CASE Exec
  BY <1>9 DEF Exec, NoShift
<1>10. CASE Abort
  BY <1>10 DEF Abort, modelVars
<1>11. CASE UNCHANGED vars
  BY <1>11 DEF vars, modelVars
<1>. QED BY <1>1, <1>2, <1>3, <1>4, <1>5, <1>6, <1>7, <1>8, <1>9, <1>10, <1>11
         DEF Next, Step, Run

LEMMA FeedStep ==
    ASSUME TypeInv, NoShiftInv, FeedInv, [Next]_vars
    PROVE  FeedInv'
<1>. USE ModelContextAssumption DEF FeedInv, Remain
<1>1. CASE EnterLoop
  BY <1>1 DEF EnterLoop, LoopGuard, NoShiftInv, TypeInv, TypeOK
<1>2. CASE RunBatch
  BY <1>2, RunIdsType DEF RunBatch, NextPast, TypeInv, TypeOK
<1>3. CASE RunLast
  BY <1>3 DEF RunLast
<1>4. CASE RunOutside
  <2>1. past + RunLength <= MaxLength
    BY <1>4, RunIdsType DEF RunOutside, TypeInv, TypeOK
  <2>. QED BY <1>4, <2>1 DEF RunOutside, InCache
<1>5. CASE RunNoMemory \/ ReserveNoMemory
  BY <1>5 DEF RunNoMemory, ReserveNoMemory
<1>6. CASE LeaveLoop \/ SampleNothing \/ \E t \in Token : Sample(t)
  BY <1>6 DEF LeaveLoop, SampleNothing, Sample
<1>7. CASE Call
  BY <1>7 DEF Call, Generate
<1>8. CASE \/ \E n \in 0 .. MaxLength : Rewind(n)
           \/ \E keep \in Keeps : ShiftMemory(keep)
           \/ SaveSession \/ LoadSession
  BY <1>8 DEF Rewind, ShiftMemory, SaveSession, LoadSession, callVars
<1>9. CASE Exec
  BY <1>9 DEF Exec
<1>10. CASE Abort \/ UNCHANGED vars
  BY <1>10 DEF Abort, vars, callVars
<1>. QED BY <1>1, <1>2, <1>3, <1>4, <1>5, <1>6, <1>7, <1>8, <1>9, <1>10
         DEF Next, Step, Run

\* Without the shift method no run of the model touches a row outside of the
\* KV cache, through any calls, faults, sessions and restarts of the program.
THEOREM StaysInCache ==
    ASSUME "shift" \notin ClientOps
    PROVE  Spec => []CacheInBounds
<1>1. Init => BoundInv
  BY TypeInit DEF Init, BoundInv, NoShiftInv, FeedInv, NoShift
<1>2. BoundInv /\ [Next]_vars => BoundInv'
  BY TypeStep, NoShiftStep, FeedStep DEF BoundInv
<1>3. BoundInv => CacheInBounds
  BY DEF BoundInv, FeedInv, CacheInBounds
<1>. QED BY <1>1, <1>2, <1>3, PTL DEF Spec

-----------------------------------------------------------------------------
(* max_new_tokens.  gen_max_tokens is a bound on a position, the promise is *)
(* one on a number of tokens: CountInv ties them.  It needs n_past to move  *)
(* by what is fed only, that is, the first run of a process to find n_past  *)
(* at 0 (FreshInv), which a session loaded into a new process breaks.       *)

FreshInv ==
    /\ ~initial_run => n_past = 0
    /\ ~initial_run /\ session # NoSession => session.n_past = 0

Counting == max_new_tokens > 0 /\ ~aborted /\ ~completed

CountInv ==
    /\ NewTokensBounded
    /\ pc \in {"feed", "sample"} => ~completed
    /\ Counting /\ pc \in {"loop", "feed"} =>
         /\ gen_max_tokens > n_past + Len(curr_input_ids)
         /\ gen_max_tokens - (n_past + Len(curr_input_ids))
              = max_new_tokens - Len(output_ids)
    /\ Counting /\ pc = "sample" =>
         /\ gen_max_tokens > n_past
         /\ gen_max_tokens - n_past = max_new_tokens - Len(output_ids)

LEMMA FreshStep ==
    ASSUME "exec" \notin ClientOps, TypeInv, FreshInv, [Next]_vars
    PROVE  FreshInv'
<1>. USE NoSessionAssumption, ModelContextAssumption DEF FreshInv, TypeInv, TypeOK
<1>1. CASE Call
  BY <1>1 DEF Call, Generate
<1>2. CASE EnterLoop \/ LeaveLoop \/ SampleNothing \/ RunOutside
  BY <1>2 DEF EnterLoop, LeaveLoop, SampleNothing, RunOutside, modelVars
<1>3. CASE RunBatch \/ RunLast
  BY <1>3 DEF RunBatch, RunLast, RunModel
<1>4. CASE RunNoMemory \/ ReserveNoMemory
  BY <1>4 DEF RunNoMemory, ReserveNoMemory
<1>5. CASE \E t \in Token : Sample(t)
  BY <1>5 DEF Sample, modelVars
<1>6. CASE \/ \E n \in 0 .. MaxLength : Rewind(n)
           \/ \E keep \in Keeps : ShiftMemory(keep)
  BY <1>6 DEF Rewind, ShiftMemory
<1>7. CASE SaveSession
  BY <1>7 DEF SaveSession, modelVars
<1>8. CASE LoadSession
  BY <1>8 DEF LoadSession
<1>9. CASE Abort \/ UNCHANGED vars
  BY <1>9 DEF Abort, vars, modelVars
<1>. QED BY <1>1, <1>2, <1>3, <1>4, <1>5, <1>6, <1>7, <1>8, <1>9
         DEF Next, Step, Run

LEMMA CountStep ==
    ASSUME "exec" \notin ClientOps, TypeInv, FreshInv, CountInv, [Next]_vars
    PROVE  CountInv'
<1>. USE ModelContextAssumption
     DEF CountInv, Counting, NewTokensBounded, TypeInv, TypeOK
<1>1. ASSUME NEW ids \in Prompts, NEW continuous \in BOOLEAN, NEW max_new \in MaxNews,
             Generate(ids, continuous, max_new)
      PROVE  CountInv'
  <2>1. n_past' \in Nat /\ max_new \in Int /\ Len(ids) \in Nat
    BY <1>1 DEF Generate
  <2>2. Len(output_ids') = 0 /\ max_new_tokens' = max_new /\ ~completed'
        /\ pc' = "loop" /\ curr_input_ids' = ids
    BY <1>1 DEF Generate
  <2>3. max_new > 0 => gen_max_tokens' = n_past' + Len(ids) + max_new
    BY <1>1 DEF Generate
  <2>. QED BY <2>1, <2>2, <2>3
<1>2. CASE EnterLoop
  BY <1>2 DEF EnterLoop, LoopGuard, modelVars
<1>3. CASE LeaveLoop
  BY <1>3 DEF LeaveLoop
<1>4. CASE RunBatch
  BY <1>4 DEF RunBatch, PastAfterRun, FreshInv
<1>5. CASE RunLast
  <2>1. PastAfterRun = n_past
    BY DEF PastAfterRun, FreshInv
  <2>2. CASE Len(curr_input_ids) = 0
    <3>1. completed' = TRUE /\ pc' = "loop"
      BY <1>5, <2>2 DEF RunLast
    <3>. QED BY <1>5, <3>1 DEF RunLast
  <2>3. CASE Len(curr_input_ids) # 0
    BY <1>5, <2>1, <2>3 DEF RunLast, Fed
  <2>. QED BY <2>2, <2>3
<1>6. CASE RunOutside
  BY <1>6 DEF RunOutside
<1>7. CASE RunNoMemory \/ ReserveNoMemory
  BY <1>7 DEF RunNoMemory, ReserveNoMemory
<1>8. ASSUME NEW t \in Token, Sample(t) PROVE CountInv'
  <2>1. CASE t = EOS
    BY <1>8, <2>1 DEF Sample
  <2>2. CASE t # EOS
    <3>1. Len(curr_input_ids') = 1 /\ Len(output_ids') = Len(output_ids) + 1
      BY <1>8, <2>2 DEF Sample
    <3>2. max_new_tokens > 0 => Len(output_ids') <= max_new_tokens
      <4>1. Counting => gen_max_tokens - n_past = max_new_tokens - Len(output_ids)
                        /\ gen_max_tokens > n_past
        BY <1>8 DEF Sample
      <4>2. max_new_tokens > 0 => Counting
        BY <1>8 DEF Sample
      <4>. QED BY <3>1, <4>1, <4>2
    <3>3. ~aborted' => ~(gen_max_tokens > 0 /\ n_past + 1 >= gen_max_tokens)
      BY <1>8 DEF Sample, LimitReached
    <3>4. max_new_tokens' = max_new_tokens /\ gen_max_tokens' = gen_max_tokens
          /\ n_past' = n_past /\ pc' = "loop" /\ ~aborted /\ ~completed
      BY <1>8 DEF Sample, modelVars
    <3>5. max_new_tokens > 0 =>
             /\ gen_max_tokens > n_past
             /\ gen_max_tokens - n_past = max_new_tokens - Len(output_ids)
      BY <1>8, <3>4 DEF Sample
    <3>6. Counting' => /\ gen_max_tokens > n_past + 1
                       /\ gen_max_tokens - (n_past + 1)
                            = max_new_tokens - (Len(output_ids) + 1)
      <4>1. Len(output_ids) \in Nat /\ n_past \in Nat
        OBVIOUS
      <4>2. Counting' => max_new_tokens > 0 /\ ~aborted'
        BY <3>4
      <4>. QED BY <3>3, <3>5, <4>1, <4>2
    <3>7. pc' # "sample" /\ pc' # "feed"
      BY <3>4
    <3>. QED BY <3>1, <3>2, <3>4, <3>6, <3>7
  <2>. QED BY <2>1, <2>2
<1>9. CASE SampleNothing
  BY <1>9 DEF SampleNothing
<1>10. CASE \/ \E n \in 0 .. MaxLength : Rewind(n)
            \/ \E keep \in Keeps : ShiftMemory(keep)
            \/ SaveSession \/ LoadSession
  BY <1>10 DEF Rewind, ShiftMemory, SaveSession, LoadSession, callVars
<1>11. CASE Abort \/ UNCHANGED vars
  BY <1>11 DEF Abort, vars, callVars, modelVars
<1>. QED BY <1>1, <1>2, <1>3, <1>4, <1>5, <1>6, <1>7, <1>8, <1>9, <1>10, <1>11
         DEF Next, Call, Step, Run

\* A call of generate produces no more than max_new_tokens, whatever is
\* sampled, aborted, shifted, rewound or short of memory, in a process that
\* does not load the session of an earlier one.
THEOREM NewTokensAreBounded ==
    ASSUME "exec" \notin ClientOps
    PROVE  Spec => []NewTokensBounded
<1>. DEFINE Inv == TypeInv /\ FreshInv /\ CountInv
<1>1. Init => Inv
  BY TypeInit DEF Init, FreshInv, CountInv, Counting, NewTokensBounded
<1>2. Inv /\ [Next]_vars => Inv'
  BY TypeStep, FreshStep, CountStep
<1>3. Inv => NewTokensBounded
  BY DEF CountInv
<1>. QED BY <1>1, <1>2, <1>3, PTL DEF Spec

-----------------------------------------------------------------------------
(* Refinement.  While nothing is shifted the view of the cache is its first *)
(* n_past rows.  A run of a batch writes behind them, which the abstract    *)
(* context does not see; the last run of a prompt makes the rows of all its *)
(* batches visible at once, so the invariant records what they hold         *)
(* (BatchInv).                                                              *)

Plain(c, n) == [i \in 1 .. n |-> c[i - 1]]

RowsInv ==
    /\ \A i \in 0 .. n_past - 1 : cache[i] \in Token
    /\ session # NoSession =>
         \A i \in 0 .. session.n_past - 1 : session.cache[i] \in Token

BatchInv ==
    pc = "feed" => /\ past = n_past + fed
                   /\ \A i \in 1 .. fed : cache[n_past + i - 1] = curr_input_ids[i]

RefInv == TypeInv /\ NoShiftInv /\ FreshInv /\ RowsInv /\ BatchInv

LEMMA PlainSeq ==
    ASSUME NEW c \in CacheRows, NEW n \in 0 .. MaxLength,
           \A i \in 0 .. n - 1 : c[i] \in Token
    PROVE  /\ Plain(c, n) \in Seq(Token) /\ Len(Plain(c, n)) = n
           /\ \A i \in 1 .. n : Plain(c, n)[i] = c[i - 1]
BY ModelContextAssumption DEF Plain, CacheRows, Rows

LEMMA ViewPlain ==
    ASSUME shift_pending.shift = 0, cache \in CacheRows, n_past \in 0 .. MaxLength
    PROVE  View = Plain(cache, n_past)
<1>1. Shifted(cache, shift_pending) = cache
  BY DEF Shifted, CacheRows
<1>. QED BY <1>1 DEF View, Plain

\* What a run leaves in the rows: its tokens, and everything below them.
LEMMA RunModelRows ==
    ASSUME TypeInv, NoShiftInv, pc = "feed", RunModel
    PROVE  /\ \A i \in 0 .. past - 1 : i \in Rows => cache'[i] = cache[i]
           /\ \A i \in 1 .. RunLength :
                past + i - 1 \in Rows /\ cache'[past + i - 1] = curr_input_ids[fed + i]
<1>. USE ModelContextAssumption DEF TypeInv, TypeOK
<1>1. cache' = Written(cache, past, RunIds)
  <2>1. Shifted(cache, shift_pending) = cache
    BY DEF Shifted, NoShiftInv
  <2>. QED BY <2>1 DEF RunModel
<1>2. /\ RunLength \in Nat /\ Len(RunIds) = RunLength
      /\ \A i \in 1 .. RunLength : RunIds[i] = curr_input_ids[fed + i]
  BY RunIdsType
<1>3. past \in Nat /\ past + RunLength <= MaxLength
  BY DEF RunModel, InCache
<1>4. \A i \in 0 .. past - 1 : i \in Rows => cache'[i] = cache[i]
  BY <1>1, <1>2, <1>3 DEF Written
<1>5. ASSUME NEW i \in 1 .. RunLength
      PROVE  past + i - 1 \in Rows /\ cache'[past + i - 1] = curr_input_ids[fed + i]
  <2>1. past + i - 1 \in Rows /\ past + i - 1 \in past .. past + Len(RunIds) - 1
    BY <1>2, <1>3 DEF Rows
  <2>2. cache'[past + i - 1] = RunIds[past + i - 1 - past + 1]
    BY <1>1, <2>1 DEF Written
  <2>3. past + i - 1 - past + 1 = i
    BY <1>3
  <2>. QED BY <1>2, <2>1, <2>2, <2>3
<1>. QED BY <1>4, <1>5

LEMMA RefStep ==
    ASSUME "shift" \notin ClientOps, "exec" \notin ClientOps, "reserve" \notin Faults,
           RefInv, [Next]_vars
    PROVE  RefInv'
<1>. USE ModelContextAssumption, NoSessionAssumption
<1>. USE DEF RefInv
<1>1. TypeInv' /\ NoShiftInv' /\ FreshInv'
  BY TypeStep, NoShiftStep, FreshStep
<1>2. CASE Call
  <2>1. pc' # "feed" /\ (n_past' = n_past \/ n_past' = 0)
        /\ cache' = cache /\ session' = session
    BY <1>2 DEF Call, Generate
  <2>2. \A i \in 0 .. n_past' - 1 : cache'[i] \in Token
    <3>1. CASE n_past' = n_past
      BY <2>1, <3>1 DEF RowsInv
    <3>2. CASE n_past' = 0
      BY <3>2
    <3>. QED BY <2>1, <3>1, <3>2
  <2>3. RowsInv'
    BY <2>1, <2>2 DEF RowsInv
  <2>. QED BY <1>1, <2>1, <2>3 DEF BatchInv
<1>3. CASE EnterLoop
  <2>1. pc' = "feed" /\ fed' = 0 /\ past' = n_past /\ UNCHANGED <<n_past, cache, session>>
    BY <1>3 DEF EnterLoop, modelVars, NoShiftInv, TypeInv, TypeOK
  <2>2. RowsInv'
    BY <2>1 DEF RowsInv
  <2>3. BatchInv'
    BY <2>1 DEF BatchInv, TypeInv, TypeOK
  <2>. QED BY <1>1, <2>2, <2>3
<1>4. CASE RunBatch
  <2>1. /\ RunModel /\ pc = "feed" /\ past' = past + RunLength
        /\ fed' = fed + RunLength /\ n_past' = n_past
        /\ UNCHANGED <<curr_input_ids, session>>
    BY <1>4 DEF RunBatch, NextPast, PastAfterRun, FreshInv
  <2>2. past = n_past + fed /\ n_past \in Nat /\ fed \in Nat /\ past + RunLength <= MaxLength
        /\ RunLength \in Nat
    BY <2>1, RunIdsType DEF BatchInv, TypeInv, TypeOK, RunModel, InCache
  <2>3. RowsInv'
    <3>1. \A i \in 0 .. n_past - 1 : i \in 0 .. past - 1 /\ i \in Rows
      BY <2>2 DEF Rows
    <3>. QED BY <2>1, <3>1, RunModelRows DEF RowsInv
  <2>4. ASSUME NEW i \in 1 .. fed'
        PROVE  cache'[n_past' + i - 1] = curr_input_ids'[i]
    <3>1. CASE i <= fed
      <4>1. n_past + i - 1 \in 0 .. past - 1 /\ n_past + i - 1 \in Rows
        BY <2>1, <2>2, <3>1 DEF Rows
      <4>2. cache[n_past + i - 1] = curr_input_ids[i]
        BY <2>1, <2>2, <3>1 DEF BatchInv
      <4>. QED BY <2>1, <4>1, <4>2, RunModelRows
    <3>2. CASE i > fed
      <4>1. i - fed \in 1 .. RunLength
        BY <2>1, <2>2, <3>2
      <4>2. cache'[past + (i - fed) - 1] = curr_input_ids[fed + (i - fed)]
        BY <2>1, <4>1, RunModelRows
      <4>3. past + (i - fed) - 1 = n_past + i - 1 /\ fed + (i - fed) = i
        BY <2>2
      <4>. QED BY <2>1, <4>2, <4>3
    <3>. QED BY <2>1, <2>2, <3>1, <3>2
  <2>5. BatchInv'
    <3>1. past' = n_past' + fed'
      BY <2>1, <2>2
    <3>. QED BY <3>1, <2>4 DEF BatchInv
  <2>. QED BY <1>1, <2>3, <2>5
<1>5. CASE RunLast
  <2>1. /\ RunModel /\ pc = "feed" /\ RunLength = Len(curr_input_ids) - fed
        /\ n_past' = n_past + Len(curr_input_ids)
        /\ pc' # "feed" /\ UNCHANGED session
    BY <1>5 DEF RunLast, Fed, PastAfterRun, FreshInv, Remain
  <2>2. /\ past = n_past + fed /\ n_past \in Nat /\ fed \in 0 .. Len(curr_input_ids)
        /\ past + RunLength <= MaxLength /\ curr_input_ids \in Seq(Token)
    BY <2>1 DEF BatchInv, TypeInv, TypeOK, RunModel, InCache
  <2>3. ASSUME NEW i \in 0 .. n_past' - 1
        PROVE  cache'[i] \in Token
    <3>1. CASE i < n_past
      BY <2>1, <2>2, <3>1, RunModelRows DEF RowsInv, Rows
    <3>2. CASE i >= n_past /\ i < past
      <4>1. i - n_past + 1 \in 1 .. fed /\ n_past + (i - n_past + 1) - 1 = i
        BY <2>2, <3>2
      <4>2. cache[i] = curr_input_ids[i - n_past + 1]
        BY <2>1, <4>1 DEF BatchInv
      <4>3. curr_input_ids[i - n_past + 1] \in Token
        BY <2>2, <4>1
      <4>4. i \in 0 .. past - 1 /\ i \in Rows
        BY <2>1, <2>2, <3>2 DEF Rows
      <4>. QED BY <2>1, <4>2, <4>3, <4>4, RunModelRows
    <3>3. CASE i >= past
      <4>1. i - past + 1 \in 1 .. RunLength /\ past + (i - past + 1) - 1 = i
        BY <2>1, <2>2, <3>3
      <4>2. cache'[i] = curr_input_ids[fed + (i - past + 1)]
        BY <2>1, <4>1, RunModelRows
      <4>3. fed + (i - past + 1) \in 1 .. Len(curr_input_ids)
        BY <2>1, <2>2, <4>1
      <4>. QED BY <2>2, <4>2, <4>3
    <3>. QED BY <2>2, <3>1, <3>2, <3>3
  <2>4. RowsInv'
    BY <2>1, <2>3 DEF RowsInv
  <2>. QED BY <1>1, <2>1, <2>4 DEF BatchInv
<1>6. CASE RunNoMemory
  BY <1>1, <1>6 DEF RunNoMemory, PastAfterRun, FreshInv, RowsInv, BatchInv
<1>7. CASE LeaveLoop \/ RunOutside \/ SampleNothing \/ \E t \in Token : Sample(t)
  BY <1>1, <1>7 DEF LeaveLoop, RunOutside, SampleNothing, Sample, modelVars,
                    RowsInv, BatchInv
<1>8. CASE \E n \in 0 .. MaxLength : Rewind(n)
  BY <1>1, <1>8 DEF Rewind, callVars, RowsInv, BatchInv, TypeInv, TypeOK
<1>9. CASE SaveSession
  BY <1>1, <1>9 DEF SaveSession, modelVars, callVars, RowsInv, BatchInv
<1>10. CASE LoadSession
  BY <1>1, <1>10 DEF LoadSession, callVars, RowsInv, BatchInv
<1>11. CASE Abort \/ UNCHANGED vars
  BY <1>1, <1>11 DEF Abort, vars, modelVars, callVars, RowsInv, BatchInv
<1>. QED BY <1>2, <1>3, <1>4, <1>5, <1>6, <1>7, <1>8, <1>9, <1>10, <1>11
         DEF Next, Step, Run, ReserveNoMemory

LEMMA SubSeqPrefix ==
    ASSUME NEW S, NEW s \in Seq(S), NEW n \in 0 .. Len(s)
    PROVE  /\ SubSeq(s, 1, n) \in Seq(S) /\ Len(SubSeq(s, 1, n)) = n
           /\ \A i \in 1 .. n : SubSeq(s, 1, n)[i] = s[i]
OBVIOUS

LEMMA PlainEqual ==
    ASSUME NEW c, NEW d, NEW n \in Nat, \A i \in 0 .. n - 1 : c[i] = d[i]
    PROVE  Plain(c, n) = Plain(d, n)
<1>1. \A i \in 1 .. n : c[i - 1] = d[i - 1]
  OBVIOUS
<1>. QED BY <1>1 DEF Plain

\* A prefix of the rows is a prefix of the sequence they spell.
LEMMA PlainPrefix ==
    ASSUME NEW c \in CacheRows, NEW d \in CacheRows,
           NEW k \in 0 .. MaxLength, NEW n \in 0 .. k,
           \A i \in 0 .. k - 1 : d[i] \in Token,
           \A i \in 0 .. n - 1 : c[i] = d[i]
    PROVE  SubSeq(Plain(d, k), 1, n) = Plain(c, n)
<1>. USE ModelContextAssumption
<1>1. n \in Int /\ n <= k /\ n \in 0 .. MaxLength /\ \A i \in 0 .. n - 1 : c[i] \in Token
  OBVIOUS
<1>2. /\ Plain(d, k) \in Seq(Token) /\ Len(Plain(d, k)) = k
      /\ \A i \in 1 .. k : Plain(d, k)[i] = d[i - 1]
  BY PlainSeq
<1>3. /\ Plain(c, n) \in Seq(Token) /\ Len(Plain(c, n)) = n
      /\ \A i \in 1 .. n : Plain(c, n)[i] = c[i - 1]
  BY <1>1, PlainSeq
<1>4. \A i \in 1 .. n : Plain(d, k)[i] \in Token
  BY <1>1, <1>2
<1>5. /\ SubSeq(Plain(d, k), 1, n) \in Seq(Token)
      /\ Len(SubSeq(Plain(d, k), 1, n)) = n
      /\ \A i \in 1 .. n : SubSeq(Plain(d, k), 1, n)[i] = Plain(d, k)[i]
  BY <1>1, <1>2, SubSeqPrefix
<1>6. \A i \in 1 .. n : SubSeq(Plain(d, k), 1, n)[i] = Plain(c, n)[i]
  <2>1. ASSUME NEW i \in 1 .. n PROVE d[i - 1] = c[i - 1] /\ i \in 1 .. k
    BY <1>1
  <2>2. ASSUME NEW i \in 1 .. n
        PROVE  SubSeq(Plain(d, k), 1, n)[i] = Plain(c, n)[i]
    BY <1>2, <1>3, <1>5, <2>1
  <2>. QED BY <2>2
<1>. QED BY <1>3, <1>5, <1>6, SeqEqual

LEMMA ViewInv ==
    ASSUME RefInv
    PROVE  /\ View = Plain(cache, n_past)
           /\ View \in Seq(Token) /\ Len(View) = n_past
BY ViewPlain, PlainSeq
DEF RefInv, TypeInv, TypeOK, NoShiftInv, RowsInv, CacheRows

\* The same for the state after a step.
LEMMA ViewInvNext ==
    ASSUME RefInv'
    PROVE  /\ View' = Plain(cache', n_past')
           /\ View' \in Seq(Token) /\ Len(View') = n_past'
<1>1. /\ cache' \in CacheRows /\ n_past' \in 0 .. MaxLength
      /\ shift_pending'.shift = 0
      /\ \A i \in 0 .. n_past' - 1 : cache'[i] \in Token
  BY DEF RefInv, TypeInv, TypeOK, NoShiftInv, RowsInv, CacheRows
<1>2. Shifted(cache', shift_pending') = cache'
  BY <1>1 DEF Shifted, CacheRows
<1>3. View' = Plain(cache', n_past')
  BY <1>2 DEF View, Plain
<1>. QED BY <1>1, <1>3, PlainSeq

LEMMA StoredPlain ==
    StoredContext = IF session = NoSession THEN NoSession
                    ELSE Plain(session.cache, session.n_past)
BY DEF StoredContext, Plain

LEMMA InitRefined == Init => Abstract!Init
BY DEF Init, Abstract!Init, View, StoredContext, Shifted, NoShift

\* Every step of generate, and every call between two of them, is a step of the
\* abstract context or leaves it as it is.
LEMMA StepRefined ==
    ASSUME "shift" \notin ClientOps, "exec" \notin ClientOps, "reserve" \notin Faults,
           RefInv, RefInv', [Next]_vars
    PROVE  [Abstract!Next]_(Abstract!vars)
<1>. USE ModelContextAssumption
<1>1. /\ View = Plain(cache, n_past) /\ View \in Seq(Token) /\ Len(View) = n_past
      /\ View' = Plain(cache', n_past') /\ View' \in Seq(Token) /\ Len(View') = n_past'
  BY ViewInv, ViewInvNext
<1>2. /\ cache \in CacheRows /\ cache' \in CacheRows
      /\ n_past \in 0 .. MaxLength /\ n_past' \in 0 .. MaxLength
      /\ \A i \in 0 .. n_past - 1 : cache[i] \in Token
      /\ \A i \in 0 .. n_past' - 1 : cache'[i] \in Token
  BY DEF RefInv, TypeInv, TypeOK, RowsInv, CacheRows
<1>3. session' = session => StoredContext' = StoredContext
  BY DEF StoredContext
\* Nothing of what the context is made of changes.
<1>4. ASSUME UNCHANGED <<cache, n_past, session>>
      PROVE  [Abstract!Next]_(Abstract!vars)
  BY <1>1, <1>3, <1>4 DEF Abstract!vars
\* The context is cut back.
<1>5. ASSUME cache' = cache, n_past' \in 0 .. n_past, session' = session
      PROVE  [Abstract!Next]_(Abstract!vars)
  <2>1. SubSeq(Plain(cache, n_past), 1, n_past') = Plain(cache, n_past')
    BY <1>2, <1>5, PlainPrefix
  <2>2. View' = SubSeq(View, 1, n_past')
    BY <1>1, <1>5, <2>1
  <2>3. Abstract!Rewind
    BY <1>1, <1>3, <1>5, <2>2 DEF Abstract!Rewind
  <2>. QED BY <2>3 DEF Abstract!Next
<1>6. CASE Call
  <2>1. cache' = cache /\ session' = session /\ (n_past' = n_past \/ n_past' = 0)
    BY <1>6 DEF Call, Generate
  <2>2. n_past' \in 0 .. n_past
    BY <1>2, <2>1
  <2>. QED BY <1>5, <2>1, <2>2
<1>7. CASE EnterLoop \/ LeaveLoop \/ RunOutside \/ SampleNothing
           \/ (\E t \in Token : Sample(t)) \/ Abort \/ UNCHANGED vars
  BY <1>4, <1>7 DEF EnterLoop, LeaveLoop, RunOutside, SampleNothing, Sample, Abort,
                    vars, modelVars
<1>8. CASE RunBatch
  <2>1. /\ RunModel /\ pc = "feed" /\ n_past' = n_past /\ session' = session
        /\ past = n_past + fed /\ fed \in Nat
    BY <1>8 DEF RunBatch, PastAfterRun, RefInv, FreshInv, BatchInv, TypeInv, TypeOK
  <2>2. \A i \in 0 .. n_past - 1 : i \in 0 .. past - 1 /\ i \in Rows
    BY <1>2, <2>1 DEF Rows
  <2>3. \A i \in 0 .. n_past - 1 : cache'[i] = cache[i]
    BY <2>1, <2>2, RunModelRows DEF RefInv
  <2>4. View' = View
    <3>1. Plain(cache', n_past) = Plain(cache, n_past)
      BY <1>2, <2>3, PlainEqual
    <3>. QED BY <1>1, <2>1, <3>1
  <2>. QED BY <1>3, <2>1, <2>4 DEF Abstract!vars
<1>9. CASE RunLast
  <2>1. /\ RunModel /\ pc = "feed" /\ session' = session
        /\ n_past' = n_past + Len(curr_input_ids) /\ Len(curr_input_ids) \in Nat
        /\ past = n_past + fed /\ fed \in Nat
    BY <1>9 DEF RunLast, Fed, PastAfterRun, RefInv, FreshInv, BatchInv, TypeInv, TypeOK
  <2>2. \A i \in 0 .. n_past - 1 : i \in 0 .. past - 1 /\ i \in Rows
    BY <1>2, <2>1 DEF Rows
  <2>3. \A i \in 0 .. n_past - 1 : cache[i] = cache'[i]
    BY <2>1, <2>2, RunModelRows DEF RefInv
  <2>4. n_past \in 0 .. n_past'
    BY <1>2, <2>1
  <2>5. SubSeq(Plain(cache', n_past'), 1, n_past) = Plain(cache, n_past)
    BY <1>2, <2>3, <2>4, PlainPrefix
  <2>6. SubSeq(View', 1, Len(View)) = View
    BY <1>1, <2>5
  <2>7. View' \in Abstract!Contexts /\ Len(View') >= Len(View)
    BY <1>1, <1>2, <2>4 DEF Abstract!Contexts
  <2>8. Abstract!Extend
    BY <1>3, <2>1, <2>6, <2>7 DEF Abstract!Extend
  <2>. QED BY <2>8 DEF Abstract!Next
<1>10. CASE RunNoMemory
  BY <1>4, <1>10 DEF RunNoMemory, PastAfterRun, RefInv, FreshInv
<1>11. ASSUME NEW n \in 0 .. MaxLength, Rewind(n)
       PROVE  [Abstract!Next]_(Abstract!vars)
  <2>1. cache' = cache /\ session' = session /\ n_past' \in 0 .. n_past
    BY <1>2, <1>11 DEF Rewind
  <2>. QED BY <1>5, <2>1
<1>12. CASE SaveSession
  <2>1. /\ session'.cache = cache /\ session'.n_past = n_past
        /\ cache' = cache /\ n_past' = n_past
    BY <1>12 DEF SaveSession, modelVars
  <2>2. session' \in Session
    BY <1>12 DEF SaveSession, RefInv, TypeInv, TypeOK, Session
  <2>3. session' # NoSession
    BY <2>2, NoSessionAssumption
  <2>4. StoredContext' = Plain(session'.cache, session'.n_past)
    BY <2>3 DEF StoredContext, Plain
  <2>5. Abstract!Save
    BY <1>1, <2>1, <2>4 DEF Abstract!Save
  <2>. QED BY <2>5 DEF Abstract!Next
<1>13. CASE LoadSession
  <2>1. /\ session # NoSession /\ session' = session
        /\ cache' = session.cache /\ n_past' = session.n_past
    BY <1>13 DEF LoadSession
  <2>2. StoredContext = Plain(session.cache, session.n_past)
    BY <2>1, StoredPlain
  <2>3. StoredContext # NoSession
    <3>1. View' \in Seq(Token) /\ StoredContext = View'
      BY <1>1, <2>1, <2>2
    <3>. QED BY <3>1, NoSessionAssumption
  <2>4. Abstract!Load
    BY <1>1, <1>3, <2>1, <2>2, <2>3 DEF Abstract!Load
  <2>. QED BY <2>4 DEF Abstract!Next
<1>. QED BY <1>6, <1>7, <1>8, <1>9, <1>10, <1>11, <1>12, <1>13
         DEF Next, Step, Run, ReserveNoMemory

\* The rows and counters of the cache implement the abstract context, for every
\* vocabulary, cache length, batch size and prompt: what the pipeline calls with
\* batches, aborts, rewinds, failed allocations and sessions of one process only
\* ever extends, cuts back, saves or loads one sequence of tokens.
THEOREM Refines ==
    ASSUME "shift" \notin ClientOps, "exec" \notin ClientOps, "reserve" \notin Faults
    PROVE  Spec => ImplementsTokenContext
<1>1. Init => RefInv
  BY TypeInit DEF Init, RefInv, NoShiftInv, FreshInv, RowsInv, BatchInv, NoShift
<1>2. RefInv /\ [Next]_vars => RefInv'
  BY RefStep
<1>3. RefInv /\ RefInv' /\ [Next]_vars => [Abstract!Next]_(Abstract!vars)
  BY StepRefined
<1>. QED BY <1>1, <1>2, <1>3, InitRefined, PTL
         DEF Spec, ImplementsTokenContext, Abstract!Spec

-----------------------------------------------------------------------------
(* What generate returns.  While it runs, the tokens of its output are the  *)
(* last rows of the context, but for the token that waits to be run.        *)

Waits == curr_input_ids # <<>> /\ curr_input_ids # <<EOS>>
Held == IF Waits THEN Len(output_ids) - 1 ELSE Len(output_ids)

OutputInv ==
    /\ initial_run /\ Len(curr_input_ids) <= 1
    /\ curr_input_ids = <<EOS>> => completed
    /\ Waits => curr_input_ids[1] = output_ids[Len(output_ids)]
    /\ Held <= n_past
    /\ \A i \in 1 .. Held : cache[n_past - Held + i - 1] = output_ids[i]

TailInv ==
    /\ pc = "feed" => ~completed
    /\ pc = "sample" => initial_run /\ curr_input_ids = <<>>
    /\ pc \in {"loop", "feed", "sample"} /\ output_ids # <<>> => OutputInv

LEMMA OneToken ==
    ASSUME NEW s \in Seq(Token), s # <<>>, Len(s) <= 1
    PROVE  Len(s) = 1
<1>1. Len(s) \in Nat /\ Len(s) # 0
  OBVIOUS
<1>2. \A k \in Nat : k <= 1 /\ k # 0 => k = 1
  OBVIOUS
<1>. QED BY ONLY <1>1, <1>2, Len(s) <= 1

LEMMA LastRunTail ==
    ASSUME RefInv, TailInv, RunLast
    PROVE  TailInv'
<1>. USE ModelContextAssumption
<1>. USE DEF RefInv, TypeInv, TypeOK
<1>1. /\ pc = "feed" /\ RunModel /\ RunLength = Len(curr_input_ids) - fed
      /\ n_past' = n_past + Len(curr_input_ids) /\ curr_input_ids' = <<>>
      /\ initial_run' /\ output_ids' = output_ids
      /\ pc' = "loop" \/ pc' = "sample"
  BY DEF RunLast, RunModel, Fed, PastAfterRun, FreshInv, Remain
<1>2. /\ past = n_past + fed /\ n_past \in Nat /\ fed \in 0 .. Len(curr_input_ids)
      /\ past + RunLength <= MaxLength /\ curr_input_ids \in Seq(Token)
  BY <1>1 DEF BatchInv, RunModel, InCache
<1>3. \A i \in 0 .. past - 1 : i \in Rows /\ cache'[i] = cache[i]
  <2>1. past \in Nat /\ RunLength \in Nat
    BY <1>1, <1>2
  <2>2. \A i \in 0 .. past - 1 : i \in Rows
    BY ONLY <1>2, <2>1, ModelContextAssumption DEF Rows
  <2>. QED BY <1>1, <2>2, RunModelRows
<1>4. SUFFICES ASSUME output_ids # <<>> PROVE OutputInv'
  BY <1>1 DEF TailInv
<1>5. OutputInv /\ ~completed
  BY <1>1, <1>4 DEF TailInv
<1>6. Len(output_ids) \in Nat \ {0} /\ ~Waits' /\ Held' = Len(output_ids)
      /\ curr_input_ids' # <<EOS>>
  BY <1>1, <1>4 DEF Waits, Held
<1>7. CASE curr_input_ids = <<>>
  <2>1. n_past' = n_past /\ Held = Len(output_ids) /\ past = n_past
    BY <1>1, <1>2, <1>7 DEF Held, Waits
  <2>2. \A i \in 1 .. Held : n_past - Held + i - 1 \in 0 .. past - 1
    <3>1. Held \in Nat /\ n_past \in Nat /\ past = n_past
      BY <1>2, <1>6, <2>1
    <3>2. Held <= n_past
      BY <1>5 DEF OutputInv
    <3>. QED BY ONLY <3>1, <3>2
  <2>3. ASSUME NEW i \in 1 .. Len(output_ids)
        PROVE  cache'[n_past' - Len(output_ids) + i - 1] = output_ids[i]
    BY <1>3, <1>5, <2>1, <2>2 DEF OutputInv
  <2>. QED BY <1>1, <1>5, <1>6, <2>1, <2>3 DEF OutputInv
<1>8. CASE curr_input_ids # <<>>
  <2>1. Waits /\ Len(curr_input_ids) = 1
    <3>1. curr_input_ids # <<EOS>>
      BY <1>5 DEF OutputInv
    <3>2. Len(curr_input_ids) <= 1
      BY <1>5 DEF OutputInv
    <3>3. Len(curr_input_ids) = 1
      BY <1>2, <1>8, <3>2, OneToken
    <3>. QED BY <1>8, <3>1, <3>3 DEF Waits
  <2>2. n_past' = n_past + 1 /\ Held = Len(output_ids) - 1 /\ Held <= n_past
        /\ curr_input_ids[1] = output_ids[Len(output_ids)]
    BY <1>1, <1>5, <2>1 DEF OutputInv, Held
  <2>3. cache'[n_past] = curr_input_ids[1]
    <3>1. CASE fed = 0
      <4>1. 1 \in 1 .. RunLength /\ past + 1 - 1 = n_past /\ fed + 1 = 1
        BY <1>1, <1>2, <2>1, <3>1
      <4>2. cache'[past + 1 - 1] = curr_input_ids[fed + 1]
        BY <1>1, <4>1, RunModelRows
      <4>. QED BY <4>1, <4>2
    <3>2. CASE fed = 1
      <4>1. 1 \in 1 .. fed /\ n_past + 1 - 1 = n_past /\ n_past \in 0 .. past - 1
        BY <1>2, <3>2
      <4>2. cache[n_past + 1 - 1] = curr_input_ids[1]
        BY <1>1, <4>1 DEF BatchInv
      <4>. QED BY <1>3, <4>1, <4>2
    <3>. QED BY <1>2, <2>1, <3>1, <3>2
  <2>4. ASSUME NEW i \in 1 .. Len(output_ids)
        PROVE  cache'[n_past' - Len(output_ids) + i - 1] = output_ids[i]
    <3>1. CASE i = Len(output_ids)
      <4>1. n_past' - Len(output_ids) + i - 1 = n_past
        BY <1>2, <1>6, <2>2, <3>1
      <4>. QED BY <2>2, <2>3, <3>1, <4>1
    <3>2. CASE i < Len(output_ids)
      <4>1. i \in 1 .. Held /\ n_past' - Len(output_ids) + i - 1 = n_past - Held + i - 1
        BY <1>2, <1>6, <2>2, <3>2
      <4>2. n_past - Held + i - 1 \in 0 .. past - 1
        BY <1>2, <1>6, <2>2, <4>1
      <4>3. cache[n_past - Held + i - 1] = output_ids[i]
        BY <1>5, <4>1 DEF OutputInv
      <4>. QED BY <1>3, <4>1, <4>2, <4>3
    <3>. QED BY <1>6, <3>1, <3>2
  <2>. QED BY <1>1, <1>2, <1>6, <2>2, <2>4 DEF OutputInv
<1>. QED BY <1>7, <1>8

LEMMA SampleTail ==
    ASSUME RefInv, TailInv, NEW t \in Token, Sample(t)
    PROVE  TailInv'
<1>. USE DEF RefInv, TypeInv, TypeOK
<1>1. /\ pc = "sample" /\ pc' = "loop" /\ curr_input_ids' = <<t>>
      /\ completed' = (t = EOS) /\ initial_run /\ curr_input_ids = <<>>
      /\ UNCHANGED <<n_past, cache, initial_run>>
      /\ output_ids' = IF t = EOS THEN output_ids ELSE Append(output_ids, t)
  BY DEF Sample, modelVars, TailInv
<1>2. SUFFICES ASSUME output_ids' # <<>> PROVE OutputInv'
  BY <1>1 DEF TailInv
<1>3. output_ids # <<>> => OutputInv
  BY <1>1 DEF TailInv
<1>4. Held = Len(output_ids) /\ Held \in Nat /\ n_past \in Nat
  BY <1>1 DEF Held, Waits
<1>5. CASE t = EOS
  <2>1. output_ids' = output_ids /\ curr_input_ids' = <<EOS>> /\ OutputInv /\ Held' = Held
    BY <1>1, <1>2, <1>3, <1>4, <1>5 DEF Held, Waits
  <2>2. Len(curr_input_ids') = 1 /\ ~Waits'
    BY <2>1 DEF Waits
  <2>3. /\ Held' <= n_past'
        /\ \A i \in 1 .. Held' : cache'[n_past' - Held' + i - 1] = output_ids'[i]
    BY <1>1, <2>1 DEF OutputInv
  <2>4. completed'
    BY <1>1, <1>5, Zenon
  <2>5. initial_run' /\ Len(curr_input_ids') <= 1
    BY <1>1, <2>2
  <2>. QED BY <2>2, <2>3, <2>4, <2>5 DEF OutputInv
<1>6. CASE t # EOS
  <2>1. output_ids' = Append(output_ids, t) /\ Waits' /\ curr_input_ids' # <<EOS>>
    BY <1>1, <1>6 DEF Waits
  <2>2. /\ Len(output_ids') = Len(output_ids) + 1
        /\ output_ids'[Len(output_ids')] = t
        /\ \A i \in 1 .. Len(output_ids) : output_ids'[i] = output_ids[i]
    BY <2>1
  <2>3. Held' = Held
    BY <1>4, <2>1, <2>2 DEF Held
  <2>4. Held <= n_past /\ \A i \in 1 .. Held : cache[n_past - Held + i - 1] = output_ids[i]
    <3>1. CASE output_ids = <<>>
      BY <1>4, <3>1
    <3>2. CASE output_ids # <<>>
      BY <1>3, <3>2 DEF OutputInv
    <3>. QED BY <3>1, <3>2
  <2>. QED BY <1>1, <1>4, <2>1, <2>2, <2>3, <2>4 DEF OutputInv
<1>. QED BY <1>5, <1>6

LEMMA TailStep ==
    ASSUME "shift" \notin ClientOps, "exec" \notin ClientOps, "reserve" \notin Faults,
           RefInv, TailInv, [Next]_vars
    PROVE  TailInv'
<1>. USE DEF TailInv
<1>1. CASE Call
  BY <1>1 DEF Call, Generate
<1>2. CASE EnterLoop \/ LeaveLoop \/ RunOutside \/ SampleNothing \/ Abort \/ UNCHANGED vars
  <2>1. /\ UNCHANGED <<n_past, cache, initial_run, curr_input_ids, output_ids>>
        /\ pc' = pc \/ pc' \in {"feed", "loop", "idle", "crashed"}
    BY <1>2 DEF EnterLoop, LeaveLoop, RunOutside, SampleNothing, Abort, vars,
                modelVars, callVars
  <2>2. CASE LeaveLoop \/ RunOutside
    BY <2>2 DEF LeaveLoop, RunOutside
  <2>3. CASE EnterLoop \/ SampleNothing \/ Abort \/ UNCHANGED vars
    <3>1. completed' = completed /\ (pc' = "feed" => ~completed)
      BY <2>3 DEF EnterLoop, LoopGuard, SampleNothing, Abort, vars, callVars
    <3>2. pc' \in {"loop", "feed", "sample"} => pc \in {"loop", "feed", "sample"}
      BY <2>3 DEF EnterLoop, SampleNothing, Abort, vars, callVars
    <3>3. pc' = "sample" => pc = "sample"
      BY <2>3 DEF EnterLoop, SampleNothing, Abort, vars, callVars
    <3>4. OutputInv => OutputInv'
      BY <2>1, <3>1 DEF OutputInv, Held, Waits
    <3>. QED BY <2>1, <3>1, <3>2, <3>3, <3>4
  <2>. QED BY <1>2, <2>2, <2>3
<1>3. CASE RunBatch
  <2>1. /\ pc = "feed" /\ pc' = "feed" /\ completed' = completed
        /\ UNCHANGED <<curr_input_ids, output_ids>> /\ RunLength < Remain
    BY <1>3 DEF RunBatch
  <2>2. RunLength = Batch /\ Remain > Batch
    <3>1. Remain \in Int
      BY DEF RefInv, TypeInv, TypeOK, Remain
    <3>. QED BY <2>1, <3>1 DEF RunLength
  <2>3. Len(curr_input_ids) > 1
    BY <2>1, <2>2, ModelContextAssumption DEF Remain, RefInv, TypeInv, TypeOK
  <2>4. output_ids = <<>>
    BY <2>1, <2>3 DEF OutputInv, RefInv, TypeInv, TypeOK
  <2>. QED BY <2>1, <2>4
<1>4. CASE RunLast
  BY <1>4, LastRunTail
<1>5. CASE RunNoMemory
  <2>1. /\ pc = "feed" /\ pc' = "loop" /\ n_past' = n_past /\ initial_run'
        /\ UNCHANGED <<cache, curr_input_ids, output_ids, completed>>
    BY <1>5 DEF RunNoMemory, PastAfterRun, RefInv, FreshInv
  <2>2. OutputInv => OutputInv'
    BY <2>1 DEF OutputInv, Held, Waits
  <2>. QED BY <2>1, <2>2
<1>6. CASE \E t \in Token : Sample(t)
  BY <1>6, SampleTail
<1>7. CASE (\E n \in 0 .. MaxLength : Rewind(n)) \/ SaveSession \/ LoadSession
  BY <1>7 DEF Rewind, SaveSession, LoadSession, callVars
<1>. HIDE DEF TailInv
<1>. QED BY <1>1, <1>2, <1>3, <1>4, <1>5, <1>6, <1>7 DEF Next, Step, Run, ReserveNoMemory

LEMMA TailOf ==
    ASSUME NEW s \in Seq(Token), NEW t \in Seq(Token), Len(s) <= Len(t),
           \A i \in 1 .. Len(s) : t[Len(t) - Len(s) + i] = s[i]
    PROVE  IsTail(s, t)
<1>. DEFINE u == SubSeq(t, Len(t) - Len(s) + 1, Len(t))
<1>1. /\ u \in Seq(Token) /\ Len(u) = Len(s)
      /\ \A i \in 1 .. Len(s) : u[i] = t[Len(t) - Len(s) + i]
  OBVIOUS
<1>. HIDE DEF u
<1>2. u = s
  BY <1>1, SeqEqual
<1>. QED BY <1>2 DEF u, IsTail

LEMMA OutputIsTail ==
    ASSUME RefInv, TailInv, pc = "loop", output_ids # <<>>
    PROVE  IsTail(Cached, View)
<1>1. /\ View = Plain(cache, n_past) /\ View \in Seq(Token) /\ Len(View) = n_past
      /\ n_past \in Nat
  BY ViewInv DEF RefInv, TypeInv, TypeOK
<1>2. output_ids \in Seq(Token) /\ Len(output_ids) \in Nat \ {0}
  BY DEF RefInv, TypeInv, TypeOK
<1>3. /\ Held <= n_past
      /\ \A i \in 1 .. Held : cache[n_past - Held + i - 1] = output_ids[i]
  BY DEF TailInv, OutputInv
<1>4. Held \in 0 .. Len(output_ids)
  BY <1>2 DEF Held
<1>5. /\ Cached \in Seq(Token) /\ Len(Cached) = Held
      /\ \A i \in 1 .. Held : Cached[i] = output_ids[i]
  <2>1. CASE Waits
    <3>1. Held = Len(output_ids) - 1 /\ Cached = SubSeq(output_ids, 1, Held)
      BY <2>1 DEF Waits, Held, Cached
    <3>. QED BY <1>2, <1>4, <3>1, SubSeqPrefix
  <2>2. CASE ~Waits
    <3>1. Held = Len(output_ids) /\ Cached = output_ids
      BY <2>2 DEF Waits, Held, Cached
    <3>. QED BY <1>2, <3>1
  <2>. QED BY <2>1, <2>2
<1>6. ASSUME NEW i \in 1 .. Held
      PROVE  View[n_past - Held + i] = Cached[i]
  <2>1. n_past - Held + i \in 1 .. n_past
    BY <1>1, <1>3, <1>4
  <2>2. \A k \in 1 .. n_past : View[k] = cache[k - 1]
    BY <1>1 DEF Plain
  <2>3. View[n_past - Held + i] = cache[n_past - Held + i - 1]
    <3>. DEFINE k == n_past - Held + i
    <3>1. k \in 1 .. n_past
      BY <2>1
    <3>. HIDE DEF k
    <3>2. View[k] = cache[k - 1]
      BY <2>2, <3>1
    <3>3. k - 1 = n_past - Held + i - 1
      BY <1>1, <1>4 DEF k
    <3>. QED BY <3>2, <3>3 DEF k
  <2>. QED BY <1>3, <1>5, <2>3
<1>. QED BY <1>1, <1>3, <1>5, <1>6, TailOf

\* What generate returns is the end of the context it leaves, but for the token
\* it did not come to run, for every prompt, batch and limit, through aborts,
\* failed allocations, rewinds and sessions of one process.
THEOREM OutputIsInContext ==
    ASSUME "shift" \notin ClientOps, "exec" \notin ClientOps, "reserve" \notin Faults
    PROVE  Spec => OutputIsContextTail
<1>1. Init => RefInv /\ TailInv
  BY TypeInit DEF Init, RefInv, NoShiftInv, FreshInv, RowsInv, BatchInv, NoShift, TailInv
<1>2. RefInv /\ TailInv /\ [Next]_vars => RefInv' /\ TailInv'
  BY RefStep, TailStep
<1>3. RefInv /\ TailInv => (pc = "loop" /\ output_ids # <<>> => IsTail(Cached, View))
  BY OutputIsTail
<1>4. RefInv /\ TailInv =>
        (pc = "loop" /\ pc' = "idle" /\ output_ids # <<>> => IsTail(Cached, View))
  BY <1>3
<1>. QED BY <1>1, <1>2, <1>4, PTL DEF Spec, OutputIsContextTail
-----------------------------------------------------------------------------
(* What generate has left to do.  Each token the model is run on takes a    *)
(* row, the first run of a process gives them back once, and between two    *)
(* rows that are taken there are at most MaxLength + 2 other steps.         *)

StepsOfRow == MaxLength + 3
StepsAbove(n) == StepsOfRow * (MaxLength - n)

Stage == CASE pc = "feed"   -> Remain
           [] pc = "sample" -> MaxLength + 2
           [] OTHER         -> MaxLength + 1

FirstRunSteps == IF initial_run THEN 0 ELSE StepsAbove(0) + StepsOfRow

Stopping == pc = "loop" /\ (aborted \/ completed)

Fuel == IF pc \in {"idle", "crashed"} THEN 0
        ELSE IF Stopping THEN 1
        ELSE 2 + StepsAbove(n_past) + Stage + FirstRunSteps

LEMMA FewerRows ==
    ASSUME NEW n \in 0 .. MaxLength
    PROVE  /\ StepsAbove(n) \in Nat
           /\ \A m \in 0 .. MaxLength :
                n < m => StepsAbove(m) + StepsOfRow <= StepsAbove(n)
           /\ StepsAbove(n) <= StepsAbove(0)
<1>. USE ModelContextAssumption
<1>1. ASSUME NEW k \in Nat, NEW a \in Nat PROVE k * a \in Nat
  BY <1>1
<1>2. ASSUME NEW k \in Nat, NEW a \in Nat, NEW d \in Nat
      PROVE  k * (a + d) = k * a + k * d
  BY <1>2
<1>3. StepsOfRow \in Nat
  BY DEF StepsOfRow
<1>4. ASSUME NEW a \in Nat, NEW b \in Nat, a < b
      PROVE  StepsOfRow * a + StepsOfRow <= StepsOfRow * b
  <2>1. PICK d \in Nat : b = (a + 1) + d
    <3>1. b - (a + 1) \in Nat /\ b = (a + 1) + (b - (a + 1))
      BY <1>4
    <3>. QED BY <3>1
  <2>2. StepsOfRow * b = StepsOfRow * (a + 1) + StepsOfRow * d
    BY <1>2, <1>3, <2>1
  <2>3. StepsOfRow * (a + 1) = StepsOfRow * a + StepsOfRow * 1
    BY <1>2, <1>3
  <2>4. StepsOfRow * d \in Nat /\ StepsOfRow * a \in Nat /\ StepsOfRow * 1 = StepsOfRow
    BY <1>1, <1>3
  <2>. HIDE DEF StepsOfRow
  <2>. QED BY <1>3, <2>2, <2>3, <2>4
<1>5. MaxLength - n \in Nat /\ MaxLength \in Nat /\ MaxLength - 0 = MaxLength
  OBVIOUS
<1>6. StepsAbove(n) \in Nat
  BY <1>1, <1>3, <1>5 DEF StepsAbove
<1>7. ASSUME NEW m \in 0 .. MaxLength, n < m
      PROVE  StepsAbove(m) + StepsOfRow <= StepsAbove(n)
  <2>1. MaxLength - m \in Nat /\ MaxLength - m < MaxLength - n
    BY <1>7
  <2>. QED BY <1>4, <1>5, <2>1 DEF StepsAbove
<1>8. StepsAbove(n) <= StepsAbove(0)
  <2>1. CASE n = 0
    BY <1>6, <2>1
  <2>2. CASE n > 0
    <3>1. MaxLength - n < MaxLength
      BY <2>2
    <3>2. StepsOfRow * (MaxLength - n) + StepsOfRow <= StepsOfRow * MaxLength
      BY <1>4, <1>5, <3>1
    <3>3. StepsOfRow * MaxLength \in Nat /\ StepsOfRow * (MaxLength - n) \in Nat
      BY <1>1, <1>3, <1>5
    <3>4. StepsAbove(n) + StepsOfRow <= StepsAbove(0)
      BY <1>5, <3>2 DEF StepsAbove
    <3>5. StepsAbove(0) \in Nat
      BY <1>5, <3>3 DEF StepsAbove
    <3>. QED BY <1>3, <1>6, <3>4, <3>5
  <2>. QED BY <2>1, <2>2
<1>. QED BY <1>6, <1>7, <1>8
LEMMA FuelType ==
    ASSUME TypeInv
    PROVE  /\ Fuel \in Nat
           /\ pc \in {"loop", "feed", "sample"} => Fuel >= 1
           /\ pc \in {"feed", "sample"} => Fuel >= 2
<1>1. n_past \in 0 .. MaxLength /\ 0 \in 0 .. MaxLength /\ MaxLength \in Nat
  BY ModelContextAssumption DEF TypeInv, TypeOK
<1>2. StepsAbove(n_past) \in Nat /\ StepsAbove(0) \in Nat /\ StepsOfRow \in Nat
  BY <1>1, FewerRows DEF StepsOfRow
<1>3. FirstRunSteps \in Nat
  BY <1>2 DEF FirstRunSteps
<1>4. Stage \in Nat
  BY <1>1, RunIdsType DEF Stage, TypeInv, TypeOK
<1>. QED BY <1>2, <1>3, <1>4 DEF Fuel, Stopping

LEMMA FuelIsNat == TypeInv => Fuel \in Nat
BY FuelType

LEMMA FuelTypeNext == (TypeInv => Fuel \in Nat)'
BY FuelIsNat, PTL

\* A run of the model: its tokens are counted, or what remains gets less.
LEMMA RunUsesFuel ==
    ASSUME TypeInv, TypeInv', Run
    PROVE  Fuel' < Fuel
<1>. USE ModelContextAssumption DEF TypeInv, TypeOK
<1>1. /\ pc = "feed" /\ n_past \in 0 .. MaxLength /\ n_past' \in 0 .. MaxLength
      /\ MaxLength \in Nat
  BY DEF Run, RunBatch, RunLast, RunOutside, RunNoMemory, ReserveNoMemory
<1>2. /\ Fuel = 2 + StepsAbove(n_past) + Remain + FirstRunSteps
      /\ Fuel \in Nat /\ Fuel >= 2
  BY <1>1, FuelType DEF Fuel, Stopping, Stage
<1>3. /\ Remain \in Nat /\ RunLength \in Nat /\ RunLength <= Remain
      /\ Remain = Len(curr_input_ids) - fed /\ Len(curr_input_ids) \in Nat /\ fed \in Nat
  BY <1>1, RunIdsType DEF Remain
<1>4. /\ StepsAbove(n_past) \in Nat /\ StepsAbove(0) \in Nat /\ StepsAbove(n_past') \in Nat
      /\ StepsOfRow = MaxLength + 3
      /\ n_past < n_past' => StepsAbove(n_past') + StepsOfRow <= StepsAbove(n_past)
      /\ 0 < n_past' => StepsAbove(n_past') + StepsOfRow <= StepsAbove(0)
      /\ StepsAbove(n_past') <= StepsAbove(0)
  BY <1>1, FewerRows, SMTT(40) DEF StepsOfRow
<1>. HIDE ModelContextAssumption DEF TypeInv, TypeOK
<1>5. CASE RunOutside
  <2>1. Fuel' = 0
    BY <1>5 DEF RunOutside, Fuel
  <2>. QED BY <1>2, <2>1
<1>6. CASE RunNoMemory \/ ReserveNoMemory
  <2>1. Fuel' = 1
    BY <1>6 DEF RunNoMemory, ReserveNoMemory, Fuel, Stopping
  <2>. QED BY <1>2, <2>1
<1>7. CASE RunBatch
  <2>1. /\ pc' = "feed" /\ initial_run' /\ n_past' = PastAfterRun
        /\ fed' = fed + RunLength /\ curr_input_ids' = curr_input_ids
        /\ RunLength < Remain
    BY <1>1, <1>7 DEF RunBatch, RunModel
  <2>2. RunLength >= 1
    BY <1>3, <2>1, ModelContextAssumption DEF RunLength
  <2>3. Remain' < Remain /\ Remain' \in Nat
    BY <1>3, <2>1, <2>2 DEF Remain
  <2>4. Fuel' = 2 + StepsAbove(n_past') + Remain' + 0
    BY <2>1 DEF Fuel, Stopping, Stage, FirstRunSteps, StepsAbove, StepsOfRow
  <2>5. CASE initial_run
    <3>1. n_past' = n_past /\ FirstRunSteps = 0
      BY <2>1, <2>5 DEF PastAfterRun, FirstRunSteps
    <3>2. StepsAbove(n_past') = StepsAbove(n_past)
      BY <3>1
    <3>. QED BY <1>2, <1>3, <1>4, <2>3, <2>4, <3>1, <3>2
  <2>6. CASE ~initial_run
    <3>1. FirstRunSteps = StepsAbove(0) + StepsOfRow
      BY <2>6 DEF FirstRunSteps
    <3>. QED BY <1>1, <1>2, <1>3, <1>4, <2>3, <2>4, <3>1, SMTT(40)
  <2>. QED BY <2>5, <2>6
<1>8. CASE RunLast
  <2>1. /\ initial_run' /\ n_past' = PastAfterRun + Len(curr_input_ids)
        /\ curr_input_ids' = <<>> /\ completed' = (Len(curr_input_ids) = 0)
        /\ pc' = IF Len(curr_input_ids) = 0 THEN "loop" ELSE "sample"
    BY <1>8 DEF RunLast, RunModel, Fed
  <2>2. CASE Len(curr_input_ids) = 0
    <3>1. Fuel' = 1
      BY <2>1, <2>2 DEF Fuel, Stopping
    <3>. QED BY <1>2, <3>1
  <2>3. CASE Len(curr_input_ids) # 0
    <3>1. pc' = "sample"
      BY <2>1, <2>3
    <3>2. Fuel' = 2 + StepsAbove(n_past') + (MaxLength + 2) + 0
      BY <2>1, <3>1 DEF Fuel, Stopping, Stage, FirstRunSteps, StepsAbove, StepsOfRow
    <3>3. CASE initial_run
      <4>1. n_past < n_past' /\ FirstRunSteps = 0
        BY <1>1, <1>3, <2>1, <2>3, <3>3 DEF PastAfterRun, FirstRunSteps
      <4>. QED BY <1>1, <1>2, <1>3, <1>4, <3>2, <4>1
    <3>4. CASE ~initial_run
      <4>1. FirstRunSteps = StepsAbove(0) + StepsOfRow /\ 0 < n_past'
        BY <1>3, <2>1, <2>3, <3>4 DEF FirstRunSteps, PastAfterRun
      <4>. QED BY <1>1, <1>2, <1>3, <1>4, <3>2, <4>1, SMTT(40)
    <3>. QED BY <3>3, <3>4
  <2>. QED BY <2>2, <2>3
<1>. QED BY <1>5, <1>6, <1>7, <1>8 DEF Run

\* The other steps of the loop.
LEMMA LoopUsesFuel ==
    ASSUME TypeInv, TypeInv',
           EnterLoop \/ LeaveLoop \/ SampleNothing \/ \E t \in Token : Sample(t)
    PROVE  Fuel' < Fuel
<1>. USE ModelContextAssumption DEF TypeInv, TypeOK
<1>1. /\ n_past \in 0 .. MaxLength /\ MaxLength \in Nat /\ StepsAbove(n_past) \in Nat
      /\ StepsAbove(0) \in Nat /\ StepsOfRow \in Nat
  BY FewerRows DEF StepsOfRow
<1>2. FirstRunSteps \in Nat
  BY <1>1 DEF FirstRunSteps
<1>3. /\ curr_input_ids \in Seq(Token) /\ Len(curr_input_ids) \in Nat
      /\ aborted \in BOOLEAN /\ completed \in BOOLEAN
  OBVIOUS
<1>. HIDE ModelContextAssumption DEF TypeInv, TypeOK
<1>4. CASE EnterLoop
  <2>1. /\ pc = "loop" /\ pc' = "feed" /\ ~aborted /\ ~completed
        /\ n_past' = n_past /\ initial_run' = initial_run
        /\ curr_input_ids' = curr_input_ids /\ fed' = 0
        /\ n_past + Len(curr_input_ids) < MaxLength
    BY <1>4 DEF EnterLoop, LoopGuard, modelVars
  <2>2. Fuel = 2 + StepsAbove(n_past) + (MaxLength + 1) + FirstRunSteps
    BY <2>1 DEF Fuel, Stopping, Stage
  <2>3. Remain' = Len(curr_input_ids) /\ Len(curr_input_ids) \in Nat
    BY <1>3, <2>1 DEF Remain
  <2>4. StepsAbove(n_past)' = StepsAbove(n_past) /\ FirstRunSteps' = FirstRunSteps
    BY <2>1 DEF StepsAbove, StepsOfRow, FirstRunSteps
  <2>5. Fuel' = 2 + StepsAbove(n_past) + Len(curr_input_ids) + FirstRunSteps
    BY <2>1, <2>3, <2>4 DEF Fuel, Stopping, Stage
  <2>. QED BY <1>1, <1>2, <1>3, <2>1, <2>2, <2>3, <2>5
<1>5. CASE LeaveLoop
  <2>1. Fuel' = 0 /\ Fuel >= 1 /\ Fuel \in Nat
    BY <1>5, FuelType DEF LeaveLoop, Fuel
  <2>. QED BY <2>1
<1>6. CASE SampleNothing
  <2>1. Fuel' = 1 /\ Fuel >= 2 /\ Fuel \in Nat
    BY <1>6, FuelType DEF SampleNothing, Fuel, Stopping
  <2>. QED BY <2>1
<1>7. ASSUME NEW t \in Token, Sample(t) PROVE Fuel' < Fuel
  <2>1. /\ pc = "sample" /\ pc' = "loop" /\ n_past' = n_past /\ initial_run' = initial_run
    BY <1>7 DEF Sample, modelVars
  <2>2. Fuel = 2 + StepsAbove(n_past) + (MaxLength + 2) + FirstRunSteps
    BY <2>1 DEF Fuel, Stopping, Stage
  <2>3. StepsAbove(n_past)' = StepsAbove(n_past) /\ FirstRunSteps' = FirstRunSteps
    BY <2>1 DEF StepsAbove, StepsOfRow, FirstRunSteps
  <2>4. Fuel' \in {1, 2 + StepsAbove(n_past) + (MaxLength + 1) + FirstRunSteps}
    BY <2>1, <2>3 DEF Fuel, Stage
  <2>. QED BY <1>1, <1>2, <2>2, <2>4
<1>. QED BY <1>4, <1>5, <1>6, <1>7

\* An abort from another thread leaves no more to do.
LEMMA AbortAddsNoFuel ==
    ASSUME TypeInv, TypeInv', Abort
    PROVE  Fuel' <= Fuel
<1>1. /\ UNCHANGED <<n_past, initial_run, curr_input_ids, fed, pc, completed>>
      /\ aborted'
  BY DEF Abort, modelVars, callVars
<1>2. Fuel \in Nat /\ (pc \in {"loop", "feed", "sample"} => Fuel >= 1)
  BY FuelType
<1>3. CASE pc = "loop"
  <2>1. Fuel' = 1
    BY <1>1, <1>3 DEF Fuel, Stopping
  <2>. QED BY <1>2, <1>3, <2>1
<1>4. CASE pc # "loop"
  <2>1. Fuel' = Fuel
    BY <1>1, <1>4 DEF Fuel, Stopping, Stage, Remain, StepsAbove, StepsOfRow, FirstRunSteps
  <2>. QED BY <1>2, <2>1
<1>. QED BY <1>3, <1>4

\* generate has only so many steps to take: each one leaves less, and until it
\* returns nothing adds to it, neither a first run, which takes the rows of the
\* context back, nor an abort or a shortage of memory.  With this GenerateReturns
\* needs no more than that the thread goes on.
THEOREM FuelIsUsed ==
    Spec => [](Fuel \in Nat) /\ [][(pc # "idle" => Fuel' <= Fuel) /\ (Step => Fuel' < Fuel)]_vars
<1>. DEFINE Uses == (pc # "idle" => Fuel' <= Fuel) /\ (Step => Fuel' < Fuel)
<1>1. TypeInv => Fuel \in Nat
  BY FuelType
<1>2. ASSUME TypeInv, TypeInv', [Next]_vars PROVE [Uses]_vars
  <2>1. Fuel \in Nat /\ Fuel' \in Nat
    BY <1>2, FuelType, FuelTypeNext
  <2>2. Step => Fuel' < Fuel
    BY <1>2, RunUsesFuel, LoopUsesFuel DEF Step
  <2>3. Abort => Fuel' <= Fuel
    BY <1>2, AbortAddsNoFuel
  <2>4. Exec => Fuel' = 0
    BY DEF Exec, Fuel
  <2>5. ASSUME pc # "idle" PROVE Step \/ Abort \/ Exec \/ UNCHANGED vars
    BY <1>2, <2>5 DEF Next, Call, Generate, Rewind, SaveSession, LoadSession, ShiftMemory
  <2>. HIDE DEF Step, Abort, Exec, Fuel
  <2>. QED BY <2>1, <2>2, <2>3, <2>4, <2>5
<1>. QED BY <1>1, <1>2, TypeInit, TypeStep, PTL DEF Spec
=============================================================================
