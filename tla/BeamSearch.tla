----------------------------- MODULE BeamSearch -----------------------------
(***************************************************************************)
(* BeamSearchPipeline: several answers to one prompt are extended in step, *)
(* by one model whose cache holds one of them at a time.  Each beam keeps  *)
(* the model's state for its own trace in a ModelSessionMemory.            *)
(*                                                                         *)
(* Which candidates score best is the model's choice: any N of them, in    *)
(* any order (nth_element does not sort), and a new score may or may not   *)
(* beat that of a beam that has ended.                                     *)
(***************************************************************************)
EXTENDS Integers, Sequences, FiniteSets

CONSTANTS
    Token,      \* the vocabulary
    EOS,        \* its terminate token
    N,          \* beams.size()
    Prompt,     \* the tokens of the prompt, a number
    MaxLength   \* gen_config.max_length

ASSUME BeamAssumption ==
    /\ IsFiniteSet(Token) /\ EOS \in Token /\ N \in 1 .. Cardinality(Token)
    /\ Prompt \in Nat /\ MaxLength \in Nat \ {0}

VARIABLES
    beams,          \* what each beam has said, and what its session holds
    selected,       \* selected_ids and selected_traces
    updated,        \* updated_beams
    candidates,     \* candidates: the selections left over, a set: in the order of
                    \* their numbers
    taken,          \* the beams that pass 2 gave another beam's session (ghost)
    phase

vars == <<beams, selected, updated, candidates, taken, phase>>

-----------------------------------------------------------------------------
Beam == 1 .. N

\* mixed: the session was copied from a beam that had lost its own (ghost).
Fresh == [trace |-> <<>>, completed |-> FALSE, session |-> <<>>, mixed |-> FALSE]

Ends(token, length) == token = EOS \/ length >= MaxLength

\* Beam::add to a beam that says trace.
Add(beam, trace, token) ==
    [beam EXCEPT !.trace = Append(trace, token),
                 !.completed = Ends(token, Len(trace) + 1)]

Completed == {b \in Beam : beams[b].completed}
Live == Beam \ Completed        \* remaining_beams
R == Cardinality(Live)

Last(s) == s[Len(s)]

\* Loops over beams, and over selections, go up: the place of x in such a loop.
Rank(S, x) == Cardinality({y \in S : y <= x})

\* topk_sampling over the scores of all live beams: N different candidates.
TopK ==
    {s \in [Beam -> Live \X Token] : \A i, j \in Beam : s[i] = s[j] => i = j}

-----------------------------------------------------------------------------
Init ==
    /\ beams = [b \in Beam |-> Fresh]
    /\ selected = <<>> /\ updated = {} /\ candidates = {} /\ taken = {}
    /\ phase = "prompt"

\* do_chat0: the prompt is run, and each beam begins with one of the best tokens.
DoChat0 ==
    /\ phase = "prompt"
    /\ \E s \in [Beam -> Token] :
           /\ \A i, j \in Beam : s[i] = s[j] => i = j
           /\ beams' = [b \in Beam |-> Add(Fresh, <<>>, s[b])]
    /\ phase' = "run"
    /\ UNCHANGED <<selected, updated, candidates, taken>>

RunWithoutLoad ==  \* mutant: the model goes on from the last beam that ran
    /\ phase = "run" /\ Live # {}
    /\ LET first == CHOOSE b \in Live : \A c \in Live : b <= c IN
       beams' = [b \in Beam |-> IF b \notin Live THEN beams[b]
                                ELSE [beams[b] EXCEPT !.session =
                                        Append(beams[first].session, Last(beams[b].trace))]]
    /\ phase' = "select"
    /\ UNCHANGED <<selected, updated, candidates, taken>>

\* Each live beam's state is loaded, its last token run, and the state saved.
RunBeams ==
    /\ phase = "run" /\ Live # {}
    /\ beams' = [b \in Beam |-> IF b \notin Live THEN beams[b]
                                ELSE [beams[b] EXCEPT !.session = Append(@, Last(beams[b].trace))]]
    /\ phase' = "select"
    /\ UNCHANGED <<selected, updated, candidates, taken>>

\* The candidates with the best scores, and the traces they go on from.
Select ==
    /\ phase = "select"
    /\ \E s \in TopK :
           selected' = [i \in Beam |-> [beam |-> s[i][1], token |-> s[i][2],
                                        trace |-> beams[s[i][1]].trace]]
    /\ phase' = "extend"
    /\ UNCHANGED <<beams, updated, candidates, taken>>

\* The first of a beam's selections, among as many as there are live beams.
Firsts == {i \in 1 .. R : \A j \in 1 .. i - 1 : selected[j].beam # selected[i].beam}

ExtendPastLive ==  \* mutant: the loop goes over all selections
    /\ phase = "extend"
    /\ beams' = [b \in Beam |->
           IF \E i \in Firsts : selected[i].beam = b
           THEN LET i == CHOOSE i \in Firsts : selected[i].beam = b
                IN  Add(beams[b], beams[b].trace, selected[i].token)
           ELSE beams[b]]
    /\ updated' = {selected[i].beam : i \in Firsts}
    /\ candidates' = Beam \ Firsts
    /\ phase' = "share"
    /\ UNCHANGED <<selected, taken>>

\* Pass 1: a beam goes on with the first selection of its own.
Extend ==
    /\ phase = "extend"
    /\ beams' = [b \in Beam |->
           IF \E i \in Firsts : selected[i].beam = b
           THEN LET i == CHOOSE i \in Firsts : selected[i].beam = b
                IN  Add(beams[b], beams[b].trace, selected[i].token)
           ELSE beams[b]]
    /\ updated' = {selected[i].beam : i \in Firsts}
    /\ candidates' = (1 .. R) \ Firsts
    /\ phase' = "share"
    /\ UNCHANGED <<selected, taken>>

KeepsSession(b, i) ==  \* mutant: the session is not copied
    [Add(Fresh, selected[i].trace, selected[i].token) EXCEPT
        !.session = beams[b].session, !.mixed = beams[b].mixed]

\* A beam becomes the continuation that a selection stands for.
Becomes(b, i) ==
    [Add(Fresh, selected[i].trace, selected[i].token) EXCEPT
        !.session = beams[selected[i].beam].session,
        !.mixed = beams[selected[i].beam].mixed \/ selected[i].beam \in taken]

ShareFirst ==  \* mutant: candidate_id is not advanced
    /\ phase = "share"
    /\ LET first == CHOOSE i \in candidates : Rank(candidates, i) = 1 IN
       beams' = [b \in Beam |-> IF b \in Live \ updated THEN Becomes(b, first)
                                                         ELSE beams[b]]
    /\ taken' = Live \ updated
    /\ updated' = updated \cup Live
    /\ phase' = "displace"
    /\ UNCHANGED <<selected, candidates>>

\* Pass 2: a live beam without a selection takes the next one left over.
Share ==
    /\ phase = "share"
    /\ taken' = Live \ updated
    /\ beams' = [b \in Beam |->
           IF b \in taken'
           THEN Becomes(b, CHOOSE i \in candidates : Rank(candidates, i) = Rank(taken', b))
           ELSE beams[b]]
    /\ updated' = updated \cup Live
    /\ phase' = "displace"
    /\ UNCHANGED <<selected, candidates>>

DisplaceByLast ==  \* mutant: selection begins one too low
    /\ phase = "displace"
    /\ \E worse \in SUBSET (Beam \ updated) :
           beams' = [b \in Beam |->
               IF b \in worse THEN Becomes(b, Cardinality(updated) - 1 + Rank(worse, b))
                              ELSE beams[b]]
    /\ selected' = <<>> /\ updated' = {} /\ candidates' = {} /\ taken' = {}
    /\ phase' = "run"

\* Pass 3: the remaining selections displace beams that had ended before, unless
\* these score higher.
Displace ==
    /\ phase = "displace"
    /\ \E worse \in SUBSET (Beam \ updated) :
           beams' = [b \in Beam |->
               IF b \in worse THEN Becomes(b, Cardinality(updated) + Rank(worse, b))
                              ELSE beams[b]]
    /\ selected' = <<>> /\ updated' = {} /\ candidates' = {} /\ taken' = {}
    /\ phase' = "run"

DoneByEos ==  \* mutant: only beams that end with EOS count as completed here
    /\ phase = "run" /\ \A b \in Beam : Last(beams[b].trace) = EOS
    /\ phase' = "done"
    /\ UNCHANGED <<beams, selected, updated, candidates, taken>>

\* No beam is live.
Done ==
    /\ phase = "run" /\ Live = {}
    /\ phase' = "done"
    /\ UNCHANGED <<beams, selected, updated, candidates, taken>>

-----------------------------------------------------------------------------
Next ==
    DoChat0 \/ RunBeams \/ Select \/ Extend \/ Share \/ Displace \/ Done

Spec == Init /\ [][Next]_vars /\ WF_vars(Next)

-----------------------------------------------------------------------------
(* Properties. *)

\* Every variable has its type.
TypeOK ==
    /\ beams \in [Beam -> [trace : Seq(Token), completed : BOOLEAN,
                           session : Seq(Token), mixed : BOOLEAN]]
    /\ selected \in {<<>>} \cup [Beam -> [beam : Beam, token : Token, trace : Seq(Token)]]
    /\ updated \subseteq Beam /\ taken \subseteq Beam
    /\ candidates \subseteq Beam
    /\ phase \in {"prompt", "run", "select", "extend", "share", "displace", "done"}

\* Between two rounds a live beam's session is the model's state for its trace up
\* to the token that is run next.  (A beam that displaced an ended one by a
\* selection of a beam that pass 2 had overwritten is out of this.)
SessionIsTrace ==
    \A b \in Live : ~beams[b].mixed =>
        /\ phase = "run" => Append(beams[b].session, Last(beams[b].trace)) = beams[b].trace
        /\ phase = "select" => beams[b].session = beams[b].trace

\* No answer is said by two beams.
DistinctTraces ==
    phase \in {"run", "done"} =>
        \A b, c \in Beam : beams[b].trace = beams[c].trace => b = c

\* Pass 2 has exactly one selection left for each beam that needs one: candidates
\* is not read past its end, and none is dropped.
EnoughSelections == phase = "share" => Cardinality(Live \ updated) = Cardinality(candidates)

\* A round keeps what it selects for its live beams, whichever beam it ends up in
\* and whatever displaces the ended ones.
SelectedSurvive ==
    [][phase = "displace" =>
         \A i \in 1 .. Cardinality(updated) :
             \E b \in Beam : beams'[b].trace = Append(selected[i].trace, selected[i].token)]_vars

\* The search ends.
SearchEnds == <>(phase = "done")

\* `max total length including prompt and output' (--max_length).
PromptAndOutputFit == \A b \in Beam : Prompt + Len(beams[b].trace) <= MaxLength
=============================================================================
