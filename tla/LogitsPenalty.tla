--------------------------- MODULE LogitsPenalty ----------------------------
(***************************************************************************)
(* The penalty on tokens that were chosen lately: a ring of the last       *)
(* penalty_window choices and a counter for each token of the vocabulary.  *)
(***************************************************************************)
EXTENDS Integers, Sequences

CONSTANTS
    Choice,         \* what can be sampled
    NoChoice,       \* -1 in token_history
    PenaltyWindow   \* penalty_window

ASSUME PenaltyAssumption == NoChoice \notin Choice /\ PenaltyWindow \in Nat \ {0}

VARIABLES
    token_history,  \* the ring
    hist_write,     \* where the next choice goes
    token_count,    \* the counters; there are none until process has seen the logits
    chosen          \* what was chosen since the sampler was made (history)

penaltyVars == <<token_history, hist_write, token_count, chosen>>

-----------------------------------------------------------------------------
Place == 0 .. PenaltyWindow - 1

\* A new sampler: the constructor's resize and reset.
PenaltyInit ==
    /\ token_history = [p \in Place |-> NoChoice]
    /\ hist_write = 0
    /\ token_count = <<>>
    /\ chosen = <<>>

NewSampler ==
    /\ token_history' = [p \in Place |-> NoChoice]
    /\ hist_write' = 0
    /\ token_count' = <<>>
    /\ chosen' = <<>>

\* process: the counters, which are made when it is first called.
Counters == IF token_count = <<>> THEN [t \in Choice |-> 0] ELSE token_count

AddsOnly(t) ==  \* mutant: what leaves the ring is not taken off
    /\ token_history' = [token_history EXCEPT ![hist_write] = t]
    /\ hist_write' = IF hist_write + 1 >= PenaltyWindow THEN 0 ELSE hist_write + 1
    /\ token_count' = [u \in Choice |-> Counters[u] + (IF u = t THEN 1 ELSE 0)]
    /\ chosen' = Append(chosen, t)

\* process, then accept_choice: the choice takes the place of the oldest in the
\* ring and its counter goes up as the other's goes down.
AcceptChoice(t) ==
    /\ token_history' = [token_history EXCEPT ![hist_write] = t]
    /\ hist_write' = IF hist_write + 1 >= PenaltyWindow THEN 0 ELSE hist_write + 1
    /\ token_count' = [u \in Choice |-> Counters[u]
                                        - (IF u = token_history[hist_write] THEN 1 ELSE 0)
                                        + (IF u = t THEN 1 ELSE 0)]
    /\ chosen' = Append(chosen, t)
=============================================================================
