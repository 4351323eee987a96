---------------------------- MODULE TokenContext ----------------------------
(***************************************************************************)
(* What a language model's context promises to the pipeline above it: a    *)
(* sequence of at most Limit tokens that is extended at its end, cut back  *)
(* to a prefix, emptied, cut down to its most recent tokens, and written   *)
(* to or read back from a session file.  ModelContext, which holds the     *)
(* same context in KV cache cells and counters, is shown to implement it.  *)
(***************************************************************************)
EXTENDS Naturals, Sequences

CONSTANTS
    Token,      \* the vocabulary
    Limit,      \* the model's max_length
    NoSession   \* no session file has been written

VARIABLES
    context,    \* the tokens the next token is conditioned on
    stored      \* the context in the session file, or NoSession

vars == <<context, stored>>

Contexts == {s \in Seq(Token) : Len(s) <= Limit}

TypeOK == /\ context \in Contexts
          /\ stored \in Contexts \cup {NoSession}

Init == context = <<>> /\ stored = NoSession

\* New tokens are put after the ones already there, none being displaced.
Extend == /\ context' \in Contexts
          /\ Len(context') >= Len(context)
          /\ SubSeq(context', 1, Len(context)) = context
          /\ UNCHANGED stored

\* The context goes back to an earlier point (the very beginning included).
Rewind == /\ \E n \in 0 .. Len(context) : context' = SubSeq(context, 1, n)
          /\ UNCHANGED stored

\* The oldest tokens are forgotten, the most recent ones are kept.
Forget == /\ \E n \in 1 .. Len(context) :
                context' = SubSeq(context, n, Len(context))
          /\ UNCHANGED stored

Save == stored' = context /\ UNCHANGED context

Load == stored # NoSession /\ context' = stored /\ UNCHANGED stored

\* A load that fails on the way leaves as many positions as were stored; what it
\* has not written over is the same only where the two contexts begin alike.
LoadFails ==
    /\ stored # NoSession
    /\ context' \in Contexts /\ Len(context') = Len(stored)
    /\ \A n \in 0 .. Len(stored) :
            n <= Len(context) /\ SubSeq(context, 1, n) = SubSeq(stored, 1, n) =>
                SubSeq(context', 1, n) = SubSeq(stored, 1, n)
    /\ UNCHANGED stored

Next == Extend \/ Rewind \/ Forget \/ Save \/ Load \/ LoadFails

Spec == Init /\ [][Next]_vars
=============================================================================
