--------------------------- MODULE SessionFileMC ---------------------------
(* Small instances of SessionFile for TLC. *)
EXTENDS SessionFile

Text(n)  == [type |-> 0, data |-> [i \in 1 .. n |-> 7]]
Image    == [type |-> 1, data |-> <<9>>]
MCPiece  == {Text(0), Text(1), Text(2), Image}

Msg(role, content, rnd, pos) == [role |-> role, content |-> content,
                                 round |-> rnd, tok_pos |-> pos]

Asked    == {<<Text(0)>>, <<Text(1), Image>>}
Answered == {<<Text(0)>>, <<Text(2)>>}

\* No message, one question, or a question with its answer.
MCHistories ==
    {<<>>} \cup {<<Msg("User", q, 0, -1)>> : q \in Asked}
           \cup {<<Msg("User", q, 0, -1), Msg("Assistant", a, 0, pos)>> :
                    q \in Asked, a \in Answered, pos \in {0, 3, 5}}

MCMagic     == <<67, 72>>
MCModelType == <<1, 2>>
MCCaches    == {<<3, 4>>, <<5, 6>>}
=============================================================================
