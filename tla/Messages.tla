------------------------------ MODULE Messages ------------------------------
(***************************************************************************)
(* The class Messages: the history of a chat, its rounds, and the cursor   *)
(* that separates what has been encoded for the model from what has not.   *)
(*                                                                         *)
(* Data: a message's content is the sequence of the pieces pushed to it; a *)
(* piece is a member of Piece.                                             *)
(***************************************************************************)
EXTENDS Integers, Sequences

CONSTANTS
    Piece,          \* what is pushed to a content: texts, files
    MaxMessages,    \* bound: messages of a history
    MaxPieces,      \* bound: pieces of a message
    MaxRound        \* bound: rounds counted

ASSUME MessagesAssumption ==
    MaxMessages \in Nat /\ MaxPieces \in Nat \ {0} /\ MaxRound \in Nat

VARIABLES
    history,    \* the messages
    cursor,     \* messages before it have been encoded
    round       \* the round of the message pushed last, -1: none yet

messagesVars == <<history, cursor, round>>

Role    == {"User", "Assistant", "Tool"}
Message == [role : Role, content : Seq(Piece), round : Int, tok_pos : Int]

-----------------------------------------------------------------------------
(* Operators on a history h and its round rnd. *)

LastMessage(h) == h[Len(h)]

\* The role a message pushed with role Auto gets.
Talkers(h)  == {i \in DOMAIN h : h[i].role # "Tool"}
AutoRole(h) == IF \E i \in Talkers(h) : h[i].role = "User" /\ \A j \in Talkers(h) : j <= i
               THEN "Assistant" ELSE "User"

RoleOf(h, role) == IF role = "Auto" THEN AutoRole(h) ELSE role

\* auto_aggregate: a message of the role of the last one is added to it.
AggregatesIfAnswer(h, role) ==  \* mutant: only answers are put together
    h # <<>> /\ LastMessage(h).role = role /\ role = "Assistant"

Aggregates(h, role) == h # <<>> /\ LastMessage(h).role = role

\* Whoever speaks after the assistant opens a round.
OpensRoundForUser(h, role) ==  \* mutant: a tool's message stays in the round
    /\ role = "User" /\ ~Aggregates(h, role)
    /\ h = <<>> \/ LastMessage(h).role = "Assistant"

OpensRound(h, role) ==
    /\ role # "Assistant" /\ ~Aggregates(h, role)
    /\ h = <<>> \/ LastMessage(h).role = "Assistant"

RoundAfter(h, role, rnd) == IF OpensRound(h, role) THEN rnd + 1 ELSE rnd

Pushed(h, role, content, rnd) ==
    IF Aggregates(h, role)
    THEN [h EXCEPT ![Len(h)].content = @ \o content]
    ELSE Append(h, [role |-> role, content |-> content,
                    round |-> RoundAfter(h, role, rnd), tok_pos |-> -1])

\* save_token_cursor
WithTokPos(h, pos) == IF h = <<>> THEN h ELSE [h EXCEPT ![Len(h)].tok_pos = pos]

\* get_token_cursor
TokenCursor(h, c) == IF c >= 1 THEN h[c].tok_pos ELSE 0

Clamped(h, pos) == IF pos < 0 THEN 0 ELSE IF pos > Len(h) THEN Len(h) ELSE pos

-----------------------------------------------------------------------------
MessagesInit == history = <<>> /\ cursor = 0 /\ round = -1

PushBack(role, content) ==
    LET r == RoleOf(history, role) IN
    /\ Aggregates(history, r) => Len(LastMessage(history).content) < MaxPieces
    /\ Len(history) < MaxMessages /\ round < MaxRound
    /\ history' = Pushed(history, r, content, round)
    /\ round' = RoundAfter(history, r, round)
    /\ UNCHANGED cursor

ClearRoundLeft ==  \* mutant: the count of rounds survives
    /\ history' = <<>> /\ cursor' = 0 /\ UNCHANGED round

Clear == history' = <<>> /\ cursor' = 0 /\ round' = -1

ShrinkCursorLeft(size) ==  \* mutant: the cursor stays
    /\ size < Len(history)
    /\ history' = SubSeq(history, 1, size)
    /\ UNCHANGED <<cursor, round>>

\* Nobody shrinks a history to nothing: it is cleared instead.
Shrink(size) ==
    /\ size < Len(history)
    /\ history' = SubSeq(history, 1, size)
    /\ cursor' = size
    /\ UNCHANGED round

MoveCursorTo(pos) == cursor' = Clamped(history, pos) /\ UNCHANGED <<history, round>>

SaveTokenCursor(pos) ==
    /\ history' = WithTokPos(history, pos)
    /\ UNCHANGED <<cursor, round>>

MessagesNext ==
    \/ \E role \in Role \cup {"Auto"}, p \in Piece : PushBack(role, <<p>>)
    \/ Clear
    \/ \E size \in 1 .. MaxMessages : Shrink(size)
    \/ \E pos \in -1 .. MaxMessages + 1 : MoveCursorTo(pos)
    \/ \E pos \in {-1, 1} : SaveTokenCursor(pos)

MessagesSpec == MessagesInit /\ [][MessagesNext]_messagesVars

-----------------------------------------------------------------------------
(* Properties. *)

MessagesTypeOK ==
    /\ history \in Seq(Message)
    /\ cursor \in Nat
    /\ round \in Int /\ round >= -1

\* The cursor never points behind the history (encode_history reads the message
\* before it), also after messages have been taken away.
CursorInRange == cursor <= Len(history)

\* What the encoders rely on (a template wraps each turn once): two neighbours
\* never have the same role, whoever appended them and whatever was removed.
RolesAlternate ==
    \A i \in 1 .. Len(history) - 1 : history[i].role # history[i + 1].role

\* Rounds number the exchanges: they never go back, and go up where somebody
\* speaks after the assistant, also when the counter has run ahead of a history
\* that was cut.
RoundsFollowTurns ==
    \A i \in 1 .. Len(history) - 1 :
        /\ history[i].round <= history[i + 1].round
        /\ history[i].role = "Assistant" => history[i].round < history[i + 1].round

\* The system prompt is encoded in front of the first message of round 0: a
\* history whose first message was not the assistant's starts at round 0, and
\* the counter is never behind the last message.
RoundsStartAtZero ==
    history # <<>> => /\ history[1].round = IF history[1].role = "Assistant" THEN -1 ELSE 0
                      /\ LastMessage(history).round <= round
=============================================================================
