--------------------------- MODULE ConversationMC ---------------------------
(* Small instances of Conversation for TLC. *)
EXTENDS Conversation

CONSTANTS u1, u2, a1, t1, c1, p1, p2

MCPiece == UserTexts \cup Answers \cup ToolTexts \cup Completions

\* Half of it holds the contents of any history.
Wide == 50

\* One that leaves turns, tools, restored histories and sessions to the library.
Plain == [calls |-> {"tool", "completion", "append", "history_cursor", "save", "load"},
          extending |-> "none", max_length |-> 9, max_context |-> Wide,
          save_rounds |-> 2, says |-> {u1}, prompts |-> {p1}, messages |-> 4,
          answers |-> 1]

\* One that has answers continued, and goes back to them.
Correcting == [Plain EXCEPT !.calls = {"continue", "history_cursor"}, !.max_length = Wide]

\* A long talk in a short context.
Talkative == [Plain EXCEPT !.calls = {"restart"}, !.extending = "restart",
                           !.max_context = 8, !.save_rounds = 0,
                           !.says = {u1, u2}, !.prompts = {p1, p2}, !.messages = 7]

\* One that aborts answers of several tokens, begins them, and goes back to them.
Hasty == [Plain EXCEPT !.calls = {"abort", "prefix", "tool", "history_cursor"},
                       !.max_length = 11, !.save_rounds = 0, !.messages = 3,
                       !.answers = 2]

\* The same in a context that begins anew.
Curt == [Talkative EXCEPT !.calls = {"abort", "prefix"}, !.says = {u1},
                          !.prompts = {p1}, !.messages = 5, !.answers = 2]

\* One that makes all calls, at any time.
Busy == [Plain EXCEPT !.calls = {"tool", "completion", "late_tool", "continue", "cursor",
                                 "astray", "history_cursor", "abort"},
                      !.max_length = 6, !.save_rounds = 0, !.messages = 2]

\* One whose tools speak up at any answer, a continued one included.
Helped == [Busy EXCEPT !.calls = {"tool", "continue"}]

\* One whose session files are damaged, under another system prompt.
Unlucky == [Plain EXCEPT !.calls = {"save", "load_fails", "restart", "cursor"},
                         !.max_length = 6, !.save_rounds = 0, !.messages = 2,
                         !.prompts = {p1, p2}]

\* Shifts that leave room for an exchange, and for less.
Shifting == {[Plain EXCEPT !.calls = {"restart"}, !.extending = "shift", !.answers = 3,
                           !.max_length = 6, !.max_context = keep] : keep \in {2, 4, 5}}

MCPrograms == {Plain, Correcting, Talkative, Hasty, Curt, Busy, Helped, Unlucky}
                  \cup Shifting

\* A system prompt is saved in a session, and another one is set.
MCNewPrompt == {[Plain EXCEPT !.calls = {"save", "restart"}, !.prompts = {p1, p2}]}

\* An answer is continued, the history being longer than half of the context.
MCLongAnswer == {[Plain EXCEPT !.calls = {"continue"}]}

\* A window that fills the context but for one position.
MCFullWindow == {p \in Shifting : p.max_context + 1 >= p.max_length}
=============================================================================
