------------------------- MODULE Conversation_proofs -------------------------
(***************************************************************************)
(* Theorems about Messages and Conversation, for every set of pieces and   *)
(* texts, every bound and every program.                                   *)
(***************************************************************************)
EXTENDS Conversation, SequenceTheorems, FiniteSetTheorems, WellFoundedInduction,
        NaturalsInduction, TLAPS

-----------------------------------------------------------------------------
(* Messages.                                                                *)

\* RoundsFollowTurns is inductive with the counter never behind any message:
\* whichever message becomes the last one by a cut, the next is not before it.
RoundsInv ==
    /\ RoundsFollowTurns
    /\ \A i \in 1 .. Len(history) : history[i].round <= round

Inv == MessagesTypeOK /\ CursorInRange /\ RolesAlternate /\ RoundsInv

LEMMA RoleOfType ==
    ASSUME NEW h, NEW role \in Role \cup {"Auto"}
    PROVE  RoleOf(h, role) \in Role
BY DEF RoleOf, AutoRole, Role

LEMMA SubSeqPrefix ==
    ASSUME NEW S, NEW s \in Seq(S), NEW n \in 0 .. Len(s)
    PROVE  /\ SubSeq(s, 1, n) \in Seq(S) /\ Len(SubSeq(s, 1, n)) = n
           /\ \A i \in 1 .. n : SubSeq(s, 1, n)[i] = s[i]
OBVIOUS

\* What pushing makes of a history h: either its last message alone changes, in
\* its content, or one message of another role comes behind it.
PushResult(h, rnd, role, h2, rnd2) ==
    /\ h2 \in Seq(Message) /\ rnd2 \in {rnd, rnd + 1}
    /\ \/ /\ h # <<>> /\ LastMessage(h).role = role /\ rnd2 = rnd
          /\ Len(h2) = Len(h)
          /\ \A i \in 1 .. Len(h) : h2[i].role = h[i].role /\ h2[i].round = h[i].round
       \/ /\ h # <<>> => LastMessage(h).role # role
          /\ Len(h2) = Len(h) + 1
          /\ \A i \in 1 .. Len(h) : h2[i] = h[i]
          /\ h2[Len(h) + 1].role = role /\ h2[Len(h) + 1].round = rnd2
          /\ h # <<>> /\ LastMessage(h).role = "Assistant" => rnd2 = rnd + 1

LEMMA PushedCases ==
    ASSUME NEW h \in Seq(Message), NEW role \in Role, NEW content \in Seq(Piece),
           NEW rnd \in Int
    PROVE  PushResult(h, rnd, role, Pushed(h, role, content, rnd), RoundAfter(h, role, rnd))
<1>. DEFINE p == Pushed(h, role, content, rnd)
<1>1. RoundAfter(h, role, rnd) \in {rnd, rnd + 1}
  BY DEF RoundAfter
<1>2. CASE Aggregates(h, role)
  <2>1. h # <<>> /\ LastMessage(h).role = role /\ RoundAfter(h, role, rnd) = rnd
    BY <1>2 DEF Aggregates, RoundAfter, OpensRound
  <2>2. Len(h) \in DOMAIN h /\ h[Len(h)] \in Message
    BY <2>1
  <2>3. p = [h EXCEPT ![Len(h)].content = h[Len(h)].content \o content]
    BY <1>2 DEF Pushed
  <2>4. [h[Len(h)] EXCEPT !.content = h[Len(h)].content \o content] \in Message
    <3>1. h[Len(h)].content \o content \in Seq(Piece)
      BY <2>2 DEF Message
    <3>. QED BY <2>2, <3>1 DEF Message
  <2>5. p \in Seq(Message) /\ Len(p) = Len(h)
    BY <2>2, <2>3, <2>4
  <2>6. \A i \in 1 .. Len(h) : p[i].role = h[i].role /\ p[i].round = h[i].round
    BY <2>2, <2>3 DEF Message
  <2>. QED BY <2>1, <2>5, <2>6 DEF PushResult
<1>3. CASE ~Aggregates(h, role)
  <2>. DEFINE m == [role |-> role, content |-> content,
                    round |-> RoundAfter(h, role, rnd), tok_pos |-> -1]
  <2>1. m \in Message
    BY <1>1 DEF Message
  <2>2. p = Append(h, m)
    BY <1>3 DEF Pushed
  <2>3. /\ p \in Seq(Message) /\ Len(p) = Len(h) + 1
        /\ \A i \in 1 .. Len(h) : p[i] = h[i]
        /\ p[Len(h) + 1] = m
    BY <2>1, <2>2
  <2>4. h # <<>> => LastMessage(h).role # role
    BY <1>3 DEF Aggregates
  <2>5. h # <<>> /\ LastMessage(h).role = "Assistant" =>
          RoundAfter(h, role, rnd) = rnd + 1
    BY <1>3, <2>4 DEF RoundAfter, OpensRound
  <2>. QED BY <1>1, <2>3, <2>4, <2>5 DEF PushResult
<1>. QED BY <1>2, <1>3

LEMMA PushBackStep ==
    ASSUME Inv, NEW role \in Role \cup {"Auto"}, NEW p \in Piece, PushBack(role, <<p>>)
    PROVE  Inv'
<1>. DEFINE r == RoleOf(history, role)
<1>. USE DEF Inv, MessagesTypeOK
<1>1. r \in Role /\ <<p>> \in Seq(Piece)
  BY RoleOfType
<1>2. /\ history' = Pushed(history, r, <<p>>, round)
      /\ round' = RoundAfter(history, r, round) /\ cursor' = cursor
  BY DEF PushBack
<1>. HIDE DEF r
<1>3. history \in Seq(Message) /\ Len(history) \in Nat /\ round \in Int /\ round >= -1
  OBVIOUS
<1>4. PushResult(history, round, r, history', round')
  BY <1>1, <1>2, <1>3, PushedCases
<1>. USE DEF PushResult
<1>5. MessagesTypeOK' /\ CursorInRange'
  BY <1>2, <1>3, <1>4 DEF CursorInRange
<1>6. CASE /\ Len(history') = Len(history) /\ round' = round
           /\ \A i \in 1 .. Len(history) :
                history'[i].role = history[i].role /\ history'[i].round = history[i].round
  <2>1. RolesAlternate' /\ RoundsFollowTurns'
    BY <1>3, <1>6 DEF RolesAlternate, RoundsInv, RoundsFollowTurns
  <2>2. \A i \in 1 .. Len(history') : history'[i].round <= round'
    BY <1>3, <1>4, <1>6 DEF RoundsInv
  <2>. QED BY <1>5, <2>1, <2>2 DEF RoundsInv
<1>7. CASE /\ history # <<>> => LastMessage(history).role # r
           /\ Len(history') = Len(history) + 1
           /\ \A i \in 1 .. Len(history) : history'[i] = history[i]
           /\ history'[Len(history) + 1].role = r
           /\ history'[Len(history) + 1].round = round'
           /\ history # <<>> /\ LastMessage(history).role = "Assistant" =>
                round' = round + 1
  <2>1. ASSUME NEW i \in 1 .. Len(history') - 1
        PROVE  /\ history'[i].role # history'[i + 1].role
               /\ history'[i].round <= history'[i + 1].round
               /\ history'[i].role = "Assistant" => history'[i].round < history'[i + 1].round
    <3>1. CASE i < Len(history)
      BY <1>3, <1>7, <3>1 DEF RolesAlternate, RoundsInv, RoundsFollowTurns
    <3>2. CASE i = Len(history)
      <4>1. history # <<>> /\ history'[i] = LastMessage(history)
            /\ history'[i + 1].role = r /\ history'[i + 1].round = round'
        BY <1>3, <1>7, <3>2 DEF LastMessage
      <4>2. LastMessage(history).round <= round /\ LastMessage(history).role # r
        BY <1>3, <1>7, <4>1 DEF RoundsInv, LastMessage
      <4>3. LastMessage(history) \in Message
        BY <1>3, <4>1 DEF LastMessage
      <4>4. LastMessage(history).round \in Int
        BY <4>3 DEF Message
      <4>5. LastMessage(history).round <= round'
        BY <1>3, <1>4, <4>2, <4>4
      <4>6. LastMessage(history).role = "Assistant" => LastMessage(history).round < round'
        BY <1>3, <1>7, <4>1, <4>2, <4>4
      <4>. QED BY <4>1, <4>2, <4>5, <4>6
    <3>. QED BY <1>3, <1>7, <3>1, <3>2
  <2>2. RolesAlternate' /\ RoundsFollowTurns'
    BY <2>1 DEF RolesAlternate, RoundsFollowTurns
  <2>3. ASSUME NEW i \in 1 .. Len(history')
        PROVE  history'[i].round <= round'
    <3>1. CASE i <= Len(history)
      <4>1. history[i] \in Message /\ history[i].round <= round
        BY <1>3, <3>1 DEF RoundsInv
      <4>2. history[i].round \in Int /\ history'[i] = history[i]
        BY <1>3, <1>7, <3>1, <4>1 DEF Message
      <4>. QED BY <1>3, <1>4, <4>1, <4>2
    <3>2. CASE i = Len(history) + 1
      BY <1>3, <1>4, <1>7, <3>2
    <3>. QED BY <1>3, <1>7, <3>1, <3>2
  <2>. QED BY <1>5, <2>2, <2>3 DEF RoundsInv
<1>. QED BY <1>4, <1>6, <1>7

LEMMA ShrinkStep ==
    ASSUME Inv, NEW size \in 1 .. MaxMessages, Shrink(size)
    PROVE  Inv'
<1>. USE DEF Inv, MessagesTypeOK
<1>1. /\ size \in 0 .. Len(history) /\ history \in Seq(Message)
      /\ history' = SubSeq(history, 1, size) /\ cursor' = size /\ round' = round
  BY MessagesAssumption DEF Shrink
<1>2. /\ history' \in Seq(Message) /\ Len(history') = size
      /\ \A i \in 1 .. size : history'[i] = history[i]
  BY <1>1, SubSeqPrefix
<1>3. MessagesTypeOK' /\ CursorInRange'
  BY <1>1, <1>2 DEF CursorInRange
<1>4. RolesAlternate' /\ RoundsFollowTurns'
  BY <1>1, <1>2 DEF RolesAlternate, RoundsInv, RoundsFollowTurns
<1>5. \A i \in 1 .. Len(history') : history'[i].round <= round'
  BY <1>1, <1>2 DEF RoundsInv
<1>. QED BY <1>3, <1>4, <1>5 DEF RoundsInv

LEMMA OtherSteps ==
    ASSUME Inv, NEW pos \in Int,
           Clear \/ MoveCursorTo(pos) \/ SaveTokenCursor(pos) \/ UNCHANGED messagesVars
    PROVE  Inv'
<1>. USE DEF Inv, MessagesTypeOK
<1>1. CASE Clear
  BY <1>1 DEF Clear, CursorInRange, RolesAlternate, RoundsInv, RoundsFollowTurns
<1>2. CASE MoveCursorTo(pos)
  BY <1>2 DEF MoveCursorTo, Clamped, CursorInRange, RolesAlternate, RoundsInv,
              RoundsFollowTurns
<1>3. CASE SaveTokenCursor(pos)
  <2>1. CASE history = <<>>
    BY <1>3, <2>1 DEF SaveTokenCursor, WithTokPos, CursorInRange, RolesAlternate,
                      RoundsInv, RoundsFollowTurns
  <2>2. CASE history # <<>>
    <3>1. history' = [history EXCEPT ![Len(history)].tok_pos = pos]
          /\ Len(history) \in DOMAIN history /\ cursor' = cursor /\ round' = round
      BY <1>3, <2>2 DEF SaveTokenCursor, WithTokPos
    <3>. DEFINE last == history[Len(history)]
    <3>2. last \in Message /\ [last EXCEPT !.tok_pos = pos] \in Message
      <4>1. last \in Message
        BY <3>1
      <4>. QED BY <4>1 DEF Message
    <3>3. /\ history' \in Seq(Message) /\ Len(history') = Len(history)
          /\ \A i \in 1 .. Len(history) :
               history'[i].role = history[i].role /\ history'[i].round = history[i].round
      BY <3>1, <3>2 DEF Message
    <3>. QED BY <3>1, <3>3 DEF CursorInRange, RolesAlternate, RoundsInv, RoundsFollowTurns
  <2>. QED BY <2>1, <2>2
<1>4. CASE UNCHANGED messagesVars
  BY <1>4 DEF messagesVars, CursorInRange, RolesAlternate, RoundsInv, RoundsFollowTurns
<1>. QED BY <1>1, <1>2, <1>3, <1>4

LEMMA InitInv == MessagesInit => Inv
  BY DEF MessagesInit, Inv, MessagesTypeOK, CursorInRange, RolesAlternate, RoundsInv,
         RoundsFollowTurns

LEMMA NextInv == Inv /\ [MessagesNext]_messagesVars => Inv'
<1>1. -1 \in Int /\ 1 \in Int /\ -1 .. MaxMessages + 1 \subseteq Int
  BY MessagesAssumption
<1>. QED BY <1>1, PushBackStep, ShrinkStep, OtherSteps DEF MessagesNext

\* The inductive invariant holds in every state that the class can reach.
THEOREM InvHolds == MessagesSpec => []Inv
  BY InitInv, NextInv, PTL DEF MessagesSpec

\* However messages are pushed, put together, cut and cleared, every variable has
\* its type and no two neighbours have the same role.
THEOREM NeighboursDiffer == MessagesSpec => [](MessagesTypeOK /\ RolesAlternate)
<1>1. Inv => MessagesTypeOK /\ RolesAlternate
  BY DEF Inv
<1>. QED BY InvHolds, <1>1, PTL

\* The cursor never points behind the history, whatever is cut off it, however the
\* cursor is moved: the message before it can be read.
THEOREM CursorStays == MessagesSpec => []CursorInRange
<1>1. Inv => CursorInRange
  BY DEF Inv
<1>. QED BY InvHolds, <1>1, PTL

\* Rounds never go back along a history and go up behind every answer, also when
\* the counter has run ahead of a history that was cut.
THEOREM RoundsFollow == MessagesSpec => []RoundsFollowTurns
<1>1. Inv => RoundsFollowTurns
  BY DEF Inv, RoundsInv
<1>. QED BY InvHolds, <1>1, PTL

-----------------------------------------------------------------------------
\* Where rounds begin: an empty history has counted none, so that the first
\* message tells by its role which round it is in.  It is never taken away alone.
StartInv ==
    /\ history = <<>> => round = -1
    /\ history # <<>> => history[1].round = IF history[1].role = "Assistant" THEN -1 ELSE 0

LEMMA StartStep ==
    ASSUME Inv, StartInv, [MessagesNext]_messagesVars
    PROVE  StartInv'
<1>. USE DEF StartInv
<1>1. history \in Seq(Message) /\ Len(history) \in Nat /\ round \in Int
  BY DEF Inv, MessagesTypeOK
<1>2. ASSUME NEW role \in Role \cup {"Auto"}, NEW p \in Piece, PushBack(role, <<p>>)
      PROVE  StartInv'
  <2>. DEFINE r == RoleOf(history, role)
  <2>1. /\ history' = Pushed(history, r, <<p>>, round)
        /\ round' = RoundAfter(history, r, round)
    BY <1>2 DEF PushBack
  <2>2. r \in Role /\ <<p>> \in Seq(Piece)
    BY RoleOfType
  <2>. HIDE DEF r
  <2>3. CASE history = <<>>
    <3>1. history' = <<[role |-> r, content |-> <<p>>,
                        round |-> RoundAfter(history, r, round), tok_pos |-> -1]>>
      BY <2>1, <2>3 DEF Pushed, Aggregates
    <3>2. RoundAfter(history, r, round) = IF r = "Assistant" THEN -1 ELSE 0
      BY <2>3 DEF RoundAfter, OpensRound, Aggregates
    <3>. QED BY <3>1, <3>2
  <2>4. CASE history # <<>>
    <3>1. PushResult(history, round, r, history', round')
      BY <1>1, <2>1, <2>2, PushedCases
    <3>2. 1 \in 1 .. Len(history) /\ history' # <<>>
      BY <1>1, <2>4, <3>1 DEF PushResult
    <3>3. history'[1].role = history[1].role /\ history'[1].round = history[1].round
      BY <3>1, <3>2 DEF PushResult
    <3>. QED BY <2>4, <3>2, <3>3
  <2>. QED BY <2>3, <2>4
<1>3. ASSUME NEW size \in 1 .. MaxMessages, Shrink(size) PROVE StartInv'
  <2>1. /\ size \in 1 .. Len(history)
        /\ history' = SubSeq(history, 1, size) /\ round' = round
    BY <1>1, <1>3, MessagesAssumption DEF Shrink
  <2>2. Len(history') = size /\ history'[1] = history[1]
    BY <1>1, <2>1, SubSeqPrefix
  <2>. QED BY <1>1, <2>1, <2>2
<1>4. CASE Clear
  BY <1>4 DEF Clear
<1>5. ASSUME NEW pos, MoveCursorTo(pos) PROVE StartInv'
  BY <1>5 DEF MoveCursorTo
<1>6. ASSUME NEW pos \in {-1, 1}, SaveTokenCursor(pos) PROVE StartInv'
  <2>1. CASE history = <<>>
    BY <1>6, <2>1 DEF SaveTokenCursor, WithTokPos
  <2>2. CASE history # <<>>
    <3>1. history' = [history EXCEPT ![Len(history)].tok_pos = pos]
          /\ Len(history) \in DOMAIN history /\ round' = round
      BY <1>1, <1>6, <2>2 DEF SaveTokenCursor, WithTokPos
    <3>2. history[Len(history)] \in Message /\ 1 \in DOMAIN history
      BY <1>1, <3>1
    <3>3. history'[1].role = history[1].role /\ history'[1].round = history[1].round
      BY <3>1, <3>2 DEF Message
    <3>. QED BY <1>1, <2>2, <3>1, <3>3
  <2>. QED BY <2>1, <2>2
<1>7. CASE UNCHANGED messagesVars
  BY <1>7 DEF messagesVars
<1>. QED BY <1>2, <1>3, <1>4, <1>5, <1>6, <1>7 DEF MessagesNext

\* Whatever was cut or cleared before, a history whose first message is not the
\* assistant's begins at round 0, the round the system prompt goes to.
THEOREM RoundsBeginAtZero == MessagesSpec => []RoundsStartAtZero
<1>1. MessagesInit => StartInv
  BY DEF MessagesInit, StartInv
<1>2. Inv /\ StartInv /\ [MessagesNext]_messagesVars => StartInv'
  BY StartStep
<1>3. Inv /\ StartInv => RoundsStartAtZero
  <2>1. SUFFICES ASSUME Inv, StartInv, history # <<>> PROVE LastMessage(history).round <= round
    BY DEF StartInv, RoundsStartAtZero
  <2>2. Len(history) \in 1 .. Len(history)
    BY <2>1 DEF Inv, MessagesTypeOK
  <2>. QED BY <2>1, <2>2 DEF Inv, RoundsInv, LastMessage
<1>. QED BY InvHolds, <1>1, <1>2, <1>3, PTL DEF MessagesSpec

-----------------------------------------------------------------------------
(* Numbers and sequences.  Induction is made with the least number that has *)
(* not the property.                                                       *)

LEMMA NatMin ==
    ASSUME NEW T \in SUBSET Nat, T # {}
    PROVE  \E x \in T : \A y \in T : x <= y
<1>. DEFINE R == {ss \in Nat \X Nat : ss[1] < ss[2]}
<1>1. IsWellFoundedOn(R, Nat)
  BY NatLessThanWellFounded DEF OpToRel
<1>2. PICK x \in T : \A y \in T : ~(<<y, x>> \in R)
  <2>. HIDE DEF R
  <2>. QED BY <1>1, WFMin
<1>3. \A y \in T : ~(y < x)
  BY <1>2
<1>. QED BY <1>3

LEMMA NatMax ==
    ASSUME NEW n \in Nat, NEW T \in SUBSET (0 .. n), T # {}
    PROVE  \E x \in T : \A y \in T : y <= x
<1>. DEFINE U == {n - y : y \in T}
<1>1. U \in SUBSET Nat /\ U # {}
  <2>1. \A y \in T : y \in 0 .. n
    OBVIOUS
  <2>2. \A y \in T : n - y \in Nat
    BY <2>1
  <2>. QED BY <2>2
<1>2. PICK u \in U : \A v \in U : u <= v
  <2>. HIDE DEF U
  <2>. QED BY <1>1, NatMin
<1>3. PICK x \in T : u = n - x
  OBVIOUS
<1>4. \A y \in T : n - x <= n - y
  BY <1>2, <1>3
<1>. QED BY <1>4

\* f joins the first n of the sequences ss, as FlattenSeq does.
Joins(f, ss, n) ==
    f = [i \in 1 .. n |-> IF i = 1 THEN ss[i] ELSE f[i - 1] \o ss[i]]

LEMMA JoinsAt ==
    ASSUME NEW f, NEW ss, NEW n, Joins(f, ss, n), NEW i \in 1 .. n
    PROVE  f[i] = IF i = 1 THEN ss[i] ELSE f[i - 1] \o ss[i]
BY DEF Joins

LEMMA JoinsExist ==
    ASSUME NEW S, NEW ss \in Seq(Seq(S)), NEW n \in 0 .. Len(ss)
    PROVE  \E f : Joins(f, ss, n) /\ \A i \in 1 .. n : f[i] \in Seq(S)
<1>. DEFINE Holds(m) == \E f : Joins(f, ss, m) /\ \A i \in 1 .. m : f[i] \in Seq(S)
            T == {m \in Nat : m <= Len(ss) /\ ~Holds(m)}
<1>1. SUFFICES ASSUME T # {} PROVE FALSE
  OBVIOUS
<1>2. PICK m \in T : \A y \in T : m <= y
  <2>1. T \in SUBSET Nat
    OBVIOUS
  <2>. HIDE DEF T
  <2>. QED BY <1>1, <2>1, NatMin
<1>3. m \in Nat /\ m <= Len(ss) /\ ~Holds(m)
  OBVIOUS
<1>4. CASE m = 0
  <2>. DEFINE f == [i \in 1 .. 0 |-> <<>>]
  <2>1. Joins(f, ss, 0)
    BY DEF Joins
  <2>. QED BY <1>3, <1>4, <2>1
<1>5. CASE m # 0
  <2>1. m - 1 \in Nat /\ m - 1 <= Len(ss) /\ m - 1 \notin T
    <3>1. m - 1 \in Nat /\ m - 1 <= Len(ss) /\ ~(m <= m - 1)
      BY <1>3, <1>5
    <3>. HIDE DEF T
    <3>. QED BY <1>2, <3>1
  <2>2. Holds(m - 1)
    BY <2>1
  <2>3. PICK f : Joins(f, ss, m - 1) /\ \A i \in 1 .. m - 1 : f[i] \in Seq(S)
    BY <2>2
  <2>. DEFINE last == IF m = 1 THEN ss[m] ELSE f[m - 1] \o ss[m]
              g == [i \in 1 .. m |-> IF i = m THEN last ELSE f[i]]
  <2>4. last \in Seq(S)
    BY <1>3, <1>5, <2>3
  <2>5. \A i \in 1 .. m : g[i] \in Seq(S)
    <3>. HIDE DEF last
    <3>. QED BY <1>3, <2>3, <2>4
  <2>6. \A i \in 1 .. m : g[i] = IF i = 1 THEN ss[i] ELSE g[i - 1] \o ss[i]
    <3>1. \A i \in 1 .. m - 1 : f[i] = IF i = 1 THEN ss[i] ELSE f[i - 1] \o ss[i]
      BY <2>3, <1>3 DEF Joins
    <3>. QED BY <3>1, <1>3
  <2>7. Joins(g, ss, m)
    <3>1. g = [i \in 1 .. m |-> g[i]]
      OBVIOUS
    <3>. HIDE DEF g
    <3>. QED BY <2>6, <3>1 DEF Joins
  <2>. QED BY <1>3, <2>5, <2>7
<1>. QED BY <1>4, <1>5

Agree(f, g, n) == \A i \in 1 .. n : f[i] = g[i]

LEMMA JoinsAgree ==
    ASSUME NEW ss, NEW tt, NEW n \in Nat, NEW m \in Nat, n <= m,
           NEW f, NEW g, Joins(f, ss, n), Joins(g, tt, m),
           Agree(ss, tt, n)
    PROVE  Agree(f, g, n)
<1>. DEFINE T == {i \in Nat : i \in 1 .. n /\ f[i] # g[i]}
<1>1. SUFFICES ASSUME T # {} PROVE FALSE
  BY DEF Agree
<1>2. PICK i \in T : \A y \in T : i <= y
  <2>1. T \in SUBSET Nat
    OBVIOUS
  <2>. HIDE DEF T
  <2>. QED BY <1>1, <2>1, NatMin
<1>3. /\ f[i] = IF i = 1 THEN ss[i] ELSE f[i - 1] \o ss[i]
      /\ g[i] = IF i = 1 THEN tt[i] ELSE g[i - 1] \o tt[i]
  <2>1. i \in 1 .. n /\ i \in 1 .. m
    OBVIOUS
  <2>. QED BY <2>1, JoinsAt
<1>4. i # 1 => f[i - 1] = g[i - 1]
  BY <1>2
<1>5. ss[i] = tt[i]
  BY DEF Agree
<1>. QED BY <1>3, <1>4, <1>5

\* Joining sequences gives a sequence of their elements, and one more sequence
\* at the end of them comes behind it.
LEMMA Flattened ==
    ASSUME NEW S, NEW ss \in Seq(Seq(S))
    PROVE  /\ FlattenSeq(ss) \in Seq(S)
           /\ \A f : Len(ss) > 0 /\ Joins(f, ss, Len(ss)) => FlattenSeq(ss) = f[Len(ss)]
<1>1. CASE Len(ss) = 0
  BY <1>1 DEF FlattenSeq
<1>2. CASE Len(ss) > 0
  <2>. DEFINE F == CHOOSE f : Joins(f, ss, Len(ss))
  <2>1. PICK f : Joins(f, ss, Len(ss)) /\ \A i \in 1 .. Len(ss) : f[i] \in Seq(S)
    BY JoinsExist
  <2>2. Joins(F, ss, Len(ss))
    BY <2>1
  <2>3. FlattenSeq(ss) = F[Len(ss)]
    BY <1>2 DEF FlattenSeq, Joins
  <2>. HIDE DEF F
  <2>4. ASSUME NEW g, Joins(g, ss, Len(ss)) PROVE F[Len(ss)] = g[Len(ss)]
    <3>1. Agree(ss, ss, Len(ss)) /\ Len(ss) \in Nat /\ Len(ss) \in 1 .. Len(ss)
      BY <1>2 DEF Agree
    <3>2. Agree(F, g, Len(ss))
      BY ONLY <2>2, <2>4, <3>1, JoinsAgree
    <3>. QED BY ONLY <3>1, <3>2 DEF Agree
  <2>. QED BY <1>2, <2>1, <2>3, <2>4
<1>. QED BY <1>1, <1>2

LEMMA FlattenedMore ==
    ASSUME NEW S, NEW ss \in Seq(Seq(S)), NEW tt \in Seq(Seq(S)),
           Len(tt) = Len(ss) + 1, \A i \in 1 .. Len(ss) : tt[i] = ss[i]
    PROVE  FlattenSeq(tt) = FlattenSeq(ss) \o tt[Len(tt)]
<1>1. PICK f : Joins(f, tt, Len(tt)) /\ \A i \in 1 .. Len(tt) : f[i] \in Seq(S)
  BY JoinsExist
<1>2. FlattenSeq(tt) = f[Len(tt)]
  BY <1>1, Flattened
<1>3. f[Len(tt)] = IF Len(tt) = 1 THEN tt[Len(tt)] ELSE f[Len(tt) - 1] \o tt[Len(tt)]
  <2>1. Len(tt) \in 1 .. Len(tt)
    OBVIOUS
  <2>. QED BY <1>1, <2>1, JoinsAt
<1>4. CASE Len(ss) = 0
  <2>1. FlattenSeq(ss) = <<>> /\ tt[Len(tt)] \in Seq(S)
    BY <1>4 DEF FlattenSeq
  <2>. QED BY <1>2, <1>3, <1>4, <2>1
<1>5. CASE Len(ss) > 0
  <2>0. Len(ss) \in 0 .. Len(ss)
    OBVIOUS
  <2>1. PICK g : Joins(g, ss, Len(ss)) /\ \A i \in 1 .. Len(ss) : g[i] \in Seq(S)
    BY <2>0, JoinsExist
  <2>2. FlattenSeq(ss) = g[Len(ss)]
    BY <1>5, <2>1, Flattened
  <2>3. g[Len(ss)] = f[Len(ss)]
    <3>1. Len(ss) \in Nat /\ Len(tt) \in Nat /\ Len(ss) <= Len(tt) /\ Len(ss) \in 1 .. Len(ss)
      BY <1>5
    <3>2. Joins(g, ss, Len(ss)) /\ Joins(f, tt, Len(tt)) /\ Agree(ss, tt, Len(ss))
      BY <1>1, <2>1 DEF Agree
    <3>3. Agree(g, f, Len(ss))
      BY ONLY <3>1, <3>2, JoinsAgree
    <3>. QED BY ONLY <3>1, <3>3 DEF Agree
  <2>4. Len(tt) # 1 /\ Len(tt) - 1 = Len(ss)
    BY <1>5
  <2>. QED BY ONLY <1>2, <1>3, <2>2, <2>3, <2>4
<1>. QED BY <1>4, <1>5

-----------------------------------------------------------------------------
(* What the operators of encoding return. *)

LEMMA ProgramType ==
    ASSUME NEW p \in Programs
    PROVE  /\ p.max_length \in Nat /\ 2 <= p.max_length /\ p.max_length <= MaxLength
           /\ p.max_context \in Nat /\ p.save_rounds \in Int /\ p.messages \in Nat
           /\ p.says \subseteq Piece /\ p.prompts \subseteq SysPrompts
           /\ p.answers \in 0 .. MaxPieces
BY ConversationAssumption

LEMMA TextsType ==
    /\ Texts(Completions) \subseteq Seq(Piece) /\ Texts(Piece) \subseteq Seq(Piece)
    /\ \A S : \A t \in Texts(S) : Len(t) \in {0, 1}
<1>1. Completions \subseteq Piece
  BY ConversationAssumption
<1>2. ASSUME NEW S, S \subseteq Piece, NEW t \in Texts(S) PROVE t \in Seq(Piece)
  <2>1. CASE t = <<>>
    BY <2>1
  <2>2. CASE \E x \in S : t = <<x>>
    <3>1. PICK x \in S : t = <<x>>
      BY <2>2
    <3>. QED BY <1>2, <3>1
  <2>. QED BY <2>1, <2>2 DEF Texts
<1>3. ASSUME NEW S, NEW t \in Texts(S) PROVE Len(t) \in {0, 1}
  <2>1. CASE t = <<>>
    BY <2>1
  <2>2. CASE \E x \in S : t = <<x>>
    <3>1. PICK x \in S : t = <<x>>
      BY <2>2
    <3>. QED BY <3>1
  <2>. QED BY <2>1, <2>2 DEF Texts
<1>. QED BY <1>1, <1>2, <1>3

\* What a generation returns is a sequence of tokens of answers.
LEMMA OutputsType ==
    ASSUME program.answers \in Nat, NEW text \in Outputs
    PROVE  text \in Seq(Answers) /\ Len(text) <= program.answers
BY DEF Outputs, SeqOf

LEMMA AnswersType == Seq(Answers) \subseteq Seq(Piece)
BY ConversationAssumption

\* All of an output but its last token.
LEMMA RunType ==
    ASSUME NEW S, NEW text \in Seq(S)
    PROVE  /\ Run(text) \in Seq(S)
           /\ text = <<>> => Run(text) = <<>>
           /\ text # <<>> => Len(Run(text)) = Len(text) - 1
           /\ Len(Run(text)) <= Len(text)
<1>1. CASE text = <<>>
  BY <1>1 DEF Run
<1>2. CASE text # <<>>
  <2>1. Len(text) - 1 \in 0 .. Len(text)
    BY <1>2
  <2>2. Run(text) = SubSeq(text, 1, Len(text) - 1)
    BY <1>2 DEF Run, Front
  <2>. DEFINE n == Len(text) - 1
  <2>3. n \in 0 .. Len(text) /\ Run(text) = SubSeq(text, 1, n)
    BY <2>1, <2>2
  <2>. HIDE DEF n
  <2>4. Run(text) \in Seq(S) /\ Len(Run(text)) = n
    BY <2>3
  <2>5. n = Len(text) - 1 /\ n <= Len(text)
    BY <2>1 DEF n
  <2>. QED BY ONLY <1>2, <2>4, <2>5
<1>. QED BY <1>1, <1>2

LEMMA SpokenType ==
    ASSUME NEW texts \in Seq(Piece)
    PROVE  Spoken(texts) \in Seq(Items) /\ Len(Spoken(texts)) = Len(texts)
BY DEF Spoken, Items, Item, Role

LEMMA OpenType == Open \in Items
BY DEF Open, Items, Item, Role

LEMMA RenderType ==
    ASSUME NEW m \in Message
    PROVE  Render(m) \in Seq(Items)
<1>1. m.content \in Seq(Piece) /\ m.role \in Role
  BY DEF Message
<1>2. CASE m.role = "Assistant"
  <2>1. <<Open>> \in Seq(Items) /\ Spoken(m.content) \in Seq(Items)
    BY <1>1, OpenType, SpokenType
  <2>. HIDE DEF Spoken
  <2>. QED BY <1>2, <2>1 DEF Render
<1>3. CASE m.role # "Assistant"
  BY <1>1, <1>3 DEF Render, Items, Item
<1>. QED BY <1>2, <1>3

LEMMA RenderFromType ==
    ASSUME NEW h \in Seq(Message), NEW start \in 0 .. Len(h)
    PROVE  RenderFrom(h, start) \in Seq(Items)
<1>. DEFINE ss == [i \in 1 .. Len(h) - start |-> Render(h[start + i])]
<1>1. \A i \in 1 .. Len(h) - start : h[start + i] \in Message
  OBVIOUS
<1>2. Len(h) - start \in Nat
  OBVIOUS
<1>3. ss \in Seq(Seq(Items))
  BY <1>1, <1>2, RenderType
<1>4. RenderFrom(h, start) = FlattenSeq(ss)
  BY DEF RenderFrom
<1>. HIDE DEF ss
<1>. QED BY <1>3, <1>4, Flattened

LEMMA StartsType ==
    ASSUME NEW h \in Seq(Message), NEW length, cursor \in Nat
    PROVE  HistoryStart(h, length) \in 0 .. Len(h) /\ CursorStart(h) \in 0 .. Len(h)
<1>1. HistoryStart(h, length) \in 0 .. Len(h)
  <2>. DEFINE Tried == {s \in 1 .. Len(h) - 2 : (Len(h) - s) % 2 = 0}
              Full == {s \in Tried : Cardinality(PiecesFrom(h, s)) >= length}
  <2>1. HistoryStart(h, length) =
          IF Full = {} THEN 0 ELSE CHOOSE s \in Full : \A r \in Full : r <= s
    BY DEF HistoryStart
  <2>2. Full \in SUBSET (0 .. Len(h)) /\ Len(h) \in Nat
    OBVIOUS
  <2>. HIDE DEF Full
  <2>3. CASE Full = {}
    BY <2>1, <2>2, <2>3
  <2>4. CASE Full # {}
    <3>1. \E s \in Full : \A r \in Full : r <= s
      BY <2>2, <2>4, NatMax
    <3>. QED BY ONLY <2>1, <2>2, <2>4, <3>1
  <2>. QED BY <2>3, <2>4
<1>2. CursorStart(h) \in 0 .. Len(h)
  <2>. DEFINE Unanswered == {s \in cursor .. Len(h) - 1 : h[s + 1].role # "Assistant"}
  <2>1. CursorStart(h) = IF Unanswered = {} THEN Len(h)
          ELSE CHOOSE s \in Unanswered : \A r \in Unanswered : s <= r
    BY DEF CursorStart
  <2>2. Unanswered \in SUBSET Nat /\ Unanswered \subseteq 0 .. Len(h) /\ Len(h) \in Nat
    OBVIOUS
  <2>. HIDE DEF Unanswered
  <2>3. CASE Unanswered = {}
    BY <2>1, <2>2, <2>3
  <2>4. CASE Unanswered # {}
    <3>1. \E s \in Unanswered : \A r \in Unanswered : s <= r
      BY <2>2, <2>4, NatMin
    <3>. QED BY ONLY <2>1, <2>2, <2>4, <3>1
  <2>. QED BY <2>3, <2>4
<1>. QED BY <1>1, <1>2

\* An encoding is made of items; one that opens an answer is not empty.
LEMMA EncodeType ==
    ASSUME NEW h \in Seq(Message), NEW length, NEW incremental \in BOOLEAN,
           NEW opening \in BOOLEAN, cursor \in Nat, sys_prompt \in SysPrompts
    PROVE  /\ EncodeHistory(h, length, incremental, opening) \in Seq(Items)
           /\ opening => EncodeHistory(h, length, incremental, opening) # <<>>
<1>. DEFINE start == IF incremental THEN CursorStart(h) ELSE HistoryStart(h, length \div 2)
            end == IF opening THEN <<Open>> ELSE <<>>
            first == SysPromptBefore(h, start)
            rest == RenderFrom(h, start)
<1>1. EncodeHistory(h, length, incremental, opening) = first \o rest \o end
  BY DEF EncodeHistory
<1>2. rest \in Seq(Items)
  <2>1. start \in 0 .. Len(h)
    BY StartsType
  <2>. HIDE DEF start
  <2>. QED BY <2>1, RenderFromType
<1>3. first \in Seq(Items)
  <2>. HIDE DEF start
  <2>1. Sys \in Items
    BY DEF Sys, Item, Items
  <2>. QED BY <2>1 DEF SysPromptBefore
<1>4. end \in Seq(Items) /\ (opening => Len(end) = 1)
  BY OpenType
<1>. HIDE DEF first, rest, end
<1>5. first \o rest \in Seq(Items)
  BY <1>2, <1>3
<1>6. first \o rest \o end \in Seq(Items) /\ (opening => first \o rest \o end # <<>>)
  <2>. DEFINE w == first \o rest
  <2>. HIDE DEF w
  <2>1. w \in Seq(Items)
    BY <1>5 DEF w
  <2>2. w \o end \in Seq(Items) /\ Len(w \o end) = Len(w) + Len(end)
    BY <1>4, <2>1
  <2>3. opening => Len(w \o end) # 0
    BY <1>4, <2>1, <2>2, SMTT(40)
  <2>4. w \o end \in Seq(Items) /\ (opening => w \o end # <<>>)
    BY <2>2, <2>3
  <2>. QED BY <2>4 DEF w
<1>. QED BY <1>1, <1>6

LEMMA PushedType ==
    ASSUME NEW h \in Seq(Message), NEW role \in Role, NEW content \in Seq(Piece),
           NEW rnd \in Int
    PROVE  /\ Pushed(h, role, content, rnd) \in Seq(Message)
           /\ Len(h) <= Len(Pushed(h, role, content, rnd))
           /\ RoundAfter(h, role, rnd) \in {rnd, rnd + 1}
BY PushedCases DEF PushResult

LEMMA WithTokPosType ==
    ASSUME NEW h \in Seq(Message), NEW pos \in Int
    PROVE  WithTokPos(h, pos) \in Seq(Message) /\ Len(WithTokPos(h, pos)) = Len(h)
<1>1. CASE h = <<>>
  BY <1>1 DEF WithTokPos
<1>2. CASE h # <<>>
  <2>1. Len(h) \in DOMAIN h /\ h[Len(h)] \in Message
    BY <1>2
  <2>2. [h[Len(h)] EXCEPT !.tok_pos = pos] \in Message
    BY <2>1 DEF Message
  <2>. QED BY <1>2, <2>1, <2>2 DEF WithTokPos
<1>. QED BY <1>1, <1>2

LEMMA AddToLastType ==
    ASSUME NEW h \in Seq(Message), h # <<>>, NEW texts \in Seq(Piece)
    PROVE  AddToLast(h, texts) \in Seq(Message) /\ Len(AddToLast(h, texts)) = Len(h)
<1>1. Len(h) \in DOMAIN h /\ h[Len(h)] \in Message
  OBVIOUS
<1>2. h[Len(h)].content \o texts \in Seq(Piece)
  BY <1>1 DEF Message
<1>3. [h[Len(h)] EXCEPT !.content = h[Len(h)].content \o texts] \in Message
  BY <1>1, <1>2 DEF Message
<1>. QED BY <1>1, <1>3 DEF AddToLast

LEMMA RewoundType ==
    ASSUME NEW n \in Nat, context \in Seq(Items)
    PROVE  /\ RewoundTo(n) \in Seq(Items) /\ Len(RewoundTo(n)) <= Len(context)
           /\ \E k \in 0 .. Len(context) : RewoundTo(n) = SubSeq(context, 1, k)
<1>1. CASE Len(context) > n
  <2>1. n \in 0 .. Len(context)
    BY <1>1
  <2>. QED BY <1>1, <2>1, SubSeqPrefix DEF RewoundTo
<1>2. CASE ~(Len(context) > n)
  <2>1. RewoundTo(n) = context /\ Len(context) \in 0 .. Len(context)
    BY <1>2 DEF RewoundTo
  <2>2. RewoundTo(n) = SubSeq(context, 1, Len(context))
    BY <2>1
  <2>3. Len(RewoundTo(n)) <= Len(context)
    BY <2>1
  <2>. QED BY ONLY <2>1, <2>2, <2>3, context \in Seq(Items)
<1>. QED BY <1>1, <1>2

-----------------------------------------------------------------------------
(* The inductive invariant. *)

\* A session that is loaded fits the model, and has no messages to return to.
SessionsFit ==
    /\ file # NoFile => Len(file.context) <= program.max_length
    /\ sess_hist_len <= 0

\* The system prompt is evaluated in an empty context.
PromptAlone == pc = "prompt" => context = <<>>

\* Text waits for a turn that goes on, or while answers are continued.
ToolTextWaits ==
    "late_tool" \notin program.calls /\ tool_input # <<>> =>
        call = "continue" \/ pc \in {"generate", "retry", "shift", "done"}

\* What is continued is an answer, the last message there is.
AnswerGoesOn ==
    call = "continue" /\ pc \in {"generate", "retry", "shift", "done"} =>
        history # <<>> /\ LastMessage(history).role = "Assistant"

\* No message before the cursor has been taken away.
CursorThere == pc # "undefined" => CursorInRange

ConversationInv ==
    /\ TypeOK /\ SessionsFit /\ PromptAlone /\ ToolTextWaits
    /\ AnswerGoesOn /\ CursorThere

LEMMA InitStep == Init => ConversationInv
<1>. SUFFICES ASSUME Init PROVE ConversationInv
  OBVIOUS
<1>. USE DEF Init, MessagesInit
<1>1. <<>> \in Seq(Items) /\ <<>> \in Seq(Message) /\ Len(<<>>) = 0
  OBVIOUS
<1>2. TypeOK
  <2>1. program \in Programs /\ 0 <= program.max_length
    BY ProgramType
  <2>2. MessagesTypeOK
    BY <1>1 DEF MessagesTypeOK
  <2>3. tool_input \in Texts(Piece) /\ ai_prefix \in Texts(Completions)
    BY DEF Texts
  <2>4. context \in Seq(Items) /\ input_ids \in Seq(Items) /\ output \in Seq(Answers)
    BY <1>1
  <2>5. Len(context) = 0 /\ Len(output) = 0 /\ program.answers \in Nat
    BY <1>1, <2>1, ProgramType, MessagesAssumption
  <2>6. sess_n_past \in Int /\ sess_hist_len \in Int
    OBVIOUS
  <2>7. Len(context) <= program.max_length
    BY ONLY <2>1, <2>5
  <2>8. Len(output) <= program.answers
    BY ONLY <2>5
  <2>. QED BY <2>1, <2>2, <2>3, <2>4, <2>6, <2>7, <2>8 DEF TypeOK
<1>3. SessionsFit /\ PromptAlone /\ ToolTextWaits /\ AnswerGoesOn /\ CursorThere
  BY DEF SessionsFit, PromptAlone, ToolTextWaits,
         AnswerGoesOn, CursorThere,
         CursorInRange
<1>. QED BY <1>2, <1>3 DEF ConversationInv

\* What every step keeps of a conversation.
LEMMA InvSays ==
    ASSUME ConversationInv
    PROVE  /\ program \in Programs /\ sys_prompt \in SysPrompts
           /\ history \in Seq(Message) /\ cursor \in Nat /\ round \in Int /\ round >= -1
           /\ context \in Seq(Items) /\ Len(context) <= program.max_length
           /\ program.max_length \in Nat /\ program.max_context \in Nat
           /\ input_ids \in Seq(Items) /\ output \in Seq(Piece) /\ tool_input \in Seq(Piece)
           /\ ai_prefix \in Seq(Piece) /\ Spelt \in Seq(Items)
           /\ program.answers \in Nat /\ program.answers <= MaxPieces
<1>1. ai_prefix \in Seq(Piece)
  BY TextsType DEF ConversationInv, TypeOK
<1>2. Spelt \in Seq(Items)
  BY <1>1, SpokenType DEF Spelt
<1>. QED
BY <1>1, <1>2, TextsType, AnswersType, ProgramType, MessagesAssumption DEF ConversationInv, TypeOK, MessagesTypeOK

\* The cursor stays, or is put behind the history, which does not get shorter.
LEMMA CursorStep ==
    ASSUME ConversationInv, pc # "undefined", cursor' \in {cursor, Len(history)},
           history' \in Seq(Message), Len(history) <= Len(history')
    PROVE  CursorThere'
BY InvSays DEF ConversationInv, CursorThere, CursorInRange

LEMMA PushStep ==
    ASSUME ConversationInv, NEW role \in Role, NEW t \in Piece, PushBack(role, <<t>>),
           pc = "idle", pc' \in {"idle", "chat"},
           UNCHANGED <<program, context, initializing, promptVars, tool_input,
                       sessionVars, callVars>>
    PROVE  ConversationInv'
<1>. USE DEF promptVars, sessionVars, callVars
<1>1. RoleOf(history, role) = role
  BY DEF RoleOf, Role
<1>2. history' \in Seq(Message) /\ round' \in {round, round + 1}
  <2>1. <<t>> \in Seq(Piece)
    OBVIOUS
  <2>. QED BY <1>1, <2>1, InvSays, PushedType DEF PushBack
<1>3. TypeOK'
  BY <1>2, InvSays DEF ConversationInv, TypeOK, MessagesTypeOK, PushBack
<1>4. (SessionsFit /\ PromptAlone /\ ToolTextWaits /\ AnswerGoesOn)'
  BY DEF ConversationInv, SessionsFit, PromptAlone, ToolTextWaits,
         AnswerGoesOn
<1>10. CursorThere'
  <2>1. Len(history) <= Len(history')
    <3>1. <<t>> \in Seq(Piece)
      OBVIOUS
    <3>. QED BY <1>1, <3>1, InvSays, PushedType DEF PushBack
  <2>. QED BY <1>2, <2>1, CursorStep DEF PushBack
<1>. QED BY <1>3, <1>4, <1>10 DEF ConversationInv

LEMMA UserInputStep ==
    ASSUME ConversationInv, NEW t \in Piece, UserInput(t)
    PROVE  ConversationInv'
<1>1. "User" \in Role
  BY DEF Role
<1>. QED BY <1>1, PushStep DEF UserInput

LEMMA HistoryAppendStep ==
    ASSUME ConversationInv, NEW role \in Role, NEW t \in Piece, HistoryAppend(role, t)
    PROVE  ConversationInv'
BY PushStep DEF HistoryAppend

LEMMA ChatStep ==
    ASSUME ConversationInv, Chat
    PROVE  ConversationInv'
<1>. USE DEF promptVars, sessionVars
<1>1. input_ids' \in Seq(Items) /\ input_ids' # <<>>
  <2>. DEFINE e == EncodeHistory(history, program.max_context, continuous', TRUE)
  <2>1. input_ids' = e \o Spelt /\ continuous' \in BOOLEAN
    BY DEF Chat, ConversationInv, TypeOK
  <2>2. e \in Seq(Items) /\ e # <<>>
    BY <2>1, InvSays, EncodeType
  <2>. HIDE DEF e
  <2>. QED BY <2>1, <2>2, InvSays
<1>2. context' \in Seq(Items) /\ Len(context') <= program.max_length
  BY InvSays DEF Chat
<1>3. Len(history) \in Nat
  BY InvSays
<1>4. TypeOK'
  <2>1. output' \in Seq(Answers) /\ Len(output') <= program.answers /\ parted' \in BOOLEAN
    BY InvSays DEF Chat, ConversationInv, TypeOK
  <2>. QED BY <1>1, <1>2, <1>3, <2>1 DEF Chat, ConversationInv, TypeOK, MessagesTypeOK
<1>5. (SessionsFit /\ PromptAlone /\ ToolTextWaits /\ AnswerGoesOn)'
  BY <1>1 DEF Chat, ConversationInv, SessionsFit, PromptAlone, ToolTextWaits,
         AnswerGoesOn
<1>10. CursorThere'
  BY InvSays, CursorStep DEF Chat
<1>. QED BY <1>4, <1>5, <1>10 DEF ConversationInv

\* What a generation leaves: what has been run comes behind the context.
LEMMA RunsOnType ==
    ASSUME ConversationInv, NEW tokens \in Seq(Piece), RunsOn(tokens)
    PROVE  /\ context' \in Seq(Items) /\ Len(context') <= program.max_length
           /\ Len(context') = Len(context) + Len(input_ids) + Len(tokens)
           /\ Len(context) <= Len(context')
           /\ SubSeq(context', 1, Len(context)) = context
<1>. DEFINE said == Spoken(tokens)
            c == context
<1>1. said \in Seq(Items) /\ Len(said) = Len(tokens)
  BY SpokenType
<1>2. /\ c \in Seq(Items) /\ input_ids \in Seq(Items) /\ program.max_length \in Nat
      /\ context' = (c \o input_ids) \o said /\ Len(context') < program.max_length
  BY InvSays DEF RunsOn
<1>. HIDE DEF said, c
<1>. DEFINE w == c \o input_ids
<1>3. w \in Seq(Items) /\ Len(w) = Len(c) + Len(input_ids)
      /\ \A i \in 1 .. Len(c) : w[i] = c[i]
  BY <1>2
<1>4. context' = w \o said
  BY <1>2
<1>. HIDE DEF w
<1>5. context' \in Seq(Items) /\ Len(context') = Len(w) + Len(said)
      /\ \A i \in 1 .. Len(w) : context'[i] = w[i]
  <2>. DEFINE v == w \o said
  <2>1. v \in Seq(Items) /\ Len(v) = Len(w) + Len(said) /\ \A i \in 1 .. Len(w) : v[i] = w[i]
    BY <1>1, <1>3
  <2>. QED BY ONLY <1>4, <2>1
<1>6. Len(context') <= program.max_length /\ Len(c) <= Len(context')
  BY <1>1, <1>2, <1>3, <1>5
<1>7. SubSeq(context', 1, Len(c)) = c
  <2>1. \A i \in 1 .. Len(c) : context'[i] = c[i]
    BY <1>1, <1>2, <1>3, <1>5
  <2>2. Len(c) \in 0 .. Len(context')
    BY <1>2, <1>5, <1>6
  <2>. QED BY <1>2, <1>5, <2>1, <2>2
<1>8. Len(context') = Len(c) + Len(input_ids) + Len(tokens)
  BY <1>1, <1>3, <1>5
<1>. QED BY <1>5, <1>6, <1>7, <1>8 DEF c

LEMMA SaysType ==
    ASSUME ConversationInv, NEW text \in Seq(Answers), Says(text)
    PROVE  output' \in Seq(Answers) /\ Len(output') <= program.answers
<1>1. Said \in Seq(Answers)
  BY DEF Said, ConversationInv, TypeOK
<1>2. output' = Said \o text /\ Len(Said) + Len(text) <= program.answers
  BY DEF Says
<1>. QED BY <1>1, <1>2

LEMMA SaidType ==
    ASSUME ConversationInv
    PROVE  Said \in Seq(Answers) /\ Len(Said) <= program.answers
BY InvSays DEF Said, ConversationInv, TypeOK

\* The calls of generate that end in these leave all else to them.
LEMMA GeneratedStep ==
    ASSUME ConversationInv, pc = "generate", pc' \in {"shift", "retry", "done"},
           context' \in Seq(Items), Len(context') <= program.max_length,
           output' \in Seq(Answers), Len(output') <= program.answers,
           parted' \in BOOLEAN,
           UNCHANGED <<program, messagesVars, initializing, promptVars, tool_input,
                       sessionVars, call, continuous, retried, input_ids>>
    PROVE  ConversationInv'
<1>. USE DEF promptVars, sessionVars, messagesVars
<1>1. TypeOK'
  BY DEF ConversationInv, TypeOK, MessagesTypeOK
<1>2. (SessionsFit /\ PromptAlone /\ ToolTextWaits /\ AnswerGoesOn)'
  BY DEF ConversationInv, SessionsFit, PromptAlone, ToolTextWaits, AnswerGoesOn
<1>10. CursorThere'
  BY InvSays, CursorStep
<1>. QED BY <1>1, <1>2, <1>10 DEF ConversationInv

LEMMA CompleteStep ==
    ASSUME ConversationInv, NEW text \in Outputs, Complete(text) \/ CutShort(text)
    PROVE  ConversationInv'
<1>1. text \in Seq(Answers) /\ text \in Seq(Piece) /\ Run(text) \in Seq(Piece)
  BY InvSays, OutputsType, AnswersType, RunType
<1>2. context' \in Seq(Items) /\ Len(context') <= program.max_length
  BY <1>1, RunsOnType DEF Complete, CutShort
<1>3. output' \in Seq(Answers) /\ Len(output') <= program.answers
  BY <1>1, SaysType DEF Complete, CutShort
<1>4. parted' \in BOOLEAN
  BY DEF Complete, CutShort, ConversationInv, TypeOK
<1>. QED BY <1>2, <1>3, <1>4, GeneratedStep DEF Complete, CutShort, RunsOn

LEMMA NothingRunStep ==
    ASSUME ConversationInv, NothingRun \/ NoRoom
    PROVE  ConversationInv'
<1>1. context' = context /\ output' = Said /\ pc' \in {"shift", "retry", "done"}
  BY DEF NothingRun, NoRoom, OutOfContext
<1>2. parted' \in BOOLEAN
  BY DEF NothingRun, NoRoom, OutOfContext, ConversationInv, TypeOK
<1>. QED BY <1>1, <1>2, InvSays, SaidType, GeneratedStep DEF NothingRun, NoRoom, OutOfContext

LEMMA RunOutStep ==
    ASSUME ConversationInv, NEW text \in Outputs, RunOut(text)
    PROVE  ConversationInv'
<1>1. text \in Seq(Answers) /\ Run(text) \in Seq(Piece)
  BY InvSays, OutputsType, AnswersType, RunType
<1>2. context' \in Seq(Items) /\ Len(context') <= program.max_length
  BY <1>1, RunsOnType DEF RunOut
<1>3. output' \in Seq(Answers) /\ Len(output') <= program.answers
  BY <1>1, SaysType DEF RunOut
<1>4. pc' \in {"shift", "retry", "done"} /\ parted' \in BOOLEAN
  BY DEF RunOut, OutOfContext, ConversationInv, TypeOK
<1>. QED BY <1>2, <1>3, <1>4, GeneratedStep DEF RunOut, OutOfContext, RunsOn

LEMMA RetryStep ==
    ASSUME ConversationInv, Retry
    PROVE  ConversationInv'
<1>. USE DEF promptVars, sessionVars
<1>1. input_ids' \in Seq(Items)
  <2>. DEFINE e == EncodeHistory(history, program.max_context, FALSE, call = "chat")
              p == IF call = "chat" THEN Spelt ELSE <<>>
  <2>1. input_ids' = e \o p
    BY DEF Retry
  <2>2. e \in Seq(Items)
    BY InvSays, EncodeType
  <2>3. p \in Seq(Items)
    BY InvSays
  <2>. HIDE DEF e, p
  <2>. QED BY <2>1, <2>2, <2>3
<1>2. <<>> \in Seq(Items) /\ Len(<<>>) = 0 /\ Len(history) \in Nat
  BY InvSays
<1>3. /\ pc = "retry" /\ pc' = "generate" /\ retried' = TRUE /\ parted' = FALSE
      /\ cursor' = Len(history) /\ context' = <<>>
      /\ UNCHANGED <<program, history, round, initializing, promptVars, tool_input,
                     sessionVars, call, continuous, output>>
  BY Zenon DEF Retry
<1>4. TypeOK'
  <2>1. MessagesTypeOK'
    BY <1>2, <1>3, InvSays DEF MessagesTypeOK
  <2>2. context' \in Seq(Items) /\ Len(context') <= program'.max_length
    BY <1>2, <1>3, InvSays
  <2>. QED BY <1>1, <1>3, <2>1, <2>2 DEF ConversationInv, TypeOK
<1>5. (SessionsFit /\ PromptAlone /\ ToolTextWaits /\ AnswerGoesOn)'
  BY <1>2, <1>3, InvSays DEF ConversationInv, SessionsFit, PromptAlone, ToolTextWaits, AnswerGoesOn
<1>10. CursorThere'
  BY <1>3, InvSays, CursorStep
<1>. QED BY <1>4, <1>5, <1>10 DEF ConversationInv

\* A shift leaves the end of the context, of the length asked for.
LEMMA ShiftedType ==
    ASSUME ConversationInv
    PROVE  /\ Shifted \in Seq(Items) /\ Len(Shifted) <= Len(context)
           /\ Len(Shifted) <= program.max_context
           /\ \/ \E n \in 1 .. Len(context) : Shifted = SubSeq(context, n, Len(context))
              \/ Shifted = <<>> \/ Shifted = context
<1>. DEFINE k == program.max_context
            n == Len(context) - k + 1
<1>1. k \in Nat /\ context \in Seq(Items)
  BY InvSays
<1>2. CASE k >= Len(context)
  BY <1>1, <1>2 DEF Shifted
<1>3. CASE k < Len(context)
  <2>1. Shifted = SubSeq(context, n, Len(context))
    <3>1. ~(program.max_context >= Len(context))
      BY <1>1, <1>3
    <3>. QED BY <3>1, Zenon DEF Shifted
  <2>2. n \in Int /\ 1 < n /\ n <= Len(context) + 1 /\ Len(context) - n + 1 = k
    BY <1>1, <1>3
  <2>. HIDE DEF n, k
  <2>3. Shifted \in Seq(Items) /\ Len(Shifted) = k
    BY <1>1, <2>1, <2>2
  <2>4. CASE n \in 1 .. Len(context)
    BY <1>3, <2>1, <2>3, <2>4 DEF k
  <2>5. CASE n = Len(context) + 1
    <3>1. Len(Shifted) = 0
      BY <1>1, <2>2, <2>3, <2>5
    <3>2. Shifted = <<>>
      BY <2>3, <3>1
    <3>. QED BY <1>1, <3>1, <3>2, <2>3 DEF k
  <2>6. n \in 1 .. Len(context) \/ n = Len(context) + 1
    BY <1>1, <2>2
  <2>. QED BY <2>4, <2>5, <2>6
<1>. QED BY <1>1, <1>2, <1>3

\* The last token of an output, as an input.
LEMMA LastSpoken ==
    ASSUME ConversationInv, output # <<>>
    PROVE  Spoken(<<Last(output)>>) \in Seq(Items) /\ Len(Spoken(<<Last(output)>>)) = 1
<1>1. Last(output) \in Piece
  BY InvSays DEF Last
<1>. DEFINE w == <<Last(output)>>
<1>2. w \in Seq(Piece) /\ Len(w) = 1
  BY <1>1
<1>. HIDE DEF w
<1>3. Spoken(w) \in Seq(Items) /\ Len(Spoken(w)) = 1
  BY <1>2, SpokenType
<1>. QED BY <1>3 DEF w

LEMMA ShiftMemoryStep ==
    ASSUME ConversationInv, ShiftMemory
    PROVE  ConversationInv'
<1>. USE DEF promptVars, sessionVars, messagesVars
<1>1. context' \in Seq(Items) /\ Len(context') <= program.max_length
  BY ShiftedType, InvSays DEF ShiftMemory
<1>2. input_ids' \in Seq(Items) /\ parted' \in BOOLEAN
  BY LastSpoken DEF ShiftMemory, ConversationInv, TypeOK
<1>3. TypeOK'
  BY <1>1, <1>2 DEF ShiftMemory, ConversationInv, TypeOK, MessagesTypeOK
<1>4. (SessionsFit /\ PromptAlone /\ ToolTextWaits /\ AnswerGoesOn)'
  BY <1>1 DEF ShiftMemory, ConversationInv, SessionsFit, PromptAlone, ToolTextWaits,
              AnswerGoesOn
<1>10. CursorThere'
  BY InvSays, CursorStep DEF ShiftMemory
<1>. QED BY <1>3, <1>4, <1>10 DEF ConversationInv

LEMMA SetAiPrefixStep ==
    ASSUME ConversationInv, NEW text \in Texts(Completions), SetAiPrefix(text)
    PROVE  ConversationInv'
<1>. USE DEF sessionVars, messagesVars, callVars, SetAiPrefix
<1>1. TypeOK'
  BY DEF ConversationInv, TypeOK, MessagesTypeOK
<1>2. (SessionsFit /\ PromptAlone /\ ToolTextWaits /\ AnswerGoesOn)'
  BY DEF ConversationInv, SessionsFit, PromptAlone, ToolTextWaits, AnswerGoesOn
<1>10. CursorThere'
  BY InvSays, CursorStep
<1>. QED BY <1>1, <1>2, <1>10 DEF ConversationInv

LEMMA ToolInputStep ==
    ASSUME ConversationInv, NEW t \in Piece,
           ToolInput(t) \/ (LateToolInput(t) /\ "late_tool" \in program.calls)
    PROVE  ConversationInv'
<1>. USE DEF promptVars, sessionVars, messagesVars, callVars, ToolInput, LateToolInput
<1>1. tool_input' \in Texts(Piece)
  BY DEF Texts
<1>2. TypeOK'
  BY <1>1 DEF ConversationInv, TypeOK, MessagesTypeOK
<1>3. (SessionsFit /\ PromptAlone /\ ToolTextWaits /\ AnswerGoesOn)'
  BY DEF ConversationInv, SessionsFit, PromptAlone, ToolTextWaits,
         AnswerGoesOn
<1>10. CursorThere'
  BY InvSays, CursorStep
<1>. QED BY <1>2, <1>3, <1>10 DEF ConversationInv

LEMMA TokPosType ==
    ASSUME ConversationInv
    PROVE  TokPos \in Nat
BY InvSays DEF TokPos

LEMMA SessionType ==
    ASSUME ConversationInv, NEW h \in Seq(Message)
    PROVE  /\ SessionOf(h) \in Session /\ SessionOf(h).context = context
           /\ SessionOf(h) # NoFile
BY InvSays, NoFileAssumption DEF SessionOf, Session

LEMMA AnswerStep ==
    ASSUME ConversationInv, Answer
    PROVE  ConversationInv'
<1>. USE DEF promptVars, sessionVars, callVars
<1>. DEFINE h == Answered(history, round)
            q == Pushed(h, "Tool", tool_input, round)
<1>1. h \in Seq(Message)
  <2>1. "Assistant" \in Role
    BY DEF Role
  <2>2. Pushed(history, "Assistant", output, round) \in Seq(Message)
    BY <2>1, InvSays, PushedType
  <2>. QED BY <2>2, TokPosType, WithTokPosType DEF Answered
<1>2. q \in Seq(Message) /\ RoundAfter(h, "Tool", round) \in {round, round + 1}
  <2>1. "Tool" \in Role
    BY DEF Role
  <2>. HIDE DEF h
  <2>. QED BY <1>1, <2>1, InvSays, PushedType
<1>3. SessionOf(h) \in Session /\ SessionOf(h).context = context
  BY <1>1, SessionType
<1>4. /\ history' \in {h, q} /\ round' \in {round, RoundAfter(h, "Tool", round)}
      /\ file' \in {file, SessionOf(h)}
  BY DEF Answer
<1>. HIDE DEF h, q
<1>5. tool_input' \in Texts(Piece) /\ pc' \in {"idle", "chat"}
  BY DEF Answer, Texts
<1>6. MessagesTypeOK'
  BY <1>1, <1>2, <1>4, InvSays, SMTT(40) DEF MessagesTypeOK, Answer
<1>7. TypeOK'
  BY <1>3, <1>4, <1>5, <1>6 DEF Answer, ConversationInv, TypeOK
<1>8. (SessionsFit /\ PromptAlone /\ ToolTextWaits /\ AnswerGoesOn)'
  BY <1>3, <1>4, <1>5, InvSays DEF Answer, ConversationInv, SessionsFit, PromptAlone,
                                  ToolTextWaits,
         AnswerGoesOn
<1>10. CursorThere'
  <2>1. Len(history) <= Len(h) /\ Len(h) <= Len(q)
    <3>1. {"Assistant", "Tool"} \subseteq Role
      BY DEF Role
    <3>2. Len(h) <= Len(q)
      BY <1>1, <3>1, InvSays, PushedType DEF q
    <3>. DEFINE a == Pushed(history, "Assistant", output, round)
    <3>3. Len(history) <= Len(a) /\ a \in Seq(Message)
      BY <3>1, InvSays, PushedType
    <3>4. h = WithTokPos(a, TokPos)
      BY DEF h, Answered
    <3>. HIDE DEF a
    <3>5. Len(h) = Len(a)
      BY <3>3, <3>4, TokPosType, WithTokPosType
    <3>. QED BY <3>2, <3>3, <3>5
  <2>2. history' \in Seq(Message) /\ Len(history) <= Len(history')
    <3>1. Len(history) \in Nat /\ Len(h) \in Nat /\ Len(q) \in Nat
      BY <1>1, <1>2, InvSays
    <3>. QED BY <1>1, <1>2, <1>4, <2>1, <3>1
  <2>. QED BY <2>2, CursorStep DEF Answer
<1>. QED BY <1>7, <1>8, <1>10 DEF ConversationInv

LEMMA AiContinueStep ==
    ASSUME ConversationInv, NEW t \in Piece, AiContinue(t)
    PROVE  ConversationInv'
<1>. DEFINE n == Len(EncodeHistory(history, program.max_length, FALSE, FALSE))
<1>1. n \in Nat
  <2>1. EncodeHistory(history, program.max_length, FALSE, FALSE) \in Seq(Items)
    BY InvSays, EncodeType
  <2>. DEFINE e == EncodeHistory(history, program.max_length, FALSE, FALSE)
  <2>2. e \in Seq(Items)
    BY <2>1
  <2>. HIDE DEF e
  <2>3. Len(e) \in Nat
    BY <2>2
  <2>. QED BY <2>3 DEF e
<1>2. context' = RewoundTo(n)
  BY Zenon DEF AiContinue
<1>3. context' \in Seq(Items) /\ Len(context') <= program.max_length
  <2>. HIDE DEF n
  <2>1. Len(context') <= Len(context) /\ context' \in Seq(Items)
    BY <1>1, <1>2, InvSays, RewoundType
  <2>. QED BY <2>1, InvSays
<1>4. /\ history' \in Seq(Message) /\ Len(history) = Len(history')
      /\ history' # <<>> /\ LastMessage(history').role = "Assistant"
  <2>1. history' = AddToLast(history, <<t>>) /\ history # <<>> /\ <<t>> \in Seq(Piece)
          /\ LastMessage(history).role = "Assistant"
    BY DEF AiContinue
  <2>2. history' \in Seq(Message) /\ Len(history') = Len(history)
    BY <2>1, InvSays, AddToLastType
  <2>3. LastMessage(history').role = LastMessage(history).role
    BY <2>1, InvSays DEF AddToLast, LastMessage, Message
  <2>. QED BY <2>1, <2>2, <2>3, InvSays
<1>5. Item("Assistant", t) \in Items
  BY DEF Items, Item, Role
<1>6. /\ pc = "idle" /\ pc' = "generate" /\ call' = "continue" /\ retried' = FALSE
      /\ output' = <<>> /\ input_ids' = <<Item("Assistant", t)>> /\ cursor' = Len(history)
      /\ UNCHANGED <<program, round, initializing, promptVars, tool_input, sessionVars,
                     continuous, parted>>
  BY Zenon DEF AiContinue
<1>. HIDE DEF n
<1>7. input_ids' \in Seq(Items) /\ input_ids' # <<>>
  BY <1>5, <1>6
<1>8. TypeOK'
  <2>1. MessagesTypeOK'
    BY <1>4, <1>6, InvSays DEF MessagesTypeOK
  <2>2. output' \in Seq(Answers) /\ Len(output') <= program.answers
    BY <1>6, InvSays
  <2>. QED BY <1>3, <1>6, <1>7, <2>1, <2>2 DEF ConversationInv, TypeOK, promptVars,
                                               sessionVars
<1>9. (SessionsFit /\ PromptAlone /\ ToolTextWaits /\ AnswerGoesOn)'
  BY <1>4, <1>6, <1>7 DEF ConversationInv, SessionsFit, PromptAlone, ToolTextWaits,
         AnswerGoesOn, CursorThere,
                    sessionVars
<1>10. CursorThere'
  BY <1>4, <1>6, InvSays, CursorStep
<1>. QED BY <1>8, <1>9, <1>10 DEF ConversationInv

LEMMA ContinuedStep ==
    ASSUME ConversationInv, Continued
    PROVE  ConversationInv'
<1>. USE DEF promptVars, sessionVars, callVars
<1>1. history' \in Seq(Message) /\ Len(history) = Len(history')
  <2>. DEFINE h == AddToLast(history, output)
  <2>1. history # <<>>
    BY DEF Continued, ConversationInv, AnswerGoesOn
  <2>2. h \in Seq(Message) /\ Len(h) = Len(history) /\ history' = WithTokPos(h, TokPos)
    BY <2>1, InvSays, AddToLastType DEF Continued
  <2>. HIDE DEF h
  <2>. QED BY <2>2, TokPosType, WithTokPosType
<1>2. TypeOK'
  BY <1>1, InvSays DEF Continued, ConversationInv, TypeOK, MessagesTypeOK
<1>3. (SessionsFit /\ PromptAlone /\ ToolTextWaits /\ AnswerGoesOn)'
  BY DEF Continued, ConversationInv, SessionsFit, PromptAlone, ToolTextWaits,
         AnswerGoesOn
<1>10. CursorThere'
  BY <1>1, InvSays, CursorStep DEF Continued
<1>. QED BY <1>2, <1>3, <1>10 DEF ConversationInv

LEMMA RestartStep ==
    ASSUME ConversationInv, NEW p \in program.prompts \cup {NoPrompt}, Restart(p)
    PROVE  ConversationInv'
<1>. USE DEF promptVars, sessionVars, callVars
<1>1. sess_hist_len <= 0
  BY DEF ConversationInv, SessionsFit
<1>2. ~(sess_hist_len > 0 /\ p = NoPrompt)
  BY <1>1 DEF ConversationInv, TypeOK
<1>3. /\ Clear /\ initializing' = TRUE /\ UNCHANGED context
      /\ sys_prompt' = IF p = NoPrompt THEN sys_prompt ELSE p
      /\ pc = "idle"
      /\ UNCHANGED <<program, skip_sys_prompt, ai_prefix, tool_input, sessionVars, pc,
                     callVars>>
  BY <1>2 DEF Restart
<1>4. sys_prompt' \in program.prompts
  BY <1>3 DEF ConversationInv, TypeOK
<1>5. TypeOK'
  BY <1>3, <1>4 DEF ConversationInv, TypeOK, MessagesTypeOK, Clear
<1>6. (SessionsFit /\ PromptAlone /\ ToolTextWaits /\ AnswerGoesOn)'
  BY <1>3 DEF ConversationInv, SessionsFit, PromptAlone, ToolTextWaits,
              AnswerGoesOn
<1>7. CursorThere'
  BY <1>3 DEF Clear, CursorThere, CursorInRange
<1>. QED BY <1>5, <1>6, <1>7 DEF ConversationInv

LEMMA HistorySetCursorStep ==
    ASSUME ConversationInv, NEW pos \in Nat,
           HistorySetCursor(pos) \/ HistorySetCursorAstray(pos)
    PROVE  ConversationInv'
<1>. USE DEF promptVars, sessionVars, callVars
<1>1. pos <= Len(history)
  BY InvSays DEF HistorySetCursor, HistorySetCursorAstray, ConversationInv, CursorThere,
                CursorInRange
<1>2. ConversationInv'
  <2>1. pos \in 0 .. Len(history) /\ pos \in 1 .. Len(history)
    BY <1>1, InvSays DEF HistorySetCursor, HistorySetCursorAstray
  <2>2. history' \in Seq(Message)
    BY <2>1, InvSays, SubSeqPrefix DEF HistorySetCursor, HistorySetCursorAstray
  <2>3. context' \in Seq(Items) /\ Len(context') <= program.max_length
    <3>1. CASE HistorySetCursor(pos)
      <4>1. history[pos].tok_pos \in Nat
        <5>1. history[pos] \in Message
          BY <2>1, InvSays
        <5>. QED BY <3>1, <5>1 DEF HistorySetCursor, Message
      <4>2. context' = RewoundTo(history[pos].tok_pos)
        BY <3>1 DEF HistorySetCursor
      <4>3. context' \in Seq(Items) /\ Len(context') <= Len(context)
        BY <4>1, <4>2, InvSays, RewoundType
      <4>. QED BY <4>3, InvSays
    <3>2. CASE HistorySetCursorAstray(pos)
      BY <3>2, InvSays DEF HistorySetCursorAstray
    <3>. QED BY <3>1, <3>2
  <2>4. /\ pc = "idle" /\ pc' \in {pc, "undefined"} /\ cursor' \in {pos, cursor}
        /\ UNCHANGED <<program, round, initializing, promptVars, tool_input,
                       sessionVars, callVars>>
    BY DEF HistorySetCursor, HistorySetCursorAstray
  <2>5. TypeOK'
    BY <2>2, <2>3, <2>4 DEF ConversationInv, TypeOK, MessagesTypeOK
  <2>6. (SessionsFit /\ PromptAlone /\ ToolTextWaits /\ AnswerGoesOn)'
    BY <2>4 DEF ConversationInv, SessionsFit, PromptAlone, ToolTextWaits,
                AnswerGoesOn
  <2>7. CursorThere'
    <3>1. HistorySetCursor(pos) => Len(history') = pos /\ cursor' = pos
      BY <2>1, InvSays, SubSeqPrefix DEF HistorySetCursor
    <3>. QED BY <3>1, <2>2 DEF HistorySetCursorAstray, CursorThere, CursorInRange
  <2>. QED BY <2>5, <2>6, <2>7 DEF ConversationInv
<1>. QED BY <1>2

LEMMA SetCursorStep ==
    ASSUME ConversationInv, NEW pos \in Nat, SetCursor(pos)
    PROVE  ConversationInv'
<1>. USE DEF promptVars, sessionVars, callVars, messagesVars
<1>1. context' \in Seq(Items) /\ Len(context') <= program.max_length
  <2>1. context' = RewoundTo(pos)
    BY DEF SetCursor
  <2>2. context' \in Seq(Items) /\ Len(context') <= Len(context)
    BY <2>1, InvSays, RewoundType
  <2>. QED BY <2>2, InvSays
<1>2. TypeOK'
  BY <1>1 DEF SetCursor, ConversationInv, TypeOK, MessagesTypeOK
<1>3. (SessionsFit /\ PromptAlone /\ ToolTextWaits /\ AnswerGoesOn)'
  BY DEF SetCursor, ConversationInv, SessionsFit, PromptAlone, ToolTextWaits,
         AnswerGoesOn
<1>10. CursorThere'
  BY InvSays, CursorStep DEF SetCursor
<1>. QED BY <1>2, <1>3, <1>10 DEF ConversationInv

LEMMA SaveStep ==
    ASSUME ConversationInv, SaveSession \/ WriteSession
    PROVE  ConversationInv'
<1>. USE DEF promptVars, sessionVars, callVars, messagesVars, SaveSession, WriteSession
<1>1. file' \in Session /\ file'.context = context
  BY InvSays, SessionType
<1>2. TypeOK'
  BY <1>1 DEF ConversationInv, TypeOK, MessagesTypeOK
<1>3. (SessionsFit /\ PromptAlone /\ ToolTextWaits /\ AnswerGoesOn)'
  BY <1>1, InvSays DEF ConversationInv, SessionsFit, PromptAlone, ToolTextWaits, AnswerGoesOn
<1>10. CursorThere'
  BY InvSays, CursorStep
<1>. QED BY <1>2, <1>3, <1>10 DEF ConversationInv

LEMMA SavePromptStep ==
    ASSUME ConversationInv, SavePrompt \/ EvalSysPrompt
    PROVE  ConversationInv'
<1>. USE DEF promptVars, sessionVars, callVars, messagesVars, SavePrompt, EvalSysPrompt
<1>1. context' \in Seq(Items) /\ Len(context') <= 1
  <2>1. Sys \in Items
    BY InvSays DEF Sys, Item, Items
  <2>2. context' = <<>> \/ context' = <<Sys>>
    BY Zenon
  <2>3. <<>> \in Seq(Items) /\ Len(<<>>) = 0
    OBVIOUS
  <2>4. <<Sys>> \in Seq(Items) /\ Len(<<Sys>>) = 1
    BY <2>1
  <2>5. CASE context' = <<>>
    BY ONLY <2>3, <2>5
  <2>6. CASE context' = <<Sys>>
    <3>. DEFINE s == <<Sys>>
    <3>1. context' = s /\ s \in Seq(Items) /\ Len(s) = 1
      BY ONLY <2>4, <2>6
    <3>. HIDE DEF s
    <3>. QED BY ONLY <3>1
  <2>. QED BY <2>2, <2>5, <2>6
<1>2. Len(context') <= program.max_length
  BY <1>1, ProgramType, InvSays
<1>3. TypeOK'
  BY <1>1, <1>2 DEF ConversationInv, TypeOK, MessagesTypeOK
<1>4. (SessionsFit /\ PromptAlone /\ ToolTextWaits /\ AnswerGoesOn)'
  BY DEF ConversationInv, SessionsFit, PromptAlone, ToolTextWaits,
         AnswerGoesOn
<1>10. CursorThere'
  BY InvSays, CursorStep
<1>. QED BY <1>3, <1>4, <1>10 DEF ConversationInv

\* What a load that fails leaves of the context.
LEMMA RemainsType ==
    ASSUME ConversationInv, NEW read \in {"header", "counters", "layers"},
           read # "header" => file # NoFile
    PROVE  /\ Remains(read) \in Seq(Items) /\ Len(Remains(read)) <= program.max_length
           /\ read = "header" => Remains(read) = context
           /\ read # "header" =>
                /\ Len(Remains(read)) = Len(file.context)
                /\ \A i \in 1 .. Len(file.context) :
                      /\ i <= Len(context)
                      /\ \A j \in 1 .. i : context[j] = file.context[j]
                      => Remains(read)[i] = file.context[i]
<1>1. CASE read = "header"
  BY <1>1, InvSays DEF Remains
<1>2. CASE read # "header"
  <2>. DEFINE stored == file.context
              Same == {i \in DOMAIN stored :
                         i <= Len(context) /\ \A j \in 1 .. i : context[j] = stored[j]}
  <2>1. stored \in Seq(Items) /\ Len(stored) <= program.max_length
    BY <1>2 DEF ConversationInv, TypeOK, SessionsFit, Session
  <2>2. Spoilt \in Items /\ context \in Seq(Items)
    BY InvSays DEF Spoilt, Item, Items
  <2>3. CASE read = "counters"
    <3>1. Remains(read) = [i \in DOMAIN stored |-> IF i <= Len(context) THEN context[i] ELSE Spoilt]
      BY <2>3 DEF Remains
    <3>. HIDE DEF stored
    <3>2. Remains(read) \in Seq(Items) /\ Len(Remains(read)) = Len(stored)
      BY <2>1, <2>2, <3>1
    <3>3. ASSUME NEW i \in 1 .. Len(stored), i <= Len(context),
                 \A j \in 1 .. i : context[j] = stored[j]
          PROVE  Remains(read)[i] = stored[i]
      <4>1. Remains(read)[i] = context[i]
        BY <2>1, <3>1, <3>3
      <4>. QED BY <3>3, <4>1
    <3>. QED BY <1>2, <2>1, <3>2, <3>3 DEF stored
  <2>4. CASE read = "layers"
    <3>1. Remains(read) = [i \in DOMAIN stored |-> IF i \in Same THEN stored[i] ELSE Spoilt]
      BY <2>4 DEF Remains
    <3>. HIDE DEF stored
    <3>2. Remains(read) \in Seq(Items) /\ Len(Remains(read)) = Len(stored)
      BY <2>1, <2>2, <3>1
    <3>3. ASSUME NEW i \in 1 .. Len(stored), i <= Len(context),
                 \A j \in 1 .. i : context[j] = stored[j]
          PROVE  Remains(read)[i] = stored[i]
      <4>1. i \in Same /\ i \in DOMAIN stored
        BY <2>1, <3>3
      <4>. HIDE DEF Same
      <4>. QED BY <3>1, <4>1
    <3>. QED BY <1>2, <2>1, <3>2, <3>3 DEF stored
  <2>. QED BY <1>2, <2>3, <2>4
<1>. QED BY <1>1, <1>2

LEMMA LoadStep ==
    ASSUME ConversationInv, LoadSession
    PROVE  ConversationInv'
<1>. USE DEF promptVars, sessionVars, callVars, LoadSession, Clear
<1>1. /\ context' \in Seq(Items) /\ Len(context') <= program.max_length
      /\ sess_n_past' \in Int
  BY InvSays DEF ConversationInv, TypeOK, SessionsFit, Session
<1>2. TypeOK'
  <2>1. MessagesTypeOK'
    <3>1. <<>> \in Seq(Message) /\ history' = <<>> /\ cursor' = 0 /\ round' = -1
      OBVIOUS
    <3>. QED BY ONLY <3>1 DEF MessagesTypeOK
  <2>2. initializing' \in BOOLEAN /\ skip_sys_prompt' \in BOOLEAN /\ parted' \in BOOLEAN
    <3>1. initializing' = FALSE /\ skip_sys_prompt' = TRUE /\ parted' = FALSE
      BY Zenon
    <3>. QED BY ONLY <3>1, Zenon
  <2>3. sess_hist_len' \in Int
    <3>1. sess_hist_len' = 0
      BY Zenon
    <3>. QED BY ONLY <3>1
  <2>4. UNCHANGED <<program, sys_prompt, ai_prefix, tool_input, file, pc, call, continuous,
                    retried, input_ids, output>>
    OBVIOUS
  <2>. QED BY <1>1, <2>1, <2>2, <2>3, <2>4 DEF ConversationInv, TypeOK
<1>3. (SessionsFit /\ PromptAlone /\ ToolTextWaits /\ AnswerGoesOn)'
  BY DEF ConversationInv, SessionsFit, PromptAlone, ToolTextWaits, AnswerGoesOn
<1>4. CursorThere'
  BY DEF CursorThere, CursorInRange
<1>. QED BY <1>2, <1>3, <1>4 DEF ConversationInv

LEMMA LoadFailsStep ==
    ASSUME ConversationInv, NEW read \in {"header", "counters", "layers"},
           LoadSessionFails(read)
    PROVE  ConversationInv'
<1>. USE DEF promptVars, sessionVars, callVars
<1>1. /\ context' \in Seq(Items) /\ Len(context') <= program.max_length
  BY RemainsType DEF LoadSessionFails
<1>2. /\ pc = "idle" /\ history' = <<>> /\ cursor' = 0 /\ round' = -1
      /\ UNCHANGED <<program, initializing, promptVars, tool_input, sessionVars, pc, callVars>>
  BY Zenon DEF LoadSessionFails, Clear
<1>3. TypeOK'
  <2>1. MessagesTypeOK'
    <3>1. <<>> \in Seq(Message) /\ history' = <<>> /\ cursor' = 0 /\ round' = -1
      BY <1>2
    <3>. QED BY ONLY <3>1 DEF MessagesTypeOK
  <2>. QED BY <1>1, <1>2, <2>1 DEF ConversationInv, TypeOK
<1>4. (SessionsFit /\ PromptAlone /\ ToolTextWaits /\ AnswerGoesOn)'
  BY <1>2 DEF ConversationInv, SessionsFit, PromptAlone, ToolTextWaits, AnswerGoesOn
<1>5. CursorThere'
  BY <1>2 DEF CursorThere, CursorInRange
<1>. QED BY <1>3, <1>4, <1>5 DEF ConversationInv

LEMMA StutterStep ==
    ASSUME ConversationInv, UNCHANGED vars
    PROVE  ConversationInv'
BY DEF vars, messagesVars, promptVars, sessionVars, callVars, ConversationInv, TypeOK,
       MessagesTypeOK, SessionsFit, PromptAlone, ToolTextWaits,
       AnswerGoesOn, CursorThere, CursorInRange

LEMMA ConversationNext == ConversationInv /\ [Next]_vars => ConversationInv'
<1>. SUFFICES ASSUME ConversationInv, [Next]_vars PROVE ConversationInv'
  OBVIOUS
<1>1. /\ program.says \subseteq Piece /\ ToolTexts \subseteq Piece
      /\ Completions \subseteq Piece /\ 1 .. MaxMessages \subseteq Nat
      /\ 0 .. MaxLength \subseteq Nat
  BY InvSays, ProgramType, ConversationAssumption, MessagesAssumption
<1>2. CASE Turn
  BY <1>2, ChatStep, RetryStep, ShiftMemoryStep, AnswerStep, ContinuedStep, SavePromptStep,
     SaveStep, CompleteStep, NothingRunStep, RunOutStep DEF Turn
<1>3. CASE \/ \E t \in program.says : UserInput(t)
           \/ \E r \in Role, t \in program.says : HistoryAppend(r, t)
  BY <1>1, <1>3, UserInputStep, HistoryAppendStep
<1>4. CASE \/ \E t \in ToolTexts \cup Completions : ToolInput(t)
           \/ Allowed("late_tool") /\ \E t \in ToolTexts : LateToolInput(t)
  BY <1>1, <1>4, ToolInputStep DEF Allowed
<1>5. CASE \/ \E t \in Completions : AiContinue(t)
           \/ \E p \in program.prompts \cup {NoPrompt} : Restart(p)
  BY <1>1, <1>5, AiContinueStep, RestartStep
<1>6. CASE \/ \E p \in 1 .. MaxMessages : HistorySetCursor(p) \/ HistorySetCursorAstray(p)
           \/ \E p \in 0 .. MaxLength : SetCursor(p)
  BY <1>1, <1>6, HistorySetCursorStep, SetCursorStep
<1>7. CASE \/ SaveSession \/ SavePrompt \/ LoadSession
           \/ \E read \in {"header", "counters", "layers"} : LoadSessionFails(read)
  BY <1>7, SaveStep, SavePromptStep, LoadStep, LoadFailsStep
<1>8. CASE UNCHANGED vars
  BY <1>8, StutterStep
<1>9. CASE Abort \/ \E text \in Texts(Completions) : SetAiPrefix(text)
  BY <1>9, CompleteStep, NothingRunStep, SetAiPrefixStep DEF Abort
<1>. QED BY <1>2, <1>3, <1>4, <1>5, <1>6, <1>7, <1>8, <1>9 DEF Next

\* Every state a program reaches satisfies the inductive invariant.
THEOREM ConversationInvHolds == Spec => []ConversationInv
BY InitStep, ConversationNext, PTL DEF Spec

\* Every variable has its type; the context never has more than max_length items.
THEOREM TypesHold == Spec => []TypeOK
<1>1. ConversationInv => TypeOK
  BY DEF ConversationInv
<1>. QED BY ConversationInvHolds, <1>1, PTL

\* No text of a tool is left waiting when a turn has ended: whatever the callbacks
\* brought, and whichever calls come in between, the turn has pushed it.
THEOREM ToolTextIsUsed == Spec => []ToolInputIsUsed
<1>1. ConversationInv => ToolInputIsUsed
  BY DEF ConversationInv, ToolTextWaits, ToolInputIsUsed
<1>. QED BY ConversationInvHolds, <1>1, PTL

\* A generation that goes on after a shift has room for its token, whether the shift
\* came before the input was taken, in the middle of an answer, or again.
THEOREM ShiftsMakeRoom == Spec => ShiftMakesRoom
<1>1. ASSUME ConversationInv, [Next]_vars, pc = "shift", pc' = "generate",
             program.max_context + 1 < program.max_length
      PROVE  Fits'
  <2>1. ShiftMemory
    BY <1>1 DEF Next, Turn, UserInput, Chat, Retry, Answer, Continued, EvalSysPrompt,
                WriteSession, NoRoom, Complete, RunOut, RunsOn, Abort, NothingRun, CutShort,
                SetAiPrefix, ToolInput, LateToolInput, AiContinue, Restart, HistoryAppend,
                HistorySetCursor, HistorySetCursorAstray, SetCursor, SaveSession, SavePrompt,
                LoadSession, LoadSessionFails, vars
  <2>2. Len(context') <= program.max_context /\ Len(context') \in Nat
    BY <1>1, <2>1, ShiftedType DEF ShiftMemory
  <2>3. Len(input_ids') \in {0, 1}
    BY <1>1, <2>1, LastSpoken DEF ShiftMemory
  <2>4. program' = program /\ program.max_context \in Nat /\ program.max_length \in Nat
    BY <1>1, <2>1, InvSays DEF ShiftMemory
  <2>5. Len(context') + Len(input_ids') < program.max_length
    <3>. DEFINE a == Len(context')
                b == Len(input_ids')
                k == program.max_context
                m == program.max_length
    <3>1. a \in Nat /\ b \in {0, 1} /\ k \in Nat /\ m \in Nat /\ a <= k /\ k + 1 < m
      BY <1>1, <2>2, <2>3, <2>4
    <3>. HIDE DEF a, b, k, m
    <3>2. a + b < m
      BY <3>1
    <3>. QED BY <3>2 DEF a, b, m
  <2>. QED BY <2>4, <2>5 DEF Fits
<1>. QED BY <1>1, ConversationInvHolds, PTL DEF Spec, ShiftMakesRoom

-----------------------------------------------------------------------------
(* The pipeline uses the model's context by the operations it offers. *)

LEMMA RewindMoves ==
    ASSUME file' = file, \E k \in 0 .. Len(context) : context' = SubSeq(context, 1, k)
    PROVE  Context!Next
BY DEF Context!Next, Context!Rewind

LEMMA EmptyMoves ==
    ASSUME ConversationInv, file' = file, context' = <<>>
    PROVE  Context!Next
<1>1. 0 \in 0 .. Len(context) /\ SubSeq(context, 1, 0) = <<>>
  BY InvSays
<1>. QED BY <1>1, RewindMoves

LEMMA ExtendMoves ==
    ASSUME ConversationInv, file' = file, context' \in Seq(Items),
           Len(context') <= program.max_length, Len(context) <= Len(context'),
           SubSeq(context', 1, Len(context)) = context
    PROVE  Context!Next
<1>1. Len(context') <= MaxLength
  <2>1. /\ program.max_length \in Nat /\ program.max_length <= MaxLength
        /\ MaxLength \in Nat /\ Len(context') \in Nat
    BY InvSays, ProgramType, ConversationAssumption
  <2>. QED BY <2>1
<1>. QED BY <1>1 DEF Context!Next, Context!Extend, Context!Contexts

LEMMA SaveMoves ==
    ASSUME ConversationInv, NEW h \in Seq(Message), file' = SessionOf(h), context' = context
    PROVE  Context!Next
<1>1. file'.context = context /\ file' # NoFile
  BY SessionType
<1>. QED BY <1>1 DEF Context!Next, Context!Save

LEMMA LoadMoves ==
    ASSUME ConversationInv, LoadSession
    PROVE  Context!Next
<1>1. file # NoFile /\ file' = file /\ context' = file.context
  BY DEF LoadSession
<1>2. file.context # NoFile
  BY <1>1, NoFileAssumption DEF ConversationInv, TypeOK, Session
<1>. QED BY <1>1, <1>2 DEF Context!Next, Context!Load

LEMMA LoadFailsMoves ==
    ASSUME ConversationInv, NEW read \in {"header", "counters", "layers"},
           LoadSessionFails(read)
    PROVE  [Context!Next]_(Context!vars)
<1>1. file' = file /\ context' = Remains(read) /\ (read # "header" => file # NoFile)
  BY DEF LoadSessionFails, sessionVars
<1>2. CASE read = "header"
  BY <1>1, <1>2, RemainsType DEF Context!vars
<1>3. CASE read # "header"
  <2>. DEFINE stored == file.context
  <2>1. stored \in Seq(Items) /\ file.context # NoFile
    BY <1>1, <1>3, NoFileAssumption DEF ConversationInv, TypeOK, Session
  <2>2. /\ context' \in Seq(Items) /\ Len(context') = Len(stored)
        /\ Len(context') <= program.max_length
        /\ \A i \in 1 .. Len(stored) :
              i <= Len(context) /\ (\A j \in 1 .. i : context[j] = stored[j])
              => context'[i] = stored[i]
    BY <1>1, <1>3, RemainsType
  <2>. HIDE DEF stored
  <2>3. Len(context') <= MaxLength
    BY <2>2, InvSays, ProgramType, ConversationAssumption
  <2>4. ASSUME NEW n \in 0 .. Len(stored), n <= Len(context),
               SubSeq(context, 1, n) = SubSeq(stored, 1, n)
        PROVE  SubSeq(context', 1, n) = SubSeq(stored, 1, n)
    <3>1. context \in Seq(Items) /\ Len(context) \in Nat /\ Len(stored) \in Nat
      BY <2>1, InvSays
    <3>2. ASSUME NEW j \in 1 .. n PROVE context[j] = stored[j]
      <4>1. SubSeq(context, 1, n)[j] = context[j] /\ SubSeq(stored, 1, n)[j] = stored[j]
        BY <2>1, <2>4, <3>1
      <4>. QED BY <2>4, <4>1
    <3>3. \A i \in 1 .. n : context'[i] = stored[i]
      BY <2>2, <2>4, <3>1, <3>2
    <3>. QED BY <2>1, <2>2, <2>4, <3>1, <3>3
  <2>5. Context!LoadFails
    BY <1>1, <1>3, <2>1, <2>2, <2>3, <2>4 DEF Context!LoadFails, Context!Contexts, stored
  <2>. QED BY <2>5 DEF Context!Next
<1>. QED BY <1>2, <1>3

LEMMA GeneratedMoves ==
    ASSUME ConversationInv, NEW text \in Outputs, Complete(text) \/ CutShort(text) \/ RunOut(text)
    PROVE  [Context!Next]_(Context!vars)
<1>1. text \in Seq(Piece) /\ Run(text) \in Seq(Piece)
  BY InvSays, OutputsType, AnswersType, RunType
<1>2. file' = file
  BY DEF Complete, CutShort, RunOut, OutOfContext, sessionVars
<1>3. RunsOn(text) \/ RunsOn(Run(text))
  BY DEF Complete, CutShort, RunOut
<1>. QED BY <1>1, <1>2, <1>3, RunsOnType, ExtendMoves

LEMMA TurnMoves ==
    ASSUME ConversationInv, Turn
    PROVE  [Context!Next]_(Context!vars)
<1>. USE DEF promptVars, sessionVars
<1>1. CASE Chat
  <2>1. file' = file /\ context' \in {context, <<>>}
    BY <1>1 DEF Chat
  <2>. QED BY <2>1, EmptyMoves DEF Context!vars
<1>2. CASE Retry
  <2>1. file' = file /\ context' = <<>>
    BY <1>2, Zenon DEF Retry
  <2>. QED BY <2>1, EmptyMoves
<1>3. CASE ShiftMemory
  <2>1. file' = file /\ context' = Shifted
    BY <1>3 DEF ShiftMemory
  <2>2. CASE \E n \in 1 .. Len(context) : Shifted = SubSeq(context, n, Len(context))
    BY <2>1, <2>2 DEF Context!Next, Context!Forget
  <2>3. CASE Shifted = <<>>
    BY <2>1, <2>3, EmptyMoves
  <2>4. CASE Shifted = context
    BY <2>1, <2>4 DEF Context!vars
  <2>. QED BY <2>2, <2>3, <2>4, ShiftedType
<1>4. CASE Answer
  <2>1. Answered(history, round) \in Seq(Message)
    <3>1. "Assistant" \in Role
      BY DEF Role
    <3>2. Pushed(history, "Assistant", output, round) \in Seq(Message)
      BY <3>1, InvSays, PushedType
    <3>. QED BY <3>2, TokPosType, WithTokPosType DEF Answered
  <2>2. context' = context /\ file' \in {file, SessionOf(Answered(history, round))}
    BY <1>4 DEF Answer
  <2>. QED BY <2>1, <2>2, SaveMoves DEF Context!vars
<1>5. CASE Continued
  BY <1>5 DEF Continued, Context!vars
<1>6. CASE EvalSysPrompt
  <2>1. context = <<>> /\ context' = <<Sys>> /\ file' = file
    BY <1>6 DEF EvalSysPrompt, ConversationInv, PromptAlone
  <2>2. context' \in Seq(Items) /\ Len(context') <= program.max_length
    <3>1. ConversationInv' /\ program' = program
      BY <1>6, SavePromptStep DEF EvalSysPrompt
    <3>. QED BY <3>1 DEF ConversationInv, TypeOK
  <2>3. Len(context) = 0 /\ Len(context) <= Len(context')
    BY <2>1, <2>2
  <2>4. SubSeq(context', 1, Len(context)) = context
    BY <2>1, <2>2, <2>3
  <2>. QED BY <2>1, <2>2, <2>3, <2>4, ExtendMoves
<1>7. CASE WriteSession
  BY <1>7, InvSays, SaveMoves DEF WriteSession
<1>8. ASSUME NEW text \in Outputs, Complete(text) \/ RunOut(text)
      PROVE  [Context!Next]_(Context!vars)
  BY <1>8, GeneratedMoves
<1>9. CASE NoRoom
  BY <1>9 DEF NoRoom, OutOfContext, Context!vars
<1>. QED BY <1>1, <1>2, <1>3, <1>4, <1>5, <1>6, <1>7, <1>8, <1>9 DEF Turn

LEMMA OtherMoves ==
    ASSUME ConversationInv, [Next]_vars, ~Turn
    PROVE  [Context!Next]_(Context!vars)
<1>. USE DEF promptVars, sessionVars
<1>1. /\ 1 .. MaxMessages \subseteq Nat /\ 0 .. MaxLength \subseteq Nat
      /\ Completions \subseteq Piece
  BY ConversationAssumption, MessagesAssumption
<1>2. ASSUME NEW t, NEW r, \/ UserInput(t) \/ ToolInput(t) \/ LateToolInput(t)
                           \/ HistoryAppend(r, t) \/ HistorySetCursorAstray(t)
                           \/ SetAiPrefix(t) \/ NothingRun \/ UNCHANGED vars
      PROVE  [Context!Next]_(Context!vars)
  BY <1>2 DEF UserInput, ToolInput, LateToolInput, HistoryAppend, HistorySetCursorAstray,
              SetAiPrefix, NothingRun, vars, Context!vars
<1>3. ASSUME NEW t \in Completions, AiContinue(t)
      PROVE  [Context!Next]_(Context!vars)
  <2>. DEFINE e == EncodeHistory(history, program.max_length, FALSE, FALSE)
  <2>1. e \in Seq(Items)
    BY InvSays, EncodeType
  <2>2. context' = RewoundTo(Len(e)) /\ file' = file
    BY <1>3, Zenon DEF AiContinue
  <2>. HIDE DEF e
  <2>3. Len(e) \in Nat
    BY <2>1
  <2>. QED BY <2>2, <2>3, InvSays, RewoundType, RewindMoves
<1>4. ASSUME NEW p, Restart(p)
      PROVE  [Context!Next]_(Context!vars)
  <2>1. ~(sess_hist_len > 0)
    BY DEF ConversationInv, SessionsFit, TypeOK
  <2>. QED BY <1>4, <2>1 DEF Restart, Context!vars
<1>5. ASSUME NEW p \in Nat, HistorySetCursor(p)
      PROVE  [Context!Next]_(Context!vars)
  <2>1. p \in DOMAIN history
    BY <1>5, InvSays DEF HistorySetCursor, ConversationInv, CursorThere, CursorInRange
  <2>2. history[p] \in Message
    BY <2>1, InvSays
  <2>3. history[p].tok_pos \in Nat /\ context' = RewoundTo(history[p].tok_pos) /\ file' = file
    BY <1>5, <2>2 DEF HistorySetCursor, Message
  <2>. QED BY <2>3, InvSays, RewoundType, RewindMoves
<1>6. ASSUME NEW p \in Nat, SetCursor(p)
      PROVE  [Context!Next]_(Context!vars)
  <2>1. context' = RewoundTo(p) /\ file' = file
    BY <1>6 DEF SetCursor
  <2>. QED BY <2>1, InvSays, RewoundType, RewindMoves
<1>7. CASE SaveSession
  BY <1>7, InvSays, SaveMoves DEF SaveSession
<1>8. CASE SavePrompt
  BY <1>8, EmptyMoves DEF SavePrompt
<1>9. CASE LoadSession
  BY <1>9, LoadMoves
<1>10. ASSUME NEW text \in Outputs, CutShort(text)
       PROVE  [Context!Next]_(Context!vars)
  BY <1>10, GeneratedMoves
<1>11. ASSUME NEW read \in {"header", "counters", "layers"}, LoadSessionFails(read)
       PROVE  [Context!Next]_(Context!vars)
  BY <1>11, LoadFailsMoves
<1>. QED BY <1>1, <1>2, <1>3, <1>4, <1>5, <1>6, <1>7, <1>8, <1>9, <1>10, <1>11 DEF Next, Abort

\* The pipeline, with its messages, callbacks, sessions and attempts, does with the
\* model's context only what TokenContext promises: it extends it at its end, goes
\* back to a prefix, forgets the oldest items, saves it, or loads what was saved, to
\* the end or not.
THEOREM UsesContext == Spec => UsesTokenContext
<1>1. Init => Context!Init
  BY DEF Init, Context!Init
<1>2. ConversationInv /\ [Next]_vars => [Context!Next]_(Context!vars)
  BY TurnMoves, OtherMoves
<1>. QED BY <1>1, <1>2, ConversationInvHolds, PTL DEF Spec, UsesTokenContext, Context!Spec

-----------------------------------------------------------------------------
(* The text of a history, from the message behind start to the one at end.   *)

Parts(h, start, end) == [i \in 1 .. end - start |-> Render(h[start + i])]

Rendered(h, start, end) == FlattenSeq(Parts(h, start, end))

LEMMA PartsType ==
    ASSUME NEW h \in Seq(Message), NEW end \in 0 .. Len(h), NEW start \in 0 .. end
    PROVE  /\ Parts(h, start, end) \in Seq(Seq(Items))
           /\ Len(Parts(h, start, end)) = end - start
           /\ \A i \in 1 .. end - start : Parts(h, start, end)[i] = Render(h[start + i])
           /\ \A i \in 1 .. end - start : start + i \in DOMAIN h
<1>1. end - start \in Nat /\ \A i \in 1 .. end - start : start + i \in DOMAIN h
  OBVIOUS
<1>2. \A i \in 1 .. end - start : h[start + i] \in Message
  BY <1>1
<1>3. \A i \in 1 .. end - start : Render(h[start + i]) \in Seq(Items)
  BY <1>2, RenderType
<1>. HIDE DEF Render
<1>. QED BY <1>1, <1>3 DEF Parts

LEMMA RenderedType ==
    ASSUME NEW h \in Seq(Message), NEW end \in 0 .. Len(h), NEW start \in 0 .. end
    PROVE  Rendered(h, start, end) \in Seq(Items)
BY PartsType, Flattened DEF Rendered

LEMMA RenderedNothing ==
    ASSUME NEW h \in Seq(Message), NEW end \in 0 .. Len(h)
    PROVE  Rendered(h, end, end) = <<>>
<1>1. Parts(h, end, end) \in Seq(Seq(Items)) /\ Len(Parts(h, end, end)) = 0
  BY PartsType
<1>. QED BY <1>1 DEF Rendered, FlattenSeq

\* It grows by a message at a time.
LEMMA RenderedMore ==
    ASSUME NEW h \in Seq(Message), NEW end \in 0 .. Len(h) - 1, NEW start \in 0 .. end
    PROVE  Rendered(h, start, end + 1) = Rendered(h, start, end) \o Render(h[end + 1])
<1>. DEFINE ss == Parts(h, start, end)
            tt == Parts(h, start, end + 1)
<1>1. end \in 0 .. Len(h) /\ end + 1 \in 0 .. Len(h) /\ start \in 0 .. end + 1
  OBVIOUS
<1>2. /\ ss \in Seq(Seq(Items)) /\ Len(ss) = end - start
      /\ \A i \in 1 .. end - start : ss[i] = Render(h[start + i])
  BY <1>1, PartsType
<1>3. /\ tt \in Seq(Seq(Items)) /\ Len(tt) = end + 1 - start
      /\ \A i \in 1 .. end + 1 - start : tt[i] = Render(h[start + i])
  <2>. DEFINE e == end + 1
  <2>1. e \in 0 .. Len(h) /\ start \in 0 .. e
    BY <1>1
  <2>. HIDE DEF e
  <2>2. /\ Parts(h, start, e) \in Seq(Seq(Items)) /\ Len(Parts(h, start, e)) = e - start
        /\ \A i \in 1 .. e - start : Parts(h, start, e)[i] = Render(h[start + i])
    BY <2>1, PartsType
  <2>. QED BY <2>2 DEF e
<1>. HIDE DEF ss, tt
<1>4. Len(tt) = Len(ss) + 1 /\ \A i \in 1 .. Len(ss) : tt[i] = ss[i]
  BY <1>2, <1>3
<1>5. tt[Len(tt)] = Render(h[end + 1])
  <2>1. Len(tt) \in 1 .. end + 1 - start /\ start + Len(tt) = end + 1
    BY <1>3
  <2>. QED BY <1>3, <2>1
<1>6. FlattenSeq(tt) = FlattenSeq(ss) \o tt[Len(tt)]
  BY ONLY <1>2, <1>3, <1>4, FlattenedMore
<1>. QED BY <1>5, <1>6 DEF Rendered, ss, tt

\* Joining is associative.
LEMMA JoinedTwice ==
    ASSUME NEW S, NEW x \in Seq(S), NEW y \in Seq(S), NEW z \in Seq(S)
    PROVE  (x \o y) \o z = x \o (y \o z)
OBVIOUS

\* It comes in two parts.
LEMMA RenderedJoins ==
    ASSUME NEW h \in Seq(Message), NEW start \in Nat, NEW mid \in Nat, NEW end \in Nat,
           start <= mid, mid <= end, end <= Len(h)
    PROVE  Rendered(h, start, end) = Rendered(h, start, mid) \o Rendered(h, mid, end)
<1>. DEFINE Holds(n) == Rendered(h, start, n) = Rendered(h, start, mid) \o Rendered(h, mid, n)
            T == {n \in Nat : mid <= n /\ n <= Len(h) /\ ~Holds(n)}
<1>1. SUFFICES T = {}
  OBVIOUS
<1>2. Rendered(h, start, mid) \in Seq(Items) /\ mid \in 0 .. Len(h) /\ start \in 0 .. mid
  BY RenderedType
<1>3. SUFFICES ASSUME T # {} PROVE FALSE
  OBVIOUS
<1>4. PICK n \in T : \A m \in T : n <= m
  BY <1>3, NatMin
<1>5. CASE n = mid
  <2>1. Rendered(h, mid, mid) = <<>>
    BY <1>2, RenderedNothing
  <2>2. Holds(mid)
    BY <1>2, <2>1
  <2>. QED BY <1>4, <1>5, <2>2
<1>6. CASE n # mid
  <2>. DEFINE m == n - 1
  <2>1. m \in Nat /\ mid <= m /\ m <= Len(h) - 1 /\ m \notin T
    BY <1>4, <1>6
  <2>2. n = m + 1 /\ m \in 0 .. Len(h) - 1 /\ start \in 0 .. m /\ mid \in 0 .. m /\ m \in 0 .. Len(h)
    BY <1>4, <2>1
  <2>. HIDE DEF m
  <2>3. Holds(m)
    BY <2>1
  <2>4. /\ Rendered(h, start, m + 1) = Rendered(h, start, m) \o Render(h[m + 1])
        /\ Rendered(h, mid, m + 1) = Rendered(h, mid, m) \o Render(h[m + 1])
    BY <2>2, RenderedMore
  <2>5. Rendered(h, mid, m) \in Seq(Items) /\ Render(h[m + 1]) \in Seq(Items)
    <3>1. h[m + 1] \in Message
      BY <2>2
    <3>. QED BY <2>2, <3>1, RenderedType, RenderType
  <2>6. Holds(m + 1)
    <3>. DEFINE x == Rendered(h, start, mid)
                y == Rendered(h, mid, m)
                z == Render(h[m + 1])
    <3>1. x \in Seq(Items) /\ y \in Seq(Items) /\ z \in Seq(Items)
      BY <1>2, <2>5
    <3>2. Rendered(h, start, m + 1) = (x \o y) \o z /\ Rendered(h, mid, m + 1) = y \o z
      BY <2>3, <2>4
    <3>. HIDE DEF x, y, z
    <3>3. (x \o y) \o z = x \o (y \o z)
      BY ONLY <3>1, JoinedTwice, SMTT(40)
    <3>. QED BY ONLY <3>2, <3>3 DEF x
  <2>. QED BY <1>4, <2>2, <2>6
<1>. QED BY <1>5, <1>6

\* Two histories that say the same, up to a message.
Alike(h, k, n) ==
    /\ n <= Len(h) /\ n <= Len(k)
    /\ \A i \in 1 .. n : /\ h[i].role = k[i].role /\ h[i].content = k[i].content
                         /\ h[i].round = k[i].round

LEMMA RenderedAlike ==
    ASSUME NEW h \in Seq(Message), NEW k \in Seq(Message), NEW end \in Nat,
           NEW start \in 0 .. end, Alike(h, k, end)
    PROVE  Rendered(h, start, end) = Rendered(k, start, end)
<1>1. \A i \in 1 .. end - start : start + i \in 1 .. end
  OBVIOUS
<1>2. \A i \in 1 .. end - start : Render(h[start + i]) = Render(k[start + i])
  BY <1>1 DEF Alike, Render
<1>3. Parts(h, start, end) = Parts(k, start, end)
  <2>. HIDE DEF Render
  <2>. QED BY <1>2 DEF Parts
<1>. QED BY <1>3 DEF Rendered

\* What the model has been told: Window, of any history.
PromptBefore(h, sys, start, end) ==
    IF end = 0 \/ (start < end /\ h[start + 1].round = 0)
    THEN <<Item("System", sys)>> ELSE <<>>

Told(h, sys, start, end) == PromptBefore(h, sys, start, end) \o Rendered(h, start, end)

LEMMA PromptBeforeType ==
    ASSUME NEW h, NEW sys \in SysPrompts, NEW start, NEW end
    PROVE  /\ PromptBefore(h, sys, start, end) \in Seq(Items)
           /\ Len(PromptBefore(h, sys, start, end)) <= 1
BY DEF PromptBefore, Item, Items

LEMMA ToldType ==
    ASSUME NEW h \in Seq(Message), NEW sys \in SysPrompts, NEW end \in 0 .. Len(h),
           NEW start \in 0 .. end
    PROVE  /\ Told(h, sys, start, end) \in Seq(Items)
           /\ Len(Told(h, sys, start, end)) =
                Len(PromptBefore(h, sys, start, end)) + Len(Rendered(h, start, end))
<1>1. PromptBefore(h, sys, start, end) \in Seq(Items) /\ Rendered(h, start, end) \in Seq(Items)
  BY PromptBeforeType, RenderedType
<1>. QED BY <1>1 DEF Told

LEMMA ToldAlike ==
    ASSUME NEW h \in Seq(Message), NEW k \in Seq(Message), NEW sys, NEW end \in Nat,
           NEW start \in 0 .. end, Alike(h, k, end)
    PROVE  Told(h, sys, start, end) = Told(k, sys, start, end)
<1>1. Rendered(h, start, end) = Rendered(k, start, end)
  BY RenderedAlike
<1>2. start < end => start + 1 \in 1 .. end
  OBVIOUS
<1>3. PromptBefore(h, sys, start, end) = PromptBefore(k, sys, start, end)
  BY <1>2 DEF PromptBefore, Alike
<1>. QED BY <1>1, <1>3 DEF Told

\* More of a history continues what has been told of it.
LEMMA ToldJoins ==
    ASSUME NEW h \in Seq(Message), NEW sys \in SysPrompts, NEW start \in Nat,
           NEW mid \in Nat, NEW end \in Nat, start < mid, mid <= end, end <= Len(h)
    PROVE  Told(h, sys, start, end) = Told(h, sys, start, mid) \o Rendered(h, mid, end)
<1>. DEFINE f == PromptBefore(h, sys, start, mid)
            x == Rendered(h, start, mid)
            y == Rendered(h, mid, end)
<1>1. PromptBefore(h, sys, start, end) = f
  BY DEF PromptBefore
<1>2. Rendered(h, start, end) = x \o y
  BY RenderedJoins
<1>3. f \in Seq(Items) /\ x \in Seq(Items) /\ y \in Seq(Items)
  <2>1. start \in 0 .. mid /\ mid \in 0 .. Len(h) /\ mid \in 0 .. end /\ end \in 0 .. Len(h)
    OBVIOUS
  <2>. QED BY <2>1, PromptBeforeType, RenderedType
<1>4. Told(h, sys, start, end) = f \o (x \o y) /\ Told(h, sys, start, mid) = f \o x
  BY <1>1, <1>2 DEF Told
<1>. HIDE DEF f, x, y
<1>5. (f \o x) \o y = f \o (x \o y)
  BY ONLY <1>3, JoinedTwice
<1>. QED BY ONLY <1>4, <1>5 DEF y

\* The system prompt alone is what is told of no message.
LEMMA ToldFirst ==
    ASSUME NEW h \in Seq(Message), NEW sys \in SysPrompts, NEW end \in Nat, end <= Len(h),
           end > 0 => h[1].round = 0
    PROVE  /\ Told(h, sys, 0, 0) = <<Item("System", sys)>>
           /\ Told(h, sys, 0, end) = Told(h, sys, 0, 0) \o Rendered(h, 0, end)
<1>1. Rendered(h, 0, 0) = <<>>
  BY RenderedNothing
<1>2. /\ PromptBefore(h, sys, 0, 0) = <<Item("System", sys)>>
      /\ PromptBefore(h, sys, 0, end) = PromptBefore(h, sys, 0, 0)
  BY DEF PromptBefore
<1>3. PromptBefore(h, sys, 0, 0) \in Seq(Items)
  BY PromptBeforeType
<1>4. Told(h, sys, 0, 0) = PromptBefore(h, sys, 0, 0)
  <2>. DEFINE f == PromptBefore(h, sys, 0, 0)
  <2>. HIDE DEF f
  <2>1. f \o <<>> = f
    BY <1>3 DEF f
  <2>. QED BY <1>1, <2>1 DEF f, Told
<1>. QED BY <1>2, <1>4 DEF Told

\* What has been told of fewer messages is how it begins.
LEMMA ToldBegins ==
    ASSUME NEW h \in Seq(Message), NEW sys \in SysPrompts, NEW start \in Nat,
           NEW mid \in Nat, NEW end \in Nat, start < mid, mid <= end, end <= Len(h)
    PROVE  /\ Len(Told(h, sys, start, mid)) <= Len(Told(h, sys, start, end))
           /\ SubSeq(Told(h, sys, start, end), 1, Len(Told(h, sys, start, mid)))
                = Told(h, sys, start, mid)
<1>. DEFINE x == Told(h, sys, start, mid)
            y == Rendered(h, mid, end)
<1>1. Told(h, sys, start, end) = x \o y
  BY ToldJoins
<1>2. x \in Seq(Items) /\ y \in Seq(Items)
  <2>1. start \in 0 .. mid /\ mid \in 0 .. Len(h) /\ mid \in 0 .. end /\ end \in 0 .. Len(h)
    OBVIOUS
  <2>. QED BY <2>1, ToldType, RenderedType
<1>. HIDE DEF x, y
<1>3. Len(x) <= Len(x \o y) /\ SubSeq(x \o y, 1, Len(x)) = x
  BY ONLY <1>2
<1>. QED BY <1>1, <1>3 DEF x

LEMMA WindowIsTold ==
    ASSUME NEW k \in Seq(Message), NEW start \in 0 .. Len(k)
    PROVE  Window(k, start) = Told(k, sys_prompt, start, Len(k))
<1>1. RenderFrom(k, start) = Rendered(k, start, Len(k))
  BY DEF RenderFrom, Rendered, Parts
<1>2. k = <<>> <=> Len(k) = 0
  OBVIOUS
<1>. QED BY <1>1, <1>2 DEF Window, Told, PromptBefore, Sys

\* The last message is told last.
LEMMA ToldLast ==
    ASSUME NEW h \in Seq(Message), NEW sys \in SysPrompts, NEW n \in 1 .. Len(h),
           NEW start \in 0 .. n - 1
    PROVE  /\ Told(h, sys, start, n) =
                (PromptBefore(h, sys, start, n) \o Rendered(h, start, n - 1)) \o Render(h[n])
           /\ PromptBefore(h, sys, start, n) \o Rendered(h, start, n - 1) \in Seq(Items)
           /\ Render(h[n]) \in Seq(Items)
<1>. DEFINE m == n - 1
            f == PromptBefore(h, sys, start, n)
            x == Rendered(h, start, m)
            y == Render(h[m + 1])
<1>1. n = m + 1 /\ m \in 0 .. Len(h) - 1 /\ m \in 0 .. Len(h) /\ start \in 0 .. m
  OBVIOUS
<1>2. h[m + 1] \in Message
  BY <1>1
<1>. HIDE DEF m
<1>3. Rendered(h, start, m + 1) = x \o y
  BY <1>1, RenderedMore
<1>4. f \in Seq(Items) /\ x \in Seq(Items) /\ y \in Seq(Items)
  BY <1>1, <1>2, PromptBeforeType, RenderedType, RenderType
<1>5. Told(h, sys, start, n) = f \o (x \o y)
  BY <1>1, <1>3 DEF Told
<1>. HIDE DEF f, x, y
<1>6. (f \o x) \o y = f \o (x \o y) /\ f \o x \in Seq(Items)
  BY ONLY <1>4, JoinedTwice
<1>. QED BY <1>1, <1>4, <1>5, <1>6 DEF f, x, y, m

\* What is spoken of two texts is spoken of the one, then of the other.
LEMMA SpokenTwice ==
    ASSUME NEW c \in Seq(Piece), NEW d \in Seq(Piece)
    PROVE  Spoken(c \o d) = Spoken(c) \o Spoken(d)
<1>1. c \o d \in Seq(Piece)
  OBVIOUS
<1>2. /\ Spoken(c) \in Seq(Items) /\ Len(Spoken(c)) = Len(c)
      /\ Spoken(d) \in Seq(Items) /\ Len(Spoken(d)) = Len(d)
      /\ Spoken(c \o d) \in Seq(Items) /\ Len(Spoken(c \o d)) = Len(c \o d)
  BY <1>1, SpokenType
<1>. DEFINE a == Spoken(c)
            b == Spoken(d)
<1>3. /\ \A i \in 1 .. Len(c) : a[i] = Item("Assistant", c[i])
      /\ \A i \in 1 .. Len(d) : b[i] = Item("Assistant", d[i])
      /\ \A i \in 1 .. Len(c \o d) : Spoken(c \o d)[i] = Item("Assistant", (c \o d)[i])
  BY <1>1 DEF Spoken
<1>4. a \in Seq(Items) /\ Len(a) = Len(c) /\ b \in Seq(Items) /\ Len(b) = Len(d)
  BY <1>2
<1>. HIDE DEF a, b, Spoken, Item
<1>7. a \o b \in Seq(Items) /\ Len(a \o b) = Len(c) + Len(d)
  BY ONLY <1>4, Len(c) \in Nat, Len(d) \in Nat, SMTT(40)
<1>8. \A i \in 1 .. Len(c) + Len(d) : Spoken(c \o d)[i] = (a \o b)[i]
  <2>. SUFFICES ASSUME NEW i \in 1 .. Len(c) + Len(d)
                PROVE  Spoken(c \o d)[i] = (a \o b)[i]
    OBVIOUS
  <2>1. Len(c) \in Nat /\ Len(d) \in Nat /\ i \in Nat /\ Len(c \o d) = Len(c) + Len(d)
    OBVIOUS
  <2>2. Spoken(c \o d)[i] = Item("Assistant", (c \o d)[i])
    BY <1>3, <2>1
  <2>3. CASE i <= Len(c)
    <3>1. i \in 1 .. Len(c) /\ (c \o d)[i] = c[i]
      BY <2>1, <2>3
    <3>2. (a \o b)[i] = a[i]
      BY ONLY <1>4, <3>1, <2>1
    <3>. QED BY <1>3, <2>2, <3>1, <3>2
  <2>4. CASE i > Len(c)
    <3>. DEFINE m == i - Len(c)
    <3>1. m \in 1 .. Len(d) /\ (c \o d)[i] = d[m]
      BY <2>1, <2>4
    <3>2. (a \o b)[i] = b[m]
      BY ONLY <1>4, <2>1, <2>4, i \in 1 .. Len(c) + Len(d)
    <3>. HIDE DEF m
    <3>. QED BY <1>3, <2>2, <3>1, <3>2
  <2>5. i <= Len(c) \/ i > Len(c)
    BY <2>1
  <2>. QED BY <2>3, <2>4, <2>5, Zenon
<1>5. Len(c \o d) = Len(c) + Len(d)
  OBVIOUS
<1>6. Spoken(c \o d) \in Seq(Items) /\ Len(Spoken(c \o d)) = Len(c) + Len(d)
  BY <1>2, <1>5
<1>. QED BY ONLY <1>7, <1>8, <1>6, SeqEqual DEF a, b

\* An answer behind what has been told: its opening, and its text.
LEMMA ToldAnswer ==
    ASSUME NEW h \in Seq(Message), NEW k \in Seq(Message), NEW sys \in SysPrompts,
           Len(k) = Len(h) + 1, Alike(h, k, Len(h)), k[Len(k)].role = "Assistant",
           NEW start \in 0 .. Len(h) - 1
    PROVE  Told(k, sys, start, Len(k)) =
                (Told(h, sys, start, Len(h)) \o <<Open>>) \o Spoken(k[Len(k)].content)
<1>. DEFINE n == Len(h)
            x == Told(h, sys, start, n)
            c == k[Len(k)].content
<1>1. n \in Nat /\ n <= Len(k) /\ start < n /\ n \in 0 .. Len(h) /\ start \in 0 .. n
  OBVIOUS
<1>2. Told(k, sys, start, n) = x
  BY <1>1, ToldAlike
<1>3. k[Len(k)] \in Message /\ c \in Seq(Piece)
  <2>1. Len(k) \in DOMAIN k
    BY <1>1
  <2>2. k[Len(k)] \in Message
    BY <2>1
  <2>. QED BY <2>2 DEF Message
<1>4. Render(k[Len(k)]) = <<Open>> \o Spoken(c)
  BY DEF Render
<1>5. Told(k, sys, start, Len(k)) = x \o Rendered(k, n, Len(k))
  <2>1. start \in Nat /\ Len(k) \in Nat /\ n <= Len(k) /\ Len(k) <= Len(k)
    BY <1>1
  <2>2. Told(k, sys, start, Len(k)) = Told(k, sys, start, n) \o Rendered(k, n, Len(k))
    BY ONLY <1>1, <2>1, ToldJoins, k \in Seq(Message), sys \in SysPrompts
  <2>. QED BY <1>2, <2>2
<1>6. Rendered(k, n, n + 1) = <<>> \o Render(k[n + 1])
  <2>1. n \in 0 .. Len(k) - 1 /\ n \in 0 .. n /\ n \in 0 .. Len(k)
    BY <1>1
  <2>. QED BY <2>1, RenderedMore, RenderedNothing
<1>7. x \in Seq(Items) /\ <<Open>> \in Seq(Items) /\ Spoken(c) \in Seq(Items)
  <2>1. x \in Seq(Items)
    BY <1>1, ToldType
  <2>. QED BY <1>3, <2>1, OpenType, SpokenType
<1>. HIDE DEF x, c
<1>8. Rendered(k, n, Len(k)) = <<Open>> \o Spoken(c)
  <2>1. <<Open>> \o Spoken(c) \in Seq(Items)
    BY <1>7
  <2>2. <<>> \o (<<Open>> \o Spoken(c)) = <<Open>> \o Spoken(c)
    BY ONLY <2>1
  <2>. QED BY <1>4, <1>6, <2>2
<1>9. (x \o <<Open>>) \o Spoken(c) = x \o (<<Open>> \o Spoken(c))
  BY ONLY <1>7, JoinedTwice
<1>. QED BY <1>5, <1>8, <1>9 DEF x, c

\* Text behind an answer.
LEMMA ToldMore ==
    ASSUME NEW h \in Seq(Message), NEW k \in Seq(Message), NEW sys \in SysPrompts,
           Len(k) = Len(h), NEW start \in 0 .. Len(h) - 1,
           \A i \in 1 .. Len(h) - 1 : k[i] = h[i],
           NEW texts \in Seq(Piece),
           h[Len(h)].role = "Assistant", k[Len(h)].role = "Assistant",
           k[Len(h)].round = h[Len(h)].round,
           k[Len(h)].content = h[Len(h)].content \o texts
    PROVE  Told(k, sys, start, Len(h)) = Told(h, sys, start, Len(h)) \o Spoken(texts)
<1>. DEFINE n == Len(h)
            x == PromptBefore(h, sys, start, n) \o Rendered(h, start, n - 1)
            c == h[n].content
<1>1. n \in 1 .. Len(h) /\ n \in 1 .. Len(k) /\ start \in 0 .. n - 1
  OBVIOUS
<1>2. h[n] \in Message /\ k[n] \in Message /\ c \in Seq(Piece)
  <2>1. h[n] \in Message /\ k[n] \in Message
    BY <1>1
  <2>. QED BY <2>1 DEF Message
<1>3. /\ Told(h, sys, start, n) = x \o Render(h[n])
      /\ x \in Seq(Items)
  BY <1>1, ToldLast
<1>4. Told(k, sys, start, n) =
        (PromptBefore(k, sys, start, n) \o Rendered(k, start, n - 1)) \o Render(k[n])
  BY <1>1, ToldLast
<1>5. PromptBefore(k, sys, start, n) = PromptBefore(h, sys, start, n)
  <2>1. k[start + 1].round = h[start + 1].round
    <3>1. CASE start + 1 = n
      BY <3>1
    <3>2. CASE start + 1 # n
      BY <1>1, <3>2
    <3>. QED BY <3>1, <3>2
  <2>. QED BY <2>1 DEF PromptBefore
<1>6. Rendered(k, start, n - 1) = Rendered(h, start, n - 1)
  <2>. DEFINE m == n - 1
  <2>1. m \in Nat /\ start \in 0 .. m /\ Alike(k, h, m)
    BY <1>1 DEF Alike
  <2>. HIDE DEF m
  <2>2. Rendered(k, start, m) = Rendered(h, start, m)
    BY <2>1, RenderedAlike
  <2>. QED BY <2>2 DEF m
<1>7. Render(h[n]) = <<Open>> \o Spoken(c) /\ Render(k[n]) = <<Open>> \o Spoken(c \o texts)
  BY DEF Render
<1>8. Spoken(c \o texts) = Spoken(c) \o Spoken(texts)
  BY <1>2, SpokenTwice
<1>. DEFINE a == Spoken(c)
            b == Spoken(texts)
            o == <<Open>>
<1>9. a \in Seq(Items) /\ b \in Seq(Items) /\ o \in Seq(Items)
  BY <1>2, SpokenType, OpenType
<1>10. Told(k, sys, start, n) = x \o (o \o (a \o b)) /\ Told(h, sys, start, n) = x \o (o \o a)
  BY <1>3, <1>4, <1>5, <1>6, <1>7, <1>8
<1>. HIDE DEF x, a, b, o, c
<1>11. o \o (a \o b) = (o \o a) \o b /\ o \o a \in Seq(Items)
  BY ONLY <1>9, JoinedTwice, SMTT(40)
<1>12. x \o ((o \o a) \o b) = (x \o (o \o a)) \o b
  <2>. DEFINE w == o \o a
  <2>1. x \in Seq(Items) /\ w \in Seq(Items) /\ b \in Seq(Items)
    BY <1>3, <1>9, <1>11
  <2>. HIDE DEF w
  <2>2. (x \o w) \o b = x \o (w \o b)
    BY ONLY <2>1, JoinedTwice, SMTT(40)
  <2>. QED BY <2>2 DEF w
<1>. QED BY ONLY <1>10, <1>11, <1>12 DEF b, n

\* The whole history is the longest there is to tell.
LEMMA ToldLongest ==
    ASSUME NEW h \in Seq(Message), NEW sys \in SysPrompts, NEW n \in 1 .. Len(h),
           NEW start \in 0 .. n - 1, h[1].round = 0
    PROVE  Len(Told(h, sys, start, n)) <= Len(Told(h, sys, 0, n))
<1>1. CASE start = 0
  <2>1. n \in 0 .. Len(h) /\ 0 \in 0 .. n
    OBVIOUS
  <2>2. Told(h, sys, 0, n) \in Seq(Items)
    BY <2>1, ToldType
  <2>3. Len(Told(h, sys, 0, n)) \in Nat
    BY <2>2
  <2>. QED BY <1>1, <2>3
<1>2. CASE start # 0
  <2>. DEFINE x == Told(h, sys, 0, start)
              y == Rendered(h, start, n)
              f == PromptBefore(h, sys, start, n)
  <2>1. 0 \in Nat /\ start \in Nat /\ n \in Nat /\ 0 < start /\ start <= n /\ n <= Len(h)
    BY <1>2
  <2>2. start \in 0 .. Len(h) /\ 0 \in 0 .. start /\ n \in 0 .. Len(h) /\ start \in 0 .. n
    BY <2>1
  <2>3. Told(h, sys, 0, n) = x \o y
    BY ONLY <2>1, ToldJoins, h \in Seq(Message), sys \in SysPrompts
  <2>4. Told(h, sys, start, n) = f \o y
    BY DEF Told
  <2>5. y \in Seq(Items) /\ f \in Seq(Items) /\ Len(f) <= 1
    <3>1. y \in Seq(Items)
      BY <2>2, RenderedType
    <3>2. f \in Seq(Items) /\ Len(f) <= 1
      BY PromptBeforeType
    <3>. QED BY ONLY <3>1, <3>2
  <2>6. x \in Seq(Items) /\ Len(x) = Len(PromptBefore(h, sys, 0, start)) + Len(Rendered(h, 0, start))
    BY <2>2, ToldType
  <2>7. Len(PromptBefore(h, sys, 0, start)) = 1
    BY <2>1 DEF PromptBefore
  <2>8. Len(Rendered(h, 0, start)) \in Nat
    <3>1. Rendered(h, 0, start) \in Seq(Items)
      BY <2>2, RenderedType
    <3>. QED BY <3>1
  <2>. HIDE DEF x, y, f
  <2>9. Len(x \o y) = Len(x) + Len(y) /\ Len(f \o y) = Len(f) + Len(y)
    BY ONLY <2>5, <2>6
  <2>10. Len(x) \in Nat /\ Len(y) \in Nat /\ Len(f) \in Nat
    BY ONLY <2>5, <2>6
  <2>. QED BY ONLY <2>3, <2>4, <2>5, <2>6, <2>7, <2>8, <2>9, <2>10
<1>. QED BY <1>1, <1>2

-----------------------------------------------------------------------------
(* Histories of bounded messages. *)

Short(h) == \A i \in 1 .. Len(h) : Len(h[i].content) <= MaxPieces

LEMMA RenderLength ==
    ASSUME NEW m \in Message
    PROVE  Len(Render(m)) \in Nat /\ Len(Render(m)) <= Len(m.content) + 1
<1>1. m.content \in Seq(Piece)
  BY DEF Message
<1>2. CASE m.role = "Assistant"
  <2>1. Spoken(m.content) \in Seq(Items) /\ Len(Spoken(m.content)) = Len(m.content)
    BY <1>1, SpokenType
  <2>2. Render(m) = <<Open>> \o Spoken(m.content) /\ <<Open>> \in Seq(Items)
    BY <1>2, OpenType DEF Render
  <2>. DEFINE a == Spoken(m.content)
              o == <<Open>>
  <2>3. Len(o) = 1 /\ a \in Seq(Items) /\ o \in Seq(Items) /\ Len(m.content) \in Nat
    BY <1>1, <2>1, <2>2
  <2>. HIDE DEF a, o
  <2>4. Len(o \o a) = Len(o) + Len(a) /\ Len(a) \in Nat
    <3>1. o \in Seq(Items) /\ a \in Seq(Items)
      BY <2>3
    <3>. QED BY ONLY <3>1, ConcatProperties
  <2>. QED BY <2>1, <2>2, <2>3, <2>4 DEF a, o
<1>3. CASE m.role # "Assistant"
  BY <1>1, <1>3 DEF Render
<1>. QED BY <1>2, <1>3

\* Each message takes a position more than it has pieces, at most.
LEMMA RenderedLength ==
    ASSUME NEW h \in Seq(Message), Short(h), NEW start \in Nat, NEW end \in Nat,
           start <= end, end <= Len(h)
    PROVE  Len(Rendered(h, start, end)) <= (end - start) * (MaxPieces + 1)
<1>. DEFINE Bound(n) == (n - start) * (MaxPieces + 1)
            Holds(n) == Len(Rendered(h, start, n)) <= Bound(n)
            T == {n \in Nat : start <= n /\ n <= Len(h) /\ ~Holds(n)}
<1>1. SUFFICES ASSUME T # {} PROVE FALSE
  OBVIOUS
<1>2. PICK n \in T : \A m \in T : n <= m
  BY <1>1, NatMin
<1>3. MaxPieces + 1 \in Nat
  BY MessagesAssumption
<1>4. CASE n = start
  <2>1. Rendered(h, start, start) = <<>>
    BY RenderedNothing
  <2>2. (start - start) * (MaxPieces + 1) = 0
    BY <1>3
  <2>. QED BY <1>2, <1>4, <2>1, <2>2
<1>5. CASE n # start
  <2>. DEFINE m == n - 1
  <2>1. /\ m \in Nat /\ start <= m /\ m <= Len(h) /\ m \notin T /\ n = m + 1
        /\ m \in 0 .. Len(h) - 1 /\ start \in 0 .. m /\ m \in 0 .. Len(h) /\ m + 1 \in 1 .. Len(h)
    BY <1>2, <1>5
  <2>. HIDE DEF m
  <2>2. Rendered(h, start, m + 1) = Rendered(h, start, m) \o Render(h[m + 1])
    BY <2>1, RenderedMore
  <2>3. h[m + 1] \in Message /\ Len(h[m + 1].content) <= MaxPieces
    BY <2>1 DEF Short
  <2>4. Render(h[m + 1]) \in Seq(Items) /\ Len(Render(h[m + 1])) <= Len(h[m + 1].content) + 1
    BY <2>3, RenderType, RenderLength
  <2>5. Rendered(h, start, m) \in Seq(Items)
    BY <2>1, RenderedType
  <2>. DEFINE x == Rendered(h, start, m)
              y == Render(h[m + 1])
  <2>6. Len(x) <= (m - start) * (MaxPieces + 1)
    BY <2>1
  <2>7. x \in Seq(Items) /\ y \in Seq(Items)
    BY <2>4, <2>5
  <2>8. Len(y) <= MaxPieces + 1 /\ Len(y) \in Nat
    <3>1. h[m + 1].content \in Seq(Piece)
      BY <2>3 DEF Message
    <3>2. Len(h[m + 1].content) \in Nat
      BY <3>1
    <3>. QED BY <2>3, <2>4, <3>2, MessagesAssumption
  <2>. HIDE DEF x, y
  <2>9. Len(x \o y) = Len(x) + Len(y) /\ Len(x) \in Nat
    BY ONLY <2>7
  <2>10. ((m + 1) - start) * (MaxPieces + 1) = (m - start) * (MaxPieces + 1) + (MaxPieces + 1)
    <3>1. m - start \in Nat /\ (m + 1) - start = (m - start) + 1
      BY <2>1
    <3>. DEFINE d == m - start
                p == MaxPieces + 1
    <3>2. d \in Nat /\ p \in Nat
      BY <1>3, <3>1
    <3>. HIDE DEF d, p
    <3>3. (d + 1) * p = d * p + p
      BY ONLY <3>2
    <3>. QED BY <3>1, <3>3 DEF d, p
  <2>11. (m - start) * (MaxPieces + 1) \in Int
    BY <1>3, <2>1
  <2>12. Len(x \o y) <= ((m + 1) - start) * (MaxPieces + 1)
    <3>. DEFINE d == (m - start) * (MaxPieces + 1)
                e == ((m + 1) - start) * (MaxPieces + 1)
                p == MaxPieces + 1
    <3>1. e = d + p /\ d \in Int /\ p \in Int /\ Len(x) <= d /\ Len(y) <= p
      BY <1>3, <2>6, <2>8, <2>10, <2>11
    <3>. HIDE DEF d, e, p
    <3>2. Len(x \o y) <= e
      BY ONLY <2>8, <2>9, <3>1
    <3>. QED BY <3>2 DEF e
  <2>13. Rendered(h, start, m + 1) = x \o y
    BY <2>2 DEF x, y
  <2>14. Holds(m + 1)
    <3>1. Bound(m + 1) = ((m + 1) - start) * (MaxPieces + 1)
      OBVIOUS
    <3>. HIDE DEF Bound
    <3>2. Len(Rendered(h, start, m + 1)) <= Bound(m + 1)
      BY ONLY <2>12, <2>13, <3>1
    <3>. QED BY <3>2
  <2>. HIDE DEF Holds
  <2>. QED BY <1>2, <2>1, <2>14
<1>. QED BY <1>4, <1>5

\* A window that is wider than a history leaves nothing of it out.
LEMMA WideStart ==
    ASSUME NEW h \in Seq(Message), Short(h), Len(h) <= MaxMessages + 1,
           NEW length \in Nat, length > (MaxMessages + 1) * MaxPieces
    PROVE  HistoryStart(h, length) = 0
<1>. DEFINE Tried == {s \in 1 .. Len(h) - 2 : (Len(h) - s) % 2 = 0}
            Full == {s \in Tried : Cardinality(PiecesFrom(h, s)) >= length}
            All == (1 .. Len(h)) \X (1 .. MaxPieces)
<1>1. HistoryStart(h, length) =
        IF Full = {} THEN 0 ELSE CHOOSE s \in Full : \A r \in Full : r <= s
  BY DEF HistoryStart
<1>2. MaxPieces \in Nat /\ MaxMessages \in Nat /\ Len(h) \in Nat
  BY MessagesAssumption
<1>3. IsFiniteSet(All) /\ Cardinality(All) = Len(h) * MaxPieces
  <2>0. ASSUME NEW n \in Nat
        PROVE  IsFiniteSet(1 .. n) /\ Cardinality(1 .. n) = n
    <3>1. 1 \in Int /\ n \in Int
      OBVIOUS
    <3>2. IsFiniteSet(1 .. n) /\ Cardinality(1 .. n) = IF 1 > n THEN 0 ELSE n - 1 + 1
      BY ONLY <3>1, FS_Interval
    <3>. QED BY <3>2
  <2>1. IsFiniteSet(1 .. Len(h)) /\ Cardinality(1 .. Len(h)) = Len(h)
    BY <1>2, <2>0
  <2>2. IsFiniteSet(1 .. MaxPieces) /\ Cardinality(1 .. MaxPieces) = MaxPieces
    BY <1>2, <2>0
  <2>. QED BY <2>1, <2>2, FS_Product
<1>4. Len(h) * MaxPieces < length
  <2>. DEFINE a == Len(h)
              b == MaxMessages + 1
              p == MaxPieces
  <2>1. a \in Nat /\ b \in Nat /\ p \in Nat /\ a <= b /\ length > b * p
    BY <1>2
  <2>. HIDE DEF a, b, p
  <2>2. a * p <= b * p /\ a * p \in Nat /\ b * p \in Nat
    BY ONLY <2>1
  <2>3. a * p < length
    BY ONLY <2>1, <2>2, length \in Nat
  <2>. QED BY <2>3 DEF a, p
<1>5. ASSUME NEW s \in Tried
      PROVE  Cardinality(PiecesFrom(h, s)) \in Nat /\ Cardinality(PiecesFrom(h, s)) < length
  <2>1. PiecesFrom(h, s) \subseteq All
    <3>. SUFFICES ASSUME NEW i \in s .. Len(h) PROVE {i} \X DOMAIN h[i].content \subseteq All
      BY DEF PiecesFrom
    <3>1. i \in 1 .. Len(h)
      OBVIOUS
    <3>2. h[i] \in Message /\ Len(h[i].content) <= MaxPieces
      BY <3>1 DEF Short
    <3>3. h[i].content \in Seq(Piece)
      BY <3>2 DEF Message
    <3>4. DOMAIN h[i].content \subseteq 1 .. MaxPieces
      BY <1>2, <3>2, <3>3
    <3>. QED BY <3>1, <3>4
  <2>. HIDE DEF All
  <2>2. /\ IsFiniteSet(PiecesFrom(h, s))
        /\ Cardinality(PiecesFrom(h, s)) <= Cardinality(All)
    BY <1>3, <2>1, FS_Subset
  <2>3. Cardinality(PiecesFrom(h, s)) \in Nat
    BY <2>2, FS_CardinalityType
  <2>4. Cardinality(All) < length /\ Cardinality(All) \in Int
    <3>1. Len(h) * MaxPieces \in Int
      BY <1>2
    <3>. QED BY <1>3, <1>4, <3>1
  <2>. QED BY ONLY <2>2, <2>3, <2>4, length \in Nat
<1>6. Full = {}
  <2>. SUFFICES ASSUME NEW s \in Full PROVE FALSE
    OBVIOUS
  <2>1. s \in Tried /\ Cardinality(PiecesFrom(h, s)) >= length
    OBVIOUS
  <2>2. Cardinality(PiecesFrom(h, s)) \in Nat /\ Cardinality(PiecesFrom(h, s)) < length
    BY <1>5, <2>1
  <2>. QED BY ONLY <2>1, <2>2, length \in Nat
<1>. HIDE DEF Full
<1>. QED BY <1>1, <1>6

LEMMA StartsBefore ==
    ASSUME NEW h \in Seq(Message), h # <<>>, NEW length, cursor \in Nat
    PROVE  HistoryStart(h, length) \in 0 .. Len(h) - 1
<1>. DEFINE Tried == {s \in 1 .. Len(h) - 2 : (Len(h) - s) % 2 = 0}
            Full == {s \in Tried : Cardinality(PiecesFrom(h, s)) >= length}
<1>1. HistoryStart(h, length) =
        IF Full = {} THEN 0 ELSE CHOOSE s \in Full : \A r \in Full : r <= s
  BY DEF HistoryStart
<1>2. Full \in SUBSET (0 .. Len(h)) /\ Len(h) \in Nat /\ Len(h) > 0
  OBVIOUS
<1>3. Full \subseteq 0 .. Len(h) - 1
  OBVIOUS
<1>. HIDE DEF Full
<1>4. CASE Full = {}
  BY <1>1, <1>2, <1>4
<1>5. CASE Full # {}
  <2>1. \E s \in Full : \A r \in Full : r <= s
    BY <1>2, <1>5, NatMax
  <2>. QED BY ONLY <1>1, <1>3, <1>5, <2>1
<1>. QED BY <1>4, <1>5

\* An encoding of a whole window tells the model what the history says.
LEMMA EncodedWhole ==
    ASSUME NEW h \in Seq(Message), h # <<>>, NEW length, NEW opening \in BOOLEAN,
           ~skip_sys_prompt, cursor \in Nat
    PROVE  EncodeHistory(h, length, FALSE, opening) =
              Told(h, sys_prompt, HistoryStart(h, length \div 2), Len(h))
                  \o (IF opening THEN <<Open>> ELSE <<>>)
<1>. DEFINE start == HistoryStart(h, length \div 2)
<1>1. start \in 0 .. Len(h) - 1
  BY StartsBefore
<1>2. EncodeHistory(h, length, FALSE, opening) =
        SysPromptBefore(h, start) \o RenderFrom(h, start)
            \o (IF opening THEN <<Open>> ELSE <<>>)
  BY DEF EncodeHistory
<1>. HIDE DEF start
<1>3. SysPromptBefore(h, start) = PromptBefore(h, sys_prompt, start, Len(h))
  BY <1>1 DEF SysPromptBefore, PromptBefore, Sys
<1>4. RenderFrom(h, start) = Rendered(h, start, Len(h))
  BY DEF RenderFrom, Rendered, Parts
<1>. QED BY <1>2, <1>3, <1>4 DEF Told, start

\* An encoding of the rest is the messages behind those that have been given.
LEMMA GivenIsStart ==
    ASSUME history \in Seq(Message), cursor \in 0 .. Len(history) - 1,
           history[Len(history)].role # "Assistant",
           \A i \in 2 .. Len(history) : history[i].role # history[i - 1].role
    PROVE  /\ Given \in 0 .. Len(history) - 1
           /\ CursorStart(history) = Given
<1>. DEFINE Others == {s \in cursor .. Len(history) - 1 : history[s + 1].role # "Assistant"}
<1>1. CursorStart(history) = IF Others = {} THEN Len(history)
          ELSE CHOOSE s \in Others : \A r \in Others : s <= r
  BY DEF CursorStart
<1>2. Len(history) \in Nat /\ cursor \in Nat
  OBVIOUS
<1>3. Given \in Others /\ \A r \in Others : Given <= r
  <2>1. CASE history[cursor + 1].role = "Assistant"
    <3>1. Given = cursor + 1
      BY <2>1 DEF Given
    <3>2. cursor + 1 # Len(history)
      BY <2>1
    <3>3. cursor + 2 \in 2 .. Len(history)
      BY <1>2, <3>2
    <3>4. history[cursor + 2].role # history[(cursor + 2) - 1].role
      BY <3>3
    <3>5. (cursor + 2) - 1 = cursor + 1
      BY <1>2
    <3>6. history[(cursor + 1) + 1].role # "Assistant"
      BY <1>2, <2>1, <3>4, <3>5
    <3>7. \A r \in Others : r # cursor
      BY <2>1
    <3>. QED BY <1>2, <3>1, <3>3, <3>6, <3>7
  <2>2. CASE history[cursor + 1].role # "Assistant"
    BY <1>2, <2>2 DEF Given
  <2>. QED BY <2>1, <2>2
<1>4. Others \subseteq 0 .. Len(history) - 1
  OBVIOUS
<1>. HIDE DEF Others
<1>5. \A s, t \in Others : (\A r \in Others : s <= r) /\ (\A r \in Others : t <= r) => s = t
  BY <1>2, <1>4
<1>. QED BY ONLY <1>1, <1>3, <1>4, <1>5

LEMMA EncodedRest ==
    ASSUME NEW h \in Seq(Message), NEW length, CursorStart(h) \in 0 .. Len(h) - 1,
           skip_sys_prompt \/ h[CursorStart(h) + 1].round # 0
    PROVE  EncodeHistory(h, length, TRUE, TRUE) =
              Rendered(h, CursorStart(h), Len(h)) \o <<Open>>
<1>. DEFINE start == CursorStart(h)
            x == Rendered(h, start, Len(h))
<1>1. EncodeHistory(h, length, TRUE, TRUE) =
        SysPromptBefore(h, start) \o RenderFrom(h, start) \o <<Open>>
  BY DEF EncodeHistory
<1>2. SysPromptBefore(h, start) = <<>>
  BY DEF SysPromptBefore
<1>3. RenderFrom(h, start) = x
  BY DEF RenderFrom, Rendered, Parts
<1>4. x \in Seq(Items)
  <2>1. start \in 0 .. Len(h) /\ Len(h) \in 0 .. Len(h)
    OBVIOUS
  <2>. HIDE DEF start
  <2>. QED BY <2>1, RenderedType
<1>. HIDE DEF x
<1>5. <<>> \o x = x
  BY ONLY <1>4
<1>. QED BY <1>1, <1>2, <1>3, <1>5 DEF x

-----------------------------------------------------------------------------
(* The conversation in the context: what its steps must know.                *)

\* Programs that ConversationNewPrompt.cfg is not about: nothing is encoded from
\* its beginning once the encoders have been told to leave the system prompt out,
\* which nobody takes back.
KeepsSkipping ==
    "save" \in program.calls =>
        program.calls \cap {"restart", "continue"} = {} /\ program.extending = "none"

Kept == LeavesHistory /\ KeepsSkipping

\* Of a history: who speaks is not who spoke before, a user or a tool begins, in
\* round 0; positions are those of answers; who speaks behind one is in a later
\* round.
Shape(h, rnd) ==
    /\ h = <<>> => rnd = -1
    /\ h # <<>> => rnd >= 0 /\ h[1].round = 0 /\ h[1].role # "Assistant"
    /\ \A i \in 1 .. Len(h) : h[i].tok_pos >= 0 => h[i].role = "Assistant"
    /\ \A i \in 2 .. Len(h) : /\ h[i].role # h[i - 1].role
                              /\ h[i - 1].role = "Assistant" => h[i].round > 0

AtRest   == pc \in {"idle", "chat"}
Speaking == pc \in {"generate", "retry", "done"}

\* Somebody waits for an answer; an answer is the last message.
Asked    == history # <<>> /\ history[Len(history)].role # "Assistant"
Replied == history # <<>> /\ history[Len(history)].role = "Assistant"

\* What has been given to the model ends in an answer, or is the system prompt.
Turns ==
    /\ pc \notin {"shift", "undefined"}
    /\ AtRest => Given = 0 \/ history[Given].role = "Assistant"
    /\ AtRest /\ Given = 0 => initializing \/ skip_sys_prompt
    /\ pc = "chat" => Asked
    /\ Speaking => cursor = Len(history) /\ ~initializing
    /\ Speaking /\ call = "chat" => Asked
    /\ Speaking /\ call = "continue" =>
         /\ Replied /\ "continue" \in program.calls
         /\ Len(history[Len(history)].content) + program.answers <= MaxPieces
    /\ pc = "retry" => call = "chat" /\ program.extending = "restart"
    /\ pc \in {"prompt", "save"} => history = <<>> /\ "save" \in program.calls
    /\ pc = "save" => context = <<Sys>> /\ skip_sys_prompt /\ ~initializing

\* A history that has not been encoded yet, and one that grows by turns alone.
Small ==
    /\ initializing => cursor = 0 /\ \A i \in 1 .. Len(history) : history[i].tok_pos < 0
    /\ initializing \/ "continue" \in program.calls =>
         Short(history) /\ Len(history) <= MaxMessages + 1
    /\ "continue" \in program.calls =>
         /\ pc = "chat" \/ (Speaking /\ call = "chat") => Len(history) <= MaxMessages
         /\ pc = "idle" => Given = Len(history) /\ (initializing => history = <<>>)
         /\ tool_input = <<>> /\ ~parted

\* The encoders leave the system prompt out when a session holds it, and begin
\* answers as they are told.
Skips ==
    /\ skip_sys_prompt => "save" \in program.calls /\ ~initializing
    /\ file # NoFile /\ file.history_len = 0 =>
         file.context = <<Sys>> /\ "save" \in program.calls
    /\ ai_prefix # <<>> => "prefix" \in program.calls

Orderly == Shape(history, round) /\ Turns /\ Small /\ Skips

\* A telling k of a history h: what the model may know of it when it has been given
\* the first messages of it.
Tells(k, h, given) ==
    /\ k \in Seq(Message) /\ Len(k) = Len(h)
    /\ \A i \in 1 .. Len(h) :
         \/ k[i] = h[i]
         \/ /\ h[i].tok_pos >= 0 /\ i <= given
            /\ \E p \in Spellings, c \in Cuts : k[i] = KnownAs(h[i], p, c)

\* The positions kept with the first n messages are where these end in the context.
Marks(h, sys, start, given, n) ==
    \A i \in 1 .. n : h[i].tok_pos >= 0 =>
        start < i /\ i <= given /\ h[i].tok_pos = Len(Told(h, sys, start, i))

Marked(start, k, n) == program.extending = "none" =>
    Marks(k, sys_prompt, start, Given, n)

\* Nothing is left out where that is not needed.
Whole(start) == program.extending = "none" /\ IsWide(program.max_context) => start = 0

\* The context is what is known of the history from start on: between turns,
Rests(start, k) ==
    /\ start \in Nat /\ Whole(start) /\ Marked(start, k, Len(history))
    /\ Tells(k, history, Given)
    /\ start < Given \/ (start = 0 /\ Given = 0)
    /\ context = Told(k, sys_prompt, start, Given)

Opening(prefix) == IF call = "chat" THEN <<Open>> \o Spoken(prefix) ELSE <<>>

Speaks(start, k) ==
    /\ start \in Nat /\ Whole(start) /\ start < Len(history)
    /\ Tells(k, history, Given)
    /\ Marked(start, k, IF call = "chat" THEN Len(history) ELSE Len(history) - 1)

\* when the model is asked,
Asks(start, k) ==
    /\ Speaks(start, k)
    /\ context \o input_ids = Told(k, sys_prompt, start, Len(history)) \o Opening(ai_prefix)

\* and when it has answered.
Heard(c) == IF c THEN Run(output) ELSE output

Spoke(start, k) ==
    /\ Speaks(start, k)
    /\ \E p \in Spellings, c \in Cuts :
         context = (Told(k, sys_prompt, start, Len(history)) \o Opening(p)) \o Spoken(Heard(c))

Followed ==
    ~initializing /\ ~parted =>
        /\ AtRest => \E start \in Nat, k \in Seq(Message) : Rests(start, k)
        /\ pc = "generate" => \E start \in Nat, k \in Seq(Message) : Asks(start, k)
        /\ pc = "done" => \E start \in Nat, k \in Seq(Message) : Spoke(start, k)

HistoryInv == Kept /\ pc # "undefined" => Orderly /\ Followed

\* What a push makes of a history.
LEMMA PushedIs ==
    ASSUME NEW h \in Seq(Message), NEW role \in Role, NEW content \in Seq(Piece),
           NEW rnd \in Int
    PROVE  LET p == Pushed(h, role, content, rnd) IN
           /\ p \in Seq(Message) /\ p # <<>>
           /\ \/ /\ h # <<>> /\ h[Len(h)].role = role /\ RoundAfter(h, role, rnd) = rnd
                 /\ Len(p) = Len(h) /\ \A i \in 1 .. Len(h) - 1 : p[i] = h[i]
                 /\ p[Len(h)].role = role /\ p[Len(h)].round = h[Len(h)].round
                 /\ p[Len(h)].tok_pos = h[Len(h)].tok_pos
                 /\ p[Len(h)].content = h[Len(h)].content \o content
              \/ /\ h # <<>> => h[Len(h)].role # role
                 /\ RoundAfter(h, role, rnd) = IF role # "Assistant"
                        /\ (h = <<>> \/ h[Len(h)].role = "Assistant") THEN rnd + 1 ELSE rnd
                 /\ Len(p) = Len(h) + 1 /\ \A i \in 1 .. Len(h) : p[i] = h[i]
                 /\ p[Len(h) + 1] = [role |-> role, content |-> content,
                                     round |-> RoundAfter(h, role, rnd), tok_pos |-> -1]
<1>. DEFINE p == Pushed(h, role, content, rnd)
<1>1. p \in Seq(Message) /\ Len(h) <= Len(p)
  BY PushedType
<1>2. CASE Aggregates(h, role)
  <2>1. h # <<>> /\ h[Len(h)].role = role /\ RoundAfter(h, role, rnd) = rnd
    BY <1>2 DEF Aggregates, LastMessage, RoundAfter, OpensRound
  <2>2. Len(h) \in DOMAIN h /\ h[Len(h)] \in Message
    BY <2>1
  <2>3. p = [h EXCEPT ![Len(h)].content = h[Len(h)].content \o content]
    BY <1>2 DEF Pushed
  <2>4. /\ Len(p) = Len(h) /\ \A i \in 1 .. Len(h) - 1 : p[i] = h[i]
        /\ p[Len(h)] = [h[Len(h)] EXCEPT !.content = h[Len(h)].content \o content]
    BY <2>2, <2>3
  <2>5. /\ p[Len(h)].role = h[Len(h)].role /\ p[Len(h)].round = h[Len(h)].round
        /\ p[Len(h)].tok_pos = h[Len(h)].tok_pos
        /\ p[Len(h)].content = h[Len(h)].content \o content
    BY <2>2, <2>4 DEF Message
  <2>6. p # <<>>
    BY <1>1, <2>1, <2>4
  <2>. HIDE DEF p
  <2>. QED BY <1>1, <2>1, <2>4, <2>5, <2>6 DEF p
<1>3. CASE ~Aggregates(h, role)
  <2>. DEFINE m == [role |-> role, content |-> content,
                    round |-> RoundAfter(h, role, rnd), tok_pos |-> -1]
  <2>1. p = Append(h, m)
    BY <1>3 DEF Pushed
  <2>2. RoundAfter(h, role, rnd) \in Int
    BY DEF RoundAfter
  <2>3. m \in Message
    BY <2>2 DEF Message
  <2>. HIDE DEF m
  <2>4. Len(p) = Len(h) + 1 /\ (\A i \in 1 .. Len(h) : p[i] = h[i]) /\ p[Len(h) + 1] = m
    BY <2>1, <2>3
  <2>5. h # <<>> => h[Len(h)].role # role
    BY <1>3 DEF Aggregates, LastMessage
  <2>6. RoundAfter(h, role, rnd) =
          IF role # "Assistant" /\ (h = <<>> \/ h[Len(h)].role = "Assistant")
          THEN rnd + 1 ELSE rnd
    BY <1>3 DEF RoundAfter, OpensRound, LastMessage
  <2>7. p # <<>>
    BY <1>1, <2>4
  <2>. HIDE DEF p
  <2>. QED BY <1>1, <2>4, <2>5, <2>6, <2>7 DEF p, m
<1>. QED BY <1>2, <1>3

LEMMA ShapePushed ==
    ASSUME NEW h \in Seq(Message), NEW role \in Role, NEW content \in Seq(Piece),
           NEW rnd \in Int, Shape(h, rnd), h = <<>> => role # "Assistant"
    PROVE  Shape(Pushed(h, role, content, rnd), RoundAfter(h, role, rnd))
<1>. DEFINE p == Pushed(h, role, content, rnd)
            r == RoundAfter(h, role, rnd)
<1>0. p \in Seq(Message) /\ p # <<>>
  <2>1. p \in Seq(Message)
    BY PushedType
  <2>2. Len(h) = 0 => Len(p) = 1
    <3>. SUFFICES ASSUME Len(h) = 0 PROVE Len(p) = 1
      OBVIOUS
    <3>. DEFINE m == [role |-> role, content |-> content,
                      round |-> RoundAfter(h, role, rnd), tok_pos |-> -1]
    <3>1. h = <<>>
      OBVIOUS
    <3>2. p = Append(h, m)
      BY <3>1 DEF Pushed, Aggregates
    <3>3. m \in Message
      <4>1. RoundAfter(h, role, rnd) \in Int
        BY DEF RoundAfter
      <4>. QED BY <4>1 DEF Message
    <3>. HIDE DEF p, m
    <3>4. Len(Append(h, m)) = Len(h) + 1
      BY ONLY <3>3, h \in Seq(Message)
    <3>. QED BY ONLY <3>2, <3>4, Len(h) = 0
  <2>3. Len(h) <= Len(p)
    BY PushedType
  <2>4. Len(h) \in Nat
    OBVIOUS
  <2>5. p # <<>>
    <3>. SUFFICES ASSUME p = <<>> PROVE FALSE
      OBVIOUS
    <3>. HIDE DEF p
    <3>1. Len(p) = 0
      OBVIOUS
    <3>2. Len(h) = 0
      BY ONLY <3>1, <2>3, <2>4
    <3>. QED BY ONLY <3>1, <3>2, <2>2
  <2>. QED BY <2>1, <2>5
<1>1. p \in Seq(Message) /\ p # <<>> /\ Len(h) \in Nat
  BY <1>0
<1>2. CASE /\ h # <<>> /\ r = rnd /\ Len(p) = Len(h)
           /\ \A i \in 1 .. Len(h) - 1 : p[i] = h[i]
           /\ p[Len(h)].role = h[Len(h)].role /\ p[Len(h)].round = h[Len(h)].round
           /\ p[Len(h)].tok_pos = h[Len(h)].tok_pos
  <2>. HIDE DEF p, r
  <2>1. \A i \in 1 .. Len(h) : /\ p[i].role = h[i].role /\ p[i].round = h[i].round
                               /\ p[i].tok_pos = h[i].tok_pos
    BY <1>2
  <2>2. Shape(p, r)
    <3>1. rnd >= 0 /\ p[1].round = 0 /\ p[1].role # "Assistant"
      BY <1>1, <1>2, <2>1 DEF Shape
    <3>2. \A i \in 1 .. Len(p) : p[i].tok_pos >= 0 => p[i].role = "Assistant"
      BY <1>2, <2>1 DEF Shape
    <3>3. ASSUME NEW i \in 2 .. Len(p)
          PROVE  /\ p[i].role # p[i - 1].role
                 /\ p[i - 1].role = "Assistant" => p[i].round > 0
      <4>1. i \in 1 .. Len(h) /\ i - 1 \in 1 .. Len(h) /\ i \in 2 .. Len(h)
        BY <1>1, <1>2
      <4>. QED BY <2>1, <4>1 DEF Shape
    <3>. QED BY <1>1, <1>2, <3>1, <3>2, <3>3 DEF Shape
  <2>. QED BY <2>2 DEF p, r
<1>3. CASE /\ h # <<>> => h[Len(h)].role # role
           /\ r = IF role # "Assistant" /\ (h = <<>> \/ h[Len(h)].role = "Assistant")
                  THEN rnd + 1 ELSE rnd
           /\ Len(p) = Len(h) + 1 /\ \A i \in 1 .. Len(h) : p[i] = h[i]
           /\ p[Len(h) + 1] = [role |-> role, content |-> content, round |-> r, tok_pos |-> -1]
  <2>. HIDE DEF p, r
  <2>1. /\ p[Len(h) + 1].role = role /\ p[Len(h) + 1].round = r
        /\ p[Len(h) + 1].tok_pos = -1
    BY <1>3
  <2>2. Shape(p, r)
    <3>1. r >= 0 /\ p[1].round = 0 /\ p[1].role # "Assistant"
      BY <1>3, <2>1 DEF Shape
    <3>2. \A i \in 1 .. Len(p) : p[i].tok_pos >= 0 => p[i].role = "Assistant"
      BY <1>1, <1>3, <2>1 DEF Shape
    <3>3. ASSUME NEW i \in 2 .. Len(p)
          PROVE  /\ p[i].role # p[i - 1].role
                 /\ p[i - 1].role = "Assistant" => p[i].round > 0
      <4>1. CASE i <= Len(h)
        BY <1>1, <1>3, <4>1 DEF Shape
      <4>2. CASE i = Len(h) + 1
        <5>1. h # <<>> /\ i - 1 = Len(h) /\ p[i - 1] = h[Len(h)]
          BY <1>1, <1>3, <4>2
        <5>. QED BY <1>1, <1>3, <2>1, <4>2, <5>1 DEF Shape
      <4>. QED BY <1>1, <1>3, <4>1, <4>2
    <3>. QED BY <1>1, <3>1, <3>2, <3>3 DEF Shape
  <2>. QED BY <2>2 DEF p, r
<1>. QED BY PushedIs, <1>2, <1>3

\* What has been given to the model, of a history h and its cursor.
GivenAt(h, c) == IF c < Len(h) /\ h[c + 1].role = "Assistant" THEN c + 1 ELSE c

\* Positions are kept while the messages they belong to are.
LEMMA MarksStay ==
    ASSUME NEW h \in Seq(Message), NEW k \in Seq(Message), NEW sys \in SysPrompts,
           NEW start \in Nat, NEW g \in Nat, NEW d \in Nat, NEW n \in Nat, NEW m \in Nat,
           NEW a \in Nat, Marks(h, sys, start, g, n), Alike(h, k, a),
           \A i \in 1 .. m : k[i].tok_pos >= 0 =>
               i <= n /\ i <= a /\ i <= d /\ k[i].tok_pos = h[i].tok_pos
    PROVE  Marks(k, sys, start, d, m)
<1>. SUFFICES ASSUME NEW i \in 1 .. m, k[i].tok_pos >= 0
              PROVE  start < i /\ i <= d /\ k[i].tok_pos = Len(Told(k, sys, start, i))
  BY DEF Marks
<1>1. i <= n /\ i <= a /\ i <= d /\ k[i].tok_pos = h[i].tok_pos /\ i \in Nat /\ i \in 1 .. n
  OBVIOUS
<1>2. start < i /\ h[i].tok_pos = Len(Told(h, sys, start, i))
  BY <1>1 DEF Marks
<1>3. Alike(h, k, i) /\ start \in 0 .. i
  BY <1>1, <1>2 DEF Alike
<1>4. Told(h, sys, start, i) = Told(k, sys, start, i)
  BY <1>1, <1>3, ToldAlike
<1>. QED BY <1>1, <1>2, <1>4

\* A history keeps its shape when roles and rounds stay, and positions are put at
\* answers.
LEMMA ShapeKept ==
    ASSUME NEW h \in Seq(Message), NEW k \in Seq(Message), NEW rnd \in Int,
           Shape(h, rnd), Len(k) = Len(h),
           \A i \in 1 .. Len(h) : /\ k[i].role = h[i].role /\ k[i].round = h[i].round
                                  /\ k[i].tok_pos >= 0 => k[i].role = "Assistant"
    PROVE  Shape(k, rnd)
<1>1. k = <<>> <=> h = <<>>
  OBVIOUS
<1>2. ASSUME k # <<>>
      PROVE  rnd >= 0 /\ k[1].round = 0 /\ k[1].role # "Assistant"
  <2>1. 1 \in 1 .. Len(h) /\ h # <<>>
    BY <1>2
  <2>. QED BY <2>1 DEF Shape
<1>3. ASSUME NEW i \in 2 .. Len(k)
      PROVE  k[i].role # k[i - 1].role /\ (k[i - 1].role = "Assistant" => k[i].round > 0)
  <2>1. i \in 1 .. Len(h) /\ i - 1 \in 1 .. Len(h) /\ i \in 2 .. Len(h)
    OBVIOUS
  <2>. QED BY <2>1 DEF Shape
<1>. QED BY <1>1, <1>2, <1>3 DEF Shape

\* So does the beginning of one.
LEMMA ShapeCut ==
    ASSUME NEW h \in Seq(Message), NEW rnd \in Int, Shape(h, rnd), NEW n \in 1 .. Len(h)
    PROVE  Shape(SubSeq(h, 1, n), rnd)
<1>. DEFINE k == SubSeq(h, 1, n)
<1>1. k \in Seq(Message) /\ Len(k) = n /\ \A i \in 1 .. n : k[i] = h[i]
  OBVIOUS
<1>. HIDE DEF k
<1>2. h # <<>> /\ k # <<>> /\ 1 \in 1 .. n
  BY <1>1
<1>3. ASSUME NEW i \in 2 .. Len(k)
      PROVE  k[i].role # k[i - 1].role /\ (k[i - 1].role = "Assistant" => k[i].round > 0)
  <2>1. i \in 1 .. n /\ i - 1 \in 1 .. n /\ i \in 2 .. Len(h)
    BY <1>1
  <2>. QED BY <1>1, <2>1 DEF Shape
<1>4. Shape(k, rnd)
  BY <1>1, <1>2, <1>3, SMTT(40) DEF Shape
<1>. QED BY <1>4 DEF k

\* Prefixes are texts, and none where programs set none; answers are whole where
\* programs abort none.
LEMMA SpellingsType ==
    /\ Spellings \subseteq Seq(Piece) /\ <<>> \in Spellings /\ Cuts \subseteq BOOLEAN
    /\ FALSE \in Cuts
    /\ "prefix" \notin program.calls => Spellings = {<<>>}
    /\ "abort" \notin program.calls => Cuts = {FALSE}
    /\ "abort" \in program.calls => TRUE \in Cuts
    /\ "prefix" \in program.calls => Spellings = Texts(Completions)
<1>1. Texts(Completions) \subseteq Seq(Piece)
  BY TextsType
<1>2. <<>> \in Texts(Completions)
  BY DEF Texts
<1>3. <<>> \in Seq(Piece)
  OBVIOUS
<1>. QED BY <1>1, <1>2, <1>3 DEF Spellings, Cuts, Allowed

\* An answer that is known otherwise is the same message.
LEMMA KnownAsType ==
    ASSUME NEW m \in Message, NEW p \in Seq(Piece), NEW c \in BOOLEAN
    PROVE  /\ KnownAs(m, p, c) \in Message
           /\ KnownAs(m, p, c).role = m.role /\ KnownAs(m, p, c).round = m.round
           /\ KnownAs(m, p, c).tok_pos = m.tok_pos
           /\ KnownAs(m, p, c).content = p \o (IF c THEN Run(m.content) ELSE m.content)
           /\ KnownAs(m, <<>>, FALSE) = m
<1>1. m.content \in Seq(Piece) /\ Run(m.content) \in Seq(Piece)
  BY RunType DEF Message
<1>. DEFINE d == IF c THEN Run(m.content) ELSE m.content
            e == p \o d
<1>2. d \in Seq(Piece)
  BY <1>1
<1>. HIDE DEF d
<1>3. e \in Seq(Piece)
  BY <1>2
<1>4. KnownAs(m, p, c) = [m EXCEPT !.content = e]
  BY DEF KnownAs, d
<1>5. <<>> \o m.content = m.content
  BY <1>1
<1>6. KnownAs(m, <<>>, FALSE) = m
  BY <1>5 DEF KnownAs, Message
<1>. HIDE DEF e
<1>7. /\ KnownAs(m, p, c) \in Message
      /\ KnownAs(m, p, c).role = m.role /\ KnownAs(m, p, c).round = m.round
      /\ KnownAs(m, p, c).tok_pos = m.tok_pos /\ KnownAs(m, p, c).content = e
  BY <1>3, <1>4 DEF Message
<1>. QED BY <1>6, <1>7 DEF d, e

\* A telling has the messages of the history.
LEMMA TellsSame ==
    ASSUME NEW h \in Seq(Message), NEW k, NEW given, Tells(k, h, given)
    PROVE  /\ k \in Seq(Message) /\ Len(k) = Len(h)
           /\ \A i \in 1 .. Len(h) : /\ k[i].role = h[i].role /\ k[i].round = h[i].round
                                     /\ k[i].tok_pos = h[i].tok_pos
           /\ \A rnd \in Int : Shape(h, rnd) => Shape(k, rnd)
<1>1. k \in Seq(Message) /\ Len(k) = Len(h)
  BY DEF Tells
<1>2. ASSUME NEW i \in 1 .. Len(h)
      PROVE  k[i].role = h[i].role /\ k[i].round = h[i].round /\ k[i].tok_pos = h[i].tok_pos
  <2>1. h[i] \in Message
    OBVIOUS
  <2>2. ASSUME NEW p \in Spellings, NEW c \in Cuts, k[i] = KnownAs(h[i], p, c)
        PROVE  k[i].role = h[i].role /\ k[i].round = h[i].round /\ k[i].tok_pos = h[i].tok_pos
    <3>1. p \in Seq(Piece) /\ c \in BOOLEAN
      BY SpellingsType
    <3>2. /\ KnownAs(h[i], p, c).role = h[i].role /\ KnownAs(h[i], p, c).round = h[i].round
          /\ KnownAs(h[i], p, c).tok_pos = h[i].tok_pos
      BY <2>1, <3>1, KnownAsType, Zenon
    <3>. HIDE DEF KnownAs
    <3>. QED BY <2>2, <3>2
  <2>. QED BY <2>2 DEF Tells
<1>3. ASSUME NEW rnd \in Int, Shape(h, rnd) PROVE Shape(k, rnd)
  <2>1. \A i \in 1 .. Len(h) : k[i].tok_pos >= 0 => k[i].role = "Assistant"
    BY <1>2, <1>3 DEF Shape
  <2>. QED BY <1>1, <1>2, <1>3, <2>1, ShapeKept
<1>. QED BY <1>1, <1>2, <1>3

\* A history tells nothing but itself where programs neither begin answers nor cut
\* them short.
LEMMA TellsPlainly ==
    ASSUME NEW h \in Seq(Message), NEW k, NEW given, Tells(k, h, given),
           program.calls \cap {"abort", "prefix"} = {}
    PROVE  k = h
<1>1. Spellings = {<<>>} /\ Cuts = {FALSE}
  BY SpellingsType
<1>2. k \in Seq(Message) /\ Len(k) = Len(h)
  BY DEF Tells
<1>3. ASSUME NEW i \in 1 .. Len(h) PROVE k[i] = h[i]
  <2>1. h[i] \in Message
    OBVIOUS
  <2>2. KnownAs(h[i], <<>>, FALSE) = h[i]
    <3>1. <<>> \in Seq(Piece) /\ FALSE \in BOOLEAN
      OBVIOUS
    <3>. QED BY <2>1, <3>1, KnownAsType
  <2>. QED BY <1>1, <2>2 DEF Tells
<1>. QED BY <1>2, <1>3, SeqEqual

\* A telling of a history is one of another that begins alike: behind the
\* beginning, what is known of it is all of it.
Retells(q, k, j, n) ==
    /\ Alike(k, q, n)
    /\ \A i \in 1 .. n : q[i] = k[i]
    /\ \A i \in 1 .. Len(j) : i > n => q[i] = j[i]

LEMMA TellsOther ==
    ASSUME NEW h \in Seq(Message), NEW k, NEW given, Tells(k, h, given),
           NEW j \in Seq(Message), NEW n \in Nat, n <= Len(h), n <= Len(j), NEW later,
           \A i \in 1 .. n : j[i] = h[i], \A i \in 1 .. n : i <= given => i <= later
    PROVE  \E q \in Seq(Message) : Tells(q, j, later) /\ Retells(q, k, j, n)
<1>1. k \in Seq(Message) /\ Len(k) = Len(h) /\ Len(j) \in Nat
  BY DEF Tells
<1>. DEFINE q == [i \in 1 .. Len(j) |-> IF i <= n THEN k[i] ELSE j[i]]
<1>2. \A i \in 1 .. Len(j) : q[i] \in Message
  <2>. SUFFICES ASSUME NEW i \in 1 .. Len(j) PROVE q[i] \in Message
    OBVIOUS
  <2>1. j[i] \in Message /\ (i <= n => i \in 1 .. Len(k))
    BY <1>1
  <2>2. i <= n => k[i] \in Message
    BY <1>1, <2>1
  <2>. QED BY <2>1, <2>2
<1>3. q \in Seq(Message) /\ Len(q) = Len(j)
  BY <1>1, <1>2
<1>4. /\ \A i \in 1 .. n : q[i] = k[i]
      /\ \A i \in 1 .. Len(j) : i > n => q[i] = j[i]
  BY <1>1
<1>. HIDE DEF q
<1>5. Tells(q, j, later)
  <2>. SUFFICES ASSUME NEW i \in 1 .. Len(j)
                PROVE  \/ q[i] = j[i]
                       \/ /\ j[i].tok_pos >= 0 /\ i <= later
                          /\ \E p \in Spellings, c \in Cuts : q[i] = KnownAs(j[i], p, c)
    BY <1>3 DEF Tells
  <2>1. CASE i > n
    BY <1>4, <2>1
  <2>2. CASE i <= n
    <3>1. i \in 1 .. n /\ i \in 1 .. Len(h)
      BY <1>1, <2>2
    <3>2. q[i] = k[i] /\ j[i] = h[i]
      BY <1>4, <3>1
    <3>. QED BY <3>1, <3>2 DEF Tells
  <2>. QED BY <1>1, <2>1, <2>2
<1>6. Alike(k, q, n)
  BY <1>1, <1>3, <1>4 DEF Alike
<1>7. Retells(q, k, j, n)
  BY <1>4, <1>6 DEF Retells
<1>. QED BY <1>3, <1>5, <1>7

\* A push behind what has been given leaves it as it is.
LEMMA PushGives ==
    ASSUME NEW h \in Seq(Message), NEW role \in Role, NEW content \in Seq(Piece),
           NEW rnd \in Int, NEW c \in 0 .. Len(h), NEW g, g = GivenAt(h, c),
           g = 0 \/ h[g].role = "Assistant",
           role = "Assistant" => h # <<>> /\ h[Len(h)].role # "Assistant",
           NEW p, p = Pushed(h, role, content, rnd)
    PROVE  /\ GivenAt(p, c) = g /\ g \in 0 .. Len(h) /\ Alike(h, p, g)
           /\ \A i \in 1 .. g : p[i] = h[i]
           /\ p # <<>> /\ p[Len(p)].role = role /\ Len(p) \in {Len(h), Len(h) + 1}
           /\ \A i \in 1 .. Len(p) : p[i].tok_pos >= 0 =>
                i \in 1 .. Len(h) /\ p[i].tok_pos = h[i].tok_pos
<1>1. p \in Seq(Message) /\ Len(h) <= Len(p)
  BY PushedType
<1>2. g \in 0 .. Len(h)
  BY DEF GivenAt
<1>3. CASE /\ h # <<>> /\ h[Len(h)].role = role
           /\ Len(p) = Len(h) /\ \A i \in 1 .. Len(h) - 1 : p[i] = h[i]
           /\ p[Len(h)].role = role /\ p[Len(h)].round = h[Len(h)].round
           /\ p[Len(h)].tok_pos = h[Len(h)].tok_pos
  <2>1. role # "Assistant" /\ Len(h) \in 1 .. Len(h)
    BY <1>3
  <2>2. g < Len(h)
    BY <1>2, <1>3, <2>1
  <2>3. \A i \in 1 .. Len(h) : p[i].role = h[i].role /\ p[i].tok_pos = h[i].tok_pos
    BY <1>3
  <2>4. GivenAt(p, c) = g
    BY <1>3, <2>3 DEF GivenAt
  <2>5. Alike(h, p, g)
    BY <1>2, <1>3, <2>2 DEF Alike
  <2>6. p # <<>>
    BY <1>1, <1>3, <2>1
  <2>7. \A i \in 1 .. g : p[i] = h[i]
    BY <1>2, <1>3, <2>2
  <2>. QED BY <1>2, <1>3, <2>3, <2>4, <2>5, <2>6, <2>7
<1>4. CASE /\ Len(p) = Len(h) + 1 /\ \A i \in 1 .. Len(h) : p[i] = h[i]
           /\ p[Len(h) + 1].role = role /\ p[Len(h) + 1].tok_pos = -1
  <2>1. GivenAt(p, c) = g
    <3>1. CASE c < Len(h)
      BY <1>4, <3>1 DEF GivenAt
    <3>2. CASE c = Len(h) /\ role # "Assistant"
      BY <1>4, <3>2 DEF GivenAt
    <3>3. CASE c = Len(h) /\ role = "Assistant"
      <4>1. g = Len(h)
        BY <3>3 DEF GivenAt
      <4>2. Len(h) # 0
        BY <3>3
      <4>. QED BY <3>3, <4>1, <4>2
    <3>. QED BY <3>1, <3>2, <3>3
  <2>2. Alike(h, p, g)
    BY <1>2, <1>4 DEF Alike
  <2>3. p # <<>>
    BY <1>1, <1>4
  <2>4. \A i \in 1 .. Len(p) : p[i].tok_pos >= 0 =>
                i \in 1 .. Len(h) /\ p[i].tok_pos = h[i].tok_pos
    BY <1>4
  <2>5. \A i \in 1 .. g : p[i] = h[i]
    BY <1>2, <1>4
  <2>. QED BY <1>2, <1>4, <2>1, <2>2, <2>3, <2>4, <2>5
<1>5. \/ /\ h # <<>> /\ h[Len(h)].role = role
         /\ Len(p) = Len(h) /\ \A i \in 1 .. Len(h) - 1 : p[i] = h[i]
         /\ p[Len(h)].role = role /\ p[Len(h)].round = h[Len(h)].round
         /\ p[Len(h)].tok_pos = h[Len(h)].tok_pos
      \/ /\ Len(p) = Len(h) + 1 /\ \A i \in 1 .. Len(h) : p[i] = h[i]
         /\ p[Len(h) + 1].role = role /\ p[Len(h) + 1].tok_pos = -1
  <2>. DEFINE m == [role |-> role, content |-> content,
                    round |-> RoundAfter(h, role, rnd), tok_pos |-> -1]
  <2>1. m.role = role /\ m.tok_pos = -1
    OBVIOUS
  <2>. HIDE DEF m
  <2>2. \/ /\ h # <<>> /\ h[Len(h)].role = role
           /\ Len(p) = Len(h) /\ \A i \in 1 .. Len(h) - 1 : p[i] = h[i]
           /\ p[Len(h)].role = role /\ p[Len(h)].round = h[Len(h)].round
           /\ p[Len(h)].tok_pos = h[Len(h)].tok_pos
        \/ /\ Len(p) = Len(h) + 1 /\ \A i \in 1 .. Len(h) : p[i] = h[i]
           /\ p[Len(h) + 1] = m
    BY PushedIs DEF m
  <2>. QED BY <2>1, <2>2
<1>. QED BY <1>3, <1>4, <1>5

\* Contents stay within their bound.
LEMMA PushedShort ==
    ASSUME NEW h \in Seq(Message), NEW role \in Role, NEW content \in Seq(Piece),
           NEW rnd \in Int, Short(h), Len(content) <= 1,
           Aggregates(h, role) => Len(LastMessage(h).content) < MaxPieces
    PROVE  Short(Pushed(h, role, content, rnd))
<1>. DEFINE p == Pushed(h, role, content, rnd)
            m == [role |-> role, content |-> content,
                  round |-> RoundAfter(h, role, rnd), tok_pos |-> -1]
<1>1. MaxPieces \in Nat /\ MaxPieces >= 1 /\ m.content = content
  BY MessagesAssumption
<1>. HIDE DEF p, m
<1>2. \/ /\ h # <<>> /\ h[Len(h)].role = role
         /\ Len(p) = Len(h) /\ \A i \in 1 .. Len(h) - 1 : p[i] = h[i]
         /\ p[Len(h)].content = h[Len(h)].content \o content
      \/ /\ Len(p) = Len(h) + 1 /\ \A i \in 1 .. Len(h) : p[i] = h[i]
         /\ p[Len(h) + 1] = m
  BY PushedIs DEF p, m
<1>3. CASE /\ h # <<>> /\ h[Len(h)].role = role
           /\ Len(p) = Len(h) /\ \A i \in 1 .. Len(h) - 1 : p[i] = h[i]
           /\ p[Len(h)].content = h[Len(h)].content \o content
  <2>1. Len(h[Len(h)].content) < MaxPieces /\ Len(h) \in DOMAIN h
    BY <1>3 DEF Aggregates, LastMessage
  <2>2. h[Len(h)].content \in Seq(Piece)
    <3>1. h[Len(h)] \in Message
      BY <2>1
    <3>. QED BY <3>1 DEF Message
  <2>3. Len(p[Len(h)].content) <= MaxPieces
    BY <1>1, <1>3, <2>1, <2>2
  <2>. QED BY <1>3, <2>3, SMTT(40) DEF Short, p
<1>4. CASE /\ Len(p) = Len(h) + 1 /\ \A i \in 1 .. Len(h) : p[i] = h[i]
           /\ p[Len(h) + 1] = m
  BY <1>1, <1>4 DEF Short, p
<1>. QED BY <1>2, <1>3, <1>4

LEMMA CursorSays ==
    ASSUME ConversationInv, pc # "undefined"
    PROVE  /\ cursor \in 0 .. Len(history) /\ Given \in 0 .. Len(history)
           /\ Given = GivenAt(history, cursor)
           /\ Given \in {cursor, cursor + 1}
<1>1. history \in Seq(Message) /\ cursor \in 0 .. Len(history)
  BY InvSays DEF ConversationInv, CursorThere, CursorInRange
<1>. QED BY <1>1 DEF Given, GivenAt

\* chatllm_user_input and chatllm_history_append: nothing is given to the model.
LEMMA PushFollowed ==
    ASSUME ConversationInv, Kept, Orderly, Followed, pc = "idle",
           NEW role \in Role, NEW t \in Piece, PushBack(role, <<t>>),
           role = "Assistant" => Asked,
           pc' \in {"idle", "chat"}, pc' = "chat" => role = "User",
           "continue" \in program.calls => pc' = "chat",
           UNCHANGED <<program, context, initializing, promptVars, tool_input,
                       sessionVars, callVars>>
    PROVE  Orderly' /\ Followed'
<1>. USE DEF promptVars, sessionVars, callVars
<1>. DEFINE c == <<t>>
<1>1. c \in Seq(Piece) /\ Len(c) = 1
  OBVIOUS
<1>. HIDE DEF c
<1>2. /\ history' = Pushed(history, role, c, round) /\ round' = RoundAfter(history, role, round)
      /\ cursor' = cursor /\ Len(history) < MaxMessages
      /\ Aggregates(history, role) => Len(LastMessage(history).content) < MaxPieces
  <2>1. RoleOf(history, role) = role
    BY DEF RoleOf, Role
  <2>. QED BY <2>1 DEF PushBack, c
<1>3. history \in Seq(Message) /\ round \in Int /\ sys_prompt \in SysPrompts
  BY InvSays
<1>4. history' \in Seq(Message) /\ Len(history) <= Len(history')
  BY <1>1, <1>2, <1>3, PushedType
<1>5. /\ cursor \in 0 .. Len(history) /\ Given \in 0 .. Len(history)
      /\ Given = GivenAt(history, cursor)
  BY CursorSays
<1>6. Given = 0 \/ history[Given].role = "Assistant"
  BY DEF Orderly, Turns, AtRest
<1>7. /\ GivenAt(history', cursor) = Given /\ Alike(history, history', Given)
      /\ \A i \in 1 .. Given : history'[i] = history[i]
      /\ history' # <<>> /\ history'[Len(history')].role = role
      /\ Len(history') \in {Len(history), Len(history) + 1}
      /\ \A i \in 1 .. Len(history') : history'[i].tok_pos >= 0 =>
           i \in 1 .. Len(history) /\ history'[i].tok_pos = history[i].tok_pos
  <2>. DEFINE g == Given
              p == Pushed(history, role, c, round)
  <2>1. /\ g = GivenAt(history, cursor) /\ (g = 0 \/ history[g].role = "Assistant")
        /\ role = "Assistant" => history # <<>> /\ history[Len(history)].role # "Assistant"
    BY <1>5, <1>6 DEF Asked
  <2>. HIDE DEF g
  <2>2. /\ GivenAt(p, cursor) = g /\ g \in 0 .. Len(history) /\ Alike(history, p, g)
        /\ \A i \in 1 .. g : p[i] = history[i]
        /\ p # <<>> /\ p[Len(p)].role = role /\ Len(p) \in {Len(history), Len(history) + 1}
        /\ \A i \in 1 .. Len(p) : p[i].tok_pos >= 0 =>
             i \in 1 .. Len(history) /\ p[i].tok_pos = history[i].tok_pos
    BY ONLY <1>1, <1>3, <1>5, <2>1, role \in Role, PushGives
  <2>. QED BY <1>2, <2>2 DEF g
<1>8. Given' = Given
  BY <1>2, <1>7 DEF Given, GivenAt
<1>9. Shape(history', round')
  <2>1. history = <<>> => role # "Assistant"
    BY DEF Asked
  <2>. QED BY <1>1, <1>2, <1>3, <2>1, ShapePushed DEF Orderly
<1>10. Turns'
  <2>1. Given' = 0 \/ history'[Given'].role = "Assistant"
    BY <1>5, <1>6, <1>7, <1>8 DEF Alike
  <2>2. Given' = 0 => initializing' \/ skip_sys_prompt'
    BY <1>8 DEF Orderly, Turns, AtRest
  <2>3. pc' = "chat" => Asked'
    BY <1>7 DEF Asked
  <2>. QED BY <2>1, <2>2, <2>3 DEF Turns, AtRest, Speaking
<1>11. Small'
  <2>1. Short(history) => Short(history')
    <3>1. Len(c) <= 1
      BY <1>1
    <3>2. Short(history) => Short(Pushed(history, role, c, round))
      BY <1>1, <1>2, <1>3, <3>1, PushedShort
    <3>. QED BY <1>2, <3>2
  <2>2. Len(history') <= MaxMessages
    BY <1>2, <1>3, <1>7, MessagesAssumption
  <2>3. ASSUME initializing'
        PROVE  cursor' = 0 /\ \A i \in 1 .. Len(history') : history'[i].tok_pos < 0
    <3>1. cursor = 0 /\ \A i \in 1 .. Len(history) : history[i].tok_pos < 0
      BY <2>3 DEF Orderly, Small
    <3>2. ASSUME NEW i \in 1 .. Len(history') PROVE history'[i].tok_pos < 0
      <4>1. history'[i] \in Message
        BY <1>4
      <4>2. history'[i].tok_pos \in Int
        BY <4>1 DEF Message
      <4>. QED BY <1>7, <3>1, <4>2
    <3>. QED BY <1>2, <3>1, <3>2
  <2>4. initializing' \/ "continue" \in program'.calls =>
          Short(history') /\ Len(history') <= MaxMessages + 1
    <3>1. Len(history') <= MaxMessages + 1
      BY <1>4, <2>2, MessagesAssumption
    <3>. QED BY <2>1, <3>1 DEF Orderly, Small
  <2>. QED BY <2>2, <2>3, <2>4 DEF Orderly, Small, Speaking, Short
<1>12. Skips'
  BY DEF Orderly, Skips, Sys, Item
<1>13. Followed'
  <2>. SUFFICES ASSUME ~initializing, ~parted
                PROVE  \E start \in Nat, k \in Seq(Message) : Rests(start, k)'
    BY DEF Followed
  <2>1. PICK start \in Nat, k \in Seq(Message) : Rests(start, k)
    BY DEF Followed, AtRest
  <2>2. /\ start \in 0 .. Given /\ context = Told(k, sys_prompt, start, Given)
        /\ Tells(k, history, Given) /\ Given \in Nat
        /\ Given <= Len(history) /\ Given <= Len(history') /\ Len(history) \in Nat
        /\ Len(history') \in Nat
    BY <1>3, <1>4, <1>5, <2>1 DEF Rests
  <2>3. PICK q \in Seq(Message) :
            Tells(q, history', Given) /\ Retells(q, k, history', Given)
    <3>. DEFINE g == Given
                j == history'
    <3>1. /\ Tells(k, history, g) /\ g \in Nat /\ g <= Len(history) /\ g <= Len(j)
          /\ \A i \in 1 .. g : j[i] = history[i]
          /\ history \in Seq(Message) /\ j \in Seq(Message)
      BY <1>3, <1>4, <1>7, <2>2
    <3>. HIDE DEF g, j
    <3>2. \A i \in 1 .. g : i <= g => i <= g
      OBVIOUS
    <3>3. \E q \in Seq(Message) : Tells(q, j, g) /\ Retells(q, k, j, g)
      BY ONLY <3>1, <3>2, TellsOther
    <3>. QED BY <3>3 DEF g, j
  <2>4. Tells(q, history, Given)' /\ Alike(k, q, Given)
    BY <1>8, <2>3 DEF Tells, Spellings, Cuts, Allowed, Retells
  <2>5. Marked(start, q, Len(history))'
    <3>1. ASSUME program.extending = "none"
          PROVE  Marks(q, sys_prompt, start, Given, Len(history'))
      <4>1. Marks(k, sys_prompt, start, Given, Len(history))
        BY <2>1, <3>1 DEF Rests, Marked
      <4>2. /\ \A i \in 1 .. Len(history) : k[i].tok_pos = history[i].tok_pos
            /\ \A i \in 1 .. Len(history') : q[i].tok_pos = history'[i].tok_pos
        BY <1>3, <1>4, <2>2, <2>3, TellsSame
      <4>3. ASSUME NEW i \in 1 .. Len(history'), q[i].tok_pos >= 0
            PROVE  i <= Len(history) /\ i <= Given /\ q[i].tok_pos = k[i].tok_pos
        <5>1. i \in 1 .. Len(history) /\ q[i].tok_pos = k[i].tok_pos /\ k[i].tok_pos >= 0
          BY <1>7, <4>2, <4>3
        <5>. QED BY <4>1, <5>1 DEF Marks
      <4>. DEFINE g == Given
                  n == Len(history)
                  m == Len(history')
      <4>5. /\ g \in Nat /\ n \in Nat /\ m \in Nat /\ Alike(k, q, g)
            /\ Marks(k, sys_prompt, start, g, n)
            /\ \A i \in 1 .. m : q[i].tok_pos >= 0 =>
                 i <= n /\ i <= g /\ i <= g /\ q[i].tok_pos = k[i].tok_pos
        BY <2>2, <2>4, <4>1, <4>3
      <4>. HIDE DEF g, n, m
      <4>6. Marks(q, sys_prompt, start, g, m)
        BY ONLY <1>3, k \in Seq(Message), q \in Seq(Message), <4>5, start \in Nat, MarksStay
      <4>. QED BY <4>6 DEF g, m
    <3>. QED BY <1>8, <3>1 DEF Marked
  <2>6. context' = Told(q, sys_prompt, start, Given)
    BY <1>3, <2>2, <2>4, ToldAlike
  <2>7. Whole(start)' /\ (start < Given' \/ (start = 0 /\ Given' = 0))
    BY <1>8, <2>1 DEF Rests, Whole
  <2>8. Rests(start, q)'
    BY <1>8, <2>4, <2>5, <2>6, <2>7 DEF Rests
  <2>. QED BY <2>8
<1>. QED BY <1>9, <1>10, <1>11, <1>12, <1>13 DEF Orderly

\* Pipeline::chat asks the model behind what it has been given, or begins again.
LEMMA ChatFollowed ==
    ASSUME ConversationInv, Kept, Orderly, Followed, Chat
    PROVE  Orderly' /\ Followed'
<1>. USE DEF promptVars, sessionVars
<1>1. /\ pc = "chat" /\ pc' = "generate" /\ call' = "chat" /\ continuous' = ~initializing
      /\ initializing' = FALSE /\ cursor' = Len(history) /\ parted' = (parted /\ continuous')
      /\ input_ids' = EncodeHistory(history, program.max_context, continuous', TRUE) \o Spelt
      /\ context' = IF continuous' THEN context ELSE <<>>
      /\ program' = program /\ history' = history /\ round' = round /\ sys_prompt' = sys_prompt
      /\ skip_sys_prompt' = skip_sys_prompt /\ tool_input' = tool_input /\ file' = file
      /\ ai_prefix' = ai_prefix
  BY DEF Chat
<1>2. /\ history \in Seq(Message) /\ round \in Int /\ sys_prompt \in SysPrompts
      /\ context \in Seq(Items) /\ cursor \in 0 .. Len(history) /\ Given \in 0 .. Len(history)
      /\ Given = GivenAt(history, cursor) /\ initializing \in BOOLEAN
      /\ Spelt \in Seq(Items) /\ <<Open>> \in Seq(Items)
  BY <1>1, InvSays, OpenType, CursorSays DEF ConversationInv, TypeOK
<1>3. Asked /\ Shape(history, round)
  BY <1>1 DEF Orderly, Turns
<1>4. Asked' /\ Given' = Len(history)
  BY <1>1, <1>2, <1>3 DEF Asked, Given
<1>0. Opening(ai_prefix)' = <<Open>> \o Spelt
  BY <1>1 DEF Opening, Open, Spelt, Spoken, Item
<1>5. Orderly'
  <2>1. Shape(history', round')
    BY <1>1, <1>3
  <2>2. Turns'
    BY <1>1, <1>4 DEF Turns, AtRest, Speaking
  <2>3. Small'
    BY <1>1 DEF Orderly, Small, Speaking, Short
  <2>4. Skips'
    BY <1>1 DEF Orderly, Skips, Sys, Item
  <2>. QED BY <2>1, <2>2, <2>3, <2>4 DEF Orderly
<1>6. ASSUME initializing
      PROVE  \E start \in Nat, k \in Seq(Message) : Asks(start, k)'
  <2>0. PICK s \in Nat : s = HistoryStart(history, program.max_context \div 2)
    BY <1>2, StartsType
  <2>1. ~skip_sys_prompt /\ history # <<>> /\ cursor \in Nat
    BY <1>2, <1>3, <1>6 DEF Orderly, Skips, Asked
  <2>2. /\ input_ids' = (Told(history, sys_prompt, s, Len(history)) \o <<Open>>) \o Spelt
        /\ context' = <<>>
    BY <1>1, <1>2, <1>6, <2>0, <2>1, EncodedWhole
  <2>3. s \in 0 .. Len(history) - 1
    BY <1>2, <2>0, <2>1, StartsBefore
  <2>4. IsWide(program.max_context) => s = 0
    <3>1. program.max_context \div 2 \in Nat
      BY InvSays
    <3>2. Short(history) /\ Len(history) <= MaxMessages + 1
      BY <1>6 DEF Orderly, Small
    <3>. DEFINE n == program.max_context \div 2
    <3>3. n \in Nat /\ (IsWide(program.max_context) => n > (MaxMessages + 1) * MaxPieces)
      BY <3>1 DEF IsWide
    <3>. HIDE DEF n
    <3>4. IsWide(program.max_context) => HistoryStart(history, n) = 0
      BY <1>2, <3>2, <3>3, WideStart
    <3>. QED BY <2>0, <3>4 DEF n
  <2>5. Told(history, sys_prompt, s, Len(history)) \in Seq(Items)
    <3>1. Len(history) \in 0 .. Len(history) /\ s \in 0 .. Len(history)
      BY <1>2, <2>3
    <3>. QED BY <1>2, <3>1, ToldType
  <2>6. context' \o input_ids' = Told(history, sys_prompt, s, Len(history)) \o Opening(ai_prefix)'
    <3>. DEFINE x == Told(history, sys_prompt, s, Len(history))
                o == <<Open>>
                p == Spelt
    <3>1. x \in Seq(Items) /\ o \in Seq(Items) /\ p \in Seq(Items)
      BY <1>2, <2>5
    <3>2. context' \o input_ids' = <<>> \o ((x \o o) \o p)
      BY <2>2
    <3>. HIDE DEF x, o, p
    <3>3. (x \o o) \o p = x \o (o \o p)
      BY ONLY <3>1, JoinedTwice
    <3>4. x \o (o \o p) \in Seq(Items)
      BY ONLY <3>1
    <3>. DEFINE w == x \o (o \o p)
    <3>5. <<>> \o w = w
      <4>. HIDE DEF w
      <4>1. w \in Seq(Items)
        BY <3>4 DEF w
      <4>. QED BY ONLY <4>1
    <3>. QED BY <1>0, <3>2, <3>3, <3>5 DEF x, o, p
  <2>7. Marked(s, history, Len(history))'
    <3>1. \A i \in 1 .. Len(history) : history[i].tok_pos < 0
      BY <1>6 DEF Orderly, Small
    <3>2. ASSUME NEW i \in 1 .. Len(history) PROVE ~(history[i].tok_pos >= 0)
      <4>1. history[i] \in Message
        BY <1>2
      <4>2. history[i].tok_pos \in Int
        BY <4>1 DEF Message
      <4>. QED BY <3>1, <4>2
    <3>. QED BY <1>1, <3>2 DEF Marked, Marks
  <2>8. s \in Nat /\ s < Len(history)
    BY <1>2, <2>3
  <2>9. Whole(s)'
    BY <1>1, <2>4 DEF Whole
  <2>10. PICK k \in Seq(Message) : k = history
    BY <1>2
  <2>11. Tells(k, history, Given)'
    BY <1>1, <1>2, <2>10 DEF Tells
  <2>12. Marked(s, k, Len(history))'
    BY <1>1, <2>7, <2>10 DEF Marked
  <2>13. Asks(s, k)'
    BY <1>1, <2>6, <2>8, <2>9, <2>10, <2>11, <2>12 DEF Asks, Speaks
  <2>. QED BY <2>8, <2>13
<1>7. ASSUME ~initializing, ~parted
      PROVE  \E start \in Nat, k \in Seq(Message) : Asks(start, k)'
  <2>1. PICK start \in Nat, k \in Seq(Message) : Rests(start, k)
    BY <1>1, <1>7 DEF Followed, AtRest
  <2>2. Given = 0 \/ history[Given].role = "Assistant"
    BY <1>1 DEF Orderly, Turns, AtRest
  <2>3. cursor \in 0 .. Len(history) - 1
    BY <1>2, <1>3, <2>2 DEF Asked, GivenAt
  <2>4. Given \in 0 .. Len(history) - 1 /\ CursorStart(history) = Given
    BY <1>2, <1>3, <2>3, GivenIsStart DEF Asked, Shape
  <2>5. skip_sys_prompt \/ history[Given + 1].round # 0
    <3>1. CASE Given = 0
      BY <1>1, <1>7, <3>1 DEF Orderly, Turns, AtRest
    <3>2. CASE Given # 0
      <4>1. Given + 1 \in 2 .. Len(history) /\ (Given + 1) - 1 = Given
        BY <1>2, <2>4, <3>2
      <4>2. history[Given + 1].round > 0
        BY <1>3, <2>2, <3>2, <4>1 DEF Shape
      <4>. QED BY <4>2
    <3>. QED BY <3>1, <3>2
  <2>. DEFINE told == Told(k, sys_prompt, start, Given)
              rest == Rendered(k, Given, Len(history))
              all  == Told(k, sys_prompt, start, Len(history))
  <2>6. Tells(k, history, Given) /\ Len(k) = Len(history) /\ Shape(k, round)
    BY <1>2, <1>3, <2>1, TellsSame DEF Rests
  <2>7. start \in Nat /\ Given \in Nat /\ Len(history) \in Nat /\ Given <= Len(history)
        /\ start \in 0 .. Given /\ (start < Given \/ (start = 0 /\ Given = 0))
    BY <1>2, <2>1 DEF Rests
  <2>8. rest = Rendered(history, Given, Len(history))
    <3>1. \A i \in 1 .. Len(history) - Given : k[Given + i] = history[Given + i]
      <4>. SUFFICES ASSUME NEW i \in 1 .. Len(history) - Given
                    PROVE  k[Given + i] = history[Given + i]
        OBVIOUS
      <4>1. Given + i \in 1 .. Len(history) /\ ~(Given + i <= Given)
        BY <2>7
      <4>. QED BY <2>6, <4>1 DEF Tells
    <3>. HIDE DEF Render
    <3>. QED BY <3>1 DEF Rendered, Parts
  <2>9. input_ids' = (rest \o <<Open>>) \o Spelt /\ context' = told
    <3>1. continuous' = TRUE
      BY <1>1, <1>7
    <3>2. EncodeHistory(history, program.max_context, TRUE, TRUE) = rest \o <<Open>>
      BY <1>2, <2>4, <2>5, <2>8, EncodedRest
    <3>. QED BY <1>1, <2>1, <3>1, <3>2 DEF Rests
  <2>10. all = told \o rest
    <3>. DEFINE g == Given
                n == Len(history)
    <3>0. /\ g \in Nat /\ n \in Nat /\ g <= n /\ n <= Len(k) /\ k \in Seq(Message)
          /\ sys_prompt \in SysPrompts
      BY <1>2, <2>6, <2>7
    <3>1. CASE start < Given
      <4>1. start < g /\ start \in Nat
        BY <2>7, <3>1
      <4>. HIDE DEF g, n
      <4>2. Told(k, sys_prompt, start, n) = Told(k, sys_prompt, start, g) \o Rendered(k, g, n)
        BY ONLY <3>0, <4>1, ToldJoins
      <4>. QED BY <4>2 DEF g, n
    <3>2. CASE start = 0 /\ Given = 0
      <4>1. k[1].round = 0
        <5>1. k # <<>>
          BY <1>3, <2>6 DEF Asked
        <5>. QED BY <2>6, <5>1 DEF Shape
      <4>. HIDE DEF g, n
      <4>2. Told(k, sys_prompt, 0, n) = Told(k, sys_prompt, 0, 0) \o Rendered(k, 0, n)
        BY ONLY <3>0, <4>1, ToldFirst
      <4>. QED BY <3>2, <4>2 DEF n
    <3>. QED BY <2>7, <3>1, <3>2
  <2>11. told \in Seq(Items) /\ rest \in Seq(Items)
    <3>1. told \in Seq(Items)
      BY <1>2, <2>6, <2>7, ToldType
    <3>2. rest \in Seq(Items)
      <4>1. Len(history) \in 0 .. Len(k) /\ Given \in 0 .. Len(history)
        BY <2>6, <2>7
      <4>. QED BY <4>1, RenderedType
    <3>. QED BY <3>1, <3>2
  <2>12. context' \o input_ids' = all \o Opening(ai_prefix)'
    <3>. DEFINE o == <<Open>>
                p == Spelt
    <3>1. o \in Seq(Items) /\ p \in Seq(Items) /\ rest \o o \in Seq(Items) /\ o \o p \in Seq(Items)
      BY <1>2, <2>11
    <3>2. context' \o input_ids' = told \o ((rest \o o) \o p)
      BY <2>9
    <3>. HIDE DEF told, rest, all, o, p
    <3>3. (rest \o o) \o p = rest \o (o \o p)
      BY ONLY <3>1, <2>11, JoinedTwice
    <3>4. (told \o rest) \o (o \o p) = told \o (rest \o (o \o p))
      <4>. DEFINE w == o \o p
      <4>1. w \in Seq(Items)
        BY <3>1
      <4>. HIDE DEF w
      <4>2. (told \o rest) \o w = told \o (rest \o w)
        BY ONLY <4>1, <2>11, JoinedTwice
      <4>. QED BY <4>2 DEF w
    <3>. QED BY <1>0, <2>10, <3>2, <3>3, <3>4 DEF o, p
  <2>13. Marked(start, k, Len(history))'
    <3>1. ASSUME program.extending = "none"
          PROVE  Marks(k, sys_prompt, start, Len(history), Len(history))
      <4>1. Marks(k, sys_prompt, start, Given, Len(history))
        BY <2>1, <3>1 DEF Rests, Marked
      <4>. QED BY <2>7, <4>1 DEF Marks
    <3>. QED BY <1>1, <1>4, <3>1 DEF Marked
  <2>14. Tells(k, history, Given)'
    <3>1. Tells(k, history, Len(history))
      BY <2>6, <2>7 DEF Tells
    <3>. QED BY <1>1, <1>4, <3>1 DEF Tells, Spellings, Cuts, Allowed
  <2>15. Speaks(start, k)'
    <3>1. start < Len(history) /\ Whole(start)
      BY <2>1, <2>4, <2>7 DEF Rests
    <3>2. Whole(start)'
      BY <1>1, <3>1 DEF Whole
    <3>. QED BY <1>1, <2>7, <2>13, <2>14, <3>1, <3>2 DEF Speaks
  <2>16. Asks(start, k)'
    BY <1>1, <2>12, <2>15 DEF Asks
  <2>. QED BY <2>7, <2>16
<1>8. Followed'
  BY <1>1, <1>2, <1>6, <1>7 DEF Followed, AtRest
<1>. QED BY <1>5, <1>8

\* What generate is given stays in front of what it says: all of it that has been run.
LEMMA Heeds ==
    ASSUME ConversationInv, Kept, Orderly, Followed, pc = "generate", ~initializing, ~parted,
           NEW text \in Seq(Answers), NEW c \in Cuts, output' = text,
           RunsOn(IF c THEN Run(text) ELSE text),
           UNCHANGED <<program, history, cursor, sys_prompt, call, ai_prefix>>
    PROVE  \E start \in Nat, k \in Seq(Message) : Spoke(start, k)'
<1>1. PICK start \in Nat, k \in Seq(Message) : Asks(start, k)
  BY DEF Followed
<1>2. Given' = Given /\ Sys' = Sys
  BY DEF Given, Sys, Item
<1>3. Speaks(start, k)'
  BY <1>1, <1>2 DEF Asks, Speaks, Whole, Marked, Tells, Spellings, Cuts, Allowed
<1>4. ai_prefix \in Spellings
  BY DEF Spellings, Allowed, Orderly, Skips, ConversationInv, TypeOK
<1>. DEFINE w == IF c THEN Run(text) ELSE text
            t == Told(k, sys_prompt, start, Len(history)) \o Opening(ai_prefix)
<1>5. context' = t \o Spoken(w)
  BY <1>1 DEF RunsOn, Asks
<1>. HIDE DEF w, t
<1>6. Heard(c)' = w
  BY DEF Heard, Run, w
<1>7. PICK p \in Spellings : p = ai_prefix
  BY <1>4
<1>8. p \in Spellings' /\ c \in Cuts'
  BY DEF Spellings, Cuts, Allowed
<1>9. (Told(k, sys_prompt, start, Len(history)) \o Opening(p))' = t
  BY <1>7 DEF t, Opening, Open, Item, Spoken
<1>10. Spoken(Heard(c))' = Spoken(w)
  BY <1>6 DEF Spoken, Item
<1>11. Spoke(start, k)'
  BY <1>3, <1>5, <1>8, <1>9, <1>10 DEF Spoke
<1>. QED BY <1>11

LEMMA CompleteFollowed ==
    ASSUME ConversationInv, Kept, Orderly, Followed, NEW text \in Outputs,
           Complete(text) \/ (Allowed("abort") /\ CutShort(text))
    PROVE  Orderly' /\ Followed'
<1>. USE DEF promptVars, sessionVars, messagesVars
<1>1. /\ pc = "generate" /\ pc' = "done" /\ output' = <<>> \o text
      /\ UNCHANGED <<program, history, cursor, round, initializing, sys_prompt,
                     skip_sys_prompt, ai_prefix, tool_input, file, call, parted>>
  BY DEF Complete, CutShort, RunsOn, Says, Said, Shifts, Kept, LeavesHistory
<1>2. Orderly'
  BY <1>1 DEF Orderly, Turns, Small, Skips, AtRest, Speaking, Asked, Replied, Short, Sys,
              Item, Given
<1>3. text \in Seq(Answers) /\ output' = text
  <2>1. program.answers \in Nat
    BY InvSays, ProgramType
  <2>2. text \in Seq(Answers)
    BY <2>1, OutputsType
  <2>3. <<>> \o text = text
    BY <2>2
  <2>. QED BY <1>1, <2>2, <2>3
<1>4. ASSUME ~initializing, ~parted
      PROVE  \E start \in Nat, k \in Seq(Message) : Spoke(start, k)'
  <2>1. CASE Complete(text)
    <3>1. PICK c \in Cuts : c = FALSE
      BY SpellingsType
    <3>2. RunsOn(IF c THEN Run(text) ELSE text)
      BY <2>1, <3>1 DEF Complete
    <3>. QED BY <1>1, <1>3, <1>4, <3>2, Heeds
  <2>2. CASE Allowed("abort") /\ CutShort(text)
    <3>1. PICK c \in Cuts : c = TRUE
      BY <2>2 DEF Cuts
    <3>2. RunsOn(IF c THEN Run(text) ELSE text)
      BY <2>2, <3>1 DEF CutShort
    <3>. QED BY <1>1, <1>3, <1>4, <3>2, Heeds
  <2>. QED BY <2>1, <2>2
<1>5. Followed'
  BY <1>1, <1>4 DEF Followed, AtRest
<1>. QED BY <1>2, <1>5

\* An input that is never run parts the context from the history.
LEMMA NothingRunFollowed ==
    ASSUME ConversationInv, Kept, Orderly, Followed, Allowed("abort"), NothingRun
    PROVE  Orderly' /\ Followed'
<1>. USE DEF promptVars, sessionVars, messagesVars
<1>1. /\ pc = "generate" /\ pc' = "done" /\ parted' = TRUE
      /\ UNCHANGED <<program, history, cursor, round, initializing, sys_prompt,
                     skip_sys_prompt, ai_prefix, tool_input, file, call>>
  BY DEF NothingRun
<1>2. "continue" \notin program.calls
  BY DEF Allowed, Kept, LeavesHistory
<1>3. Orderly'
  BY <1>1, <1>2 DEF Orderly, Turns, Small, Skips, AtRest, Speaking, Asked, Replied, Short,
                    Sys, Item, Given
<1>4. Followed'
  BY <1>1 DEF Followed
<1>. QED BY <1>3, <1>4

\* A second attempt begins where the restart method has moved the start to.
LEMMA RetryFollowed ==
    ASSUME ConversationInv, Kept, Orderly, Followed, Retry
    PROVE  Orderly' /\ Followed'
<1>. USE DEF promptVars, sessionVars
<1>1. /\ pc = "retry" /\ pc' = "generate" /\ context' = <<>> /\ cursor' = Len(history)
      /\ input_ids' = EncodeHistory(history, program.max_context, FALSE, call = "chat")
                      \o (IF call = "chat" THEN Spelt ELSE <<>>)
      /\ parted' = FALSE
      /\ UNCHANGED <<program, history, round, initializing, sys_prompt, skip_sys_prompt,
                     ai_prefix, tool_input, file, call>>
  BY DEF Retry
<1>2. /\ call = "chat" /\ program.extending = "restart" /\ Asked
      /\ cursor = Len(history) /\ ~initializing
  BY <1>1 DEF Orderly, Turns, Speaking
<1>3. Orderly'
  BY <1>1, <1>2 DEF Orderly, Turns, Small, Skips, AtRest, Speaking, Asked, Replied, Short,
              Sys, Item, Given
<1>4. /\ history \in Seq(Message) /\ sys_prompt \in SysPrompts /\ cursor \in Nat
      /\ history # <<>> /\ Spelt \in Seq(Items) /\ <<Open>> \in Seq(Items)
  BY <1>2, InvSays, OpenType DEF Asked
<1>5. ~skip_sys_prompt
  BY <1>2 DEF Orderly, Skips, Kept, KeepsSkipping
<1>6. PICK s \in Nat : s = HistoryStart(history, program.max_context \div 2)
  BY <1>4, StartsType
<1>7. s \in 0 .. Len(history) - 1
  BY <1>4, <1>6, StartsBefore
<1>. DEFINE told == Told(history, sys_prompt, s, Len(history))
            o == <<Open>>
            p == Spelt
<1>8. input_ids' = (told \o o) \o p
  <2>1. EncodeHistory(history, program.max_context, FALSE, TRUE) = told \o <<Open>>
    BY <1>4, <1>5, <1>6, EncodedWhole
  <2>. QED BY <1>1, <1>2, <2>1
<1>9. told \in Seq(Items) /\ o \in Seq(Items) /\ p \in Seq(Items)
  <2>1. Len(history) \in 0 .. Len(history) /\ s \in 0 .. Len(history)
    BY <1>4, <1>7
  <2>. QED BY <1>4, <2>1, ToldType
<1>10. Opening(ai_prefix)' = o \o p
  BY <1>1, <1>2 DEF Opening, Open, Item, Spelt, Spoken
<1>. HIDE DEF told, o, p
<1>11. context' \o input_ids' = told \o (o \o p)
  <2>1. context' \o input_ids' = <<>> \o ((told \o o) \o p)
    BY <1>1, <1>8
  <2>2. (told \o o) \o p = told \o (o \o p)
    BY ONLY <1>9, JoinedTwice
  <2>. DEFINE w == told \o (o \o p)
  <2>3. w \in Seq(Items)
    BY ONLY <1>9
  <2>4. <<>> \o w = w
    <3>. HIDE DEF w
    <3>. QED BY ONLY <2>3
  <2>. QED BY <2>1, <2>2, <2>4
<1>12. PICK k \in Seq(Message) : k = history
  BY <1>4
<1>13. Speaks(s, k)'
  <2>1. Tells(k, history, Given)'
    BY <1>1, <1>4, <1>12 DEF Tells
  <2>. QED BY <1>1, <1>2, <1>4, <1>7, <2>1 DEF Speaks, Whole, Marked
<1>14. Asks(s, k)'
  BY <1>1, <1>10, <1>11, <1>12, <1>13 DEF Asks, told
<1>15. Followed'
  BY <1>1, <1>14 DEF Followed, AtRest
<1>. QED BY <1>3, <1>15

\* Text of a tool waits beside the conversation, and what answers will begin with.
LEMMA ToolFollowed ==
    ASSUME ConversationInv, Kept, Orderly, Followed,
           pc \in {"idle", "done"},
           tool_input' = tool_input \/ "continue" \notin program.calls,
           ai_prefix' = ai_prefix \/ "prefix" \in program.calls,
           UNCHANGED <<program, messagesVars, context, initializing, sys_prompt,
                       skip_sys_prompt, sessionVars, pc, callVars>>
    PROVE  Orderly' /\ Followed'
<1>. USE DEF sessionVars, messagesVars, callVars
<1>1. Given' = Given /\ Spoken(output)' = Spoken(output) /\ Sys' = Sys
  BY DEF Given, Item, Spoken, Sys
<1>2. Orderly'
  BY <1>1 DEF Orderly, Turns, Small, Skips, AtRest, Speaking, Asked, Replied, Short
<1>3. ASSUME NEW start \in Nat, NEW k \in Seq(Message)
      PROVE  Rests(start, k)' = Rests(start, k) /\ Spoke(start, k)' = Spoke(start, k)
  <2>1. Tells(k, history, Given)' = Tells(k, history, Given)
    BY <1>1 DEF Tells, Spellings, Cuts, Allowed
  <2>2. Spellings' = Spellings /\ Cuts' = Cuts
    BY DEF Spellings, Cuts, Allowed
  <2>3. ASSUME NEW p, NEW c
        PROVE  Opening(p)' = Opening(p) /\ Spoken(Heard(c))' = Spoken(Heard(c))
    BY DEF Opening, Open, Item, Spoken, Heard, Run
  <2>4. Marked(start, k, Len(history))' = Marked(start, k, Len(history))
    BY <1>1 DEF Marked
  <2>5. Speaks(start, k)' = Speaks(start, k)
    BY <1>1, <2>1 DEF Speaks, Whole, Marked
  <2>6. Spoke(start, k)' = Spoke(start, k)
    <3>. DEFINE Puts(p, c) == context =
                  (Told(k, sys_prompt, start, Len(history)) \o Opening(p)) \o Spoken(Heard(c))
    <3>1. ASSUME NEW p, NEW c PROVE Puts(p, c)' = Puts(p, c)
      BY <2>3
    <3>2. /\ Spoke(start, k) = (Speaks(start, k) /\ \E p \in Spellings, c \in Cuts : Puts(p, c))
          /\ Spoke(start, k)' =
               (Speaks(start, k)' /\ \E p \in Spellings', c \in Cuts' : Puts(p, c)')
      BY DEF Spoke
    <3>. HIDE DEF Puts
    <3>. QED BY <2>2, <2>5, <3>1, <3>2
  <2>7. Rests(start, k)' = Rests(start, k)
    BY <1>1, <2>1, <2>4 DEF Rests, Whole
  <2>. QED BY <2>6, <2>7
<1>4. Followed'
  BY <1>3 DEF Followed, AtRest
<1>. QED BY <1>2, <1>4

\* A context that IsWide has room for a history of short messages.
LEMMA WideRoom ==
    ASSUME NEW m \in Nat, NEW pieces \in Nat, pieces >= 1,
           NEW length \in Nat, length \div 2 > m * pieces,
           NEW j \in 0 .. m, NEW x \in Nat, x <= 1 + j * (pieces + 1)
    PROVE  x < length
<1>1. PICK q \in Nat : q = m * pieces
  OBVIOUS
<1>2. q >= m
  <2>1. PICK d \in Nat : pieces = 1 + d
    <3>1. pieces = 1 + (pieces - 1) /\ pieces - 1 \in Nat
      OBVIOUS
    <3>. QED BY <3>1
  <2>2. m * pieces = m + m * d
    BY <2>1
  <2>3. m * d \in Nat
    OBVIOUS
  <2>. QED BY ONLY <1>1, <2>2, <2>3, m \in Nat
<1>3. PICK a \in Nat : a = j * (pieces + 1)
  OBVIOUS
<1>4. a <= q + m
  <2>1. PICK d \in Nat : m = j + d
    <3>1. m = j + (m - j) /\ m - j \in Nat
      OBVIOUS
    <3>. QED BY <3>1
  <2>2. m * (pieces + 1) = j * (pieces + 1) + d * (pieces + 1)
    BY ONLY <2>1, j \in Nat, pieces \in Nat, d \in Nat
  <2>3. m * (pieces + 1) = q + m
    BY <1>1
  <2>4. d * (pieces + 1) \in Nat
    OBVIOUS
  <2>. QED BY ONLY <1>3, <2>2, <2>3, <2>4, a \in Nat, q \in Nat, m \in Nat
<1>5. length >= 2 * q + 2
  BY ONLY <1>1, length \in Nat, length \div 2 > m * pieces, q \in Nat
<1>. QED BY ONLY <1>2, <1>3, <1>4, <1>5, m \in Nat, x \in Nat, length \in Nat, q \in Nat,
                 a \in Nat, x <= 1 + j * (pieces + 1)

LEMMA RenderedShort ==
    ASSUME NEW h \in Seq(Message), Short(h), NEW start \in Nat, NEW end \in Nat,
           start <= end, end <= Len(h)
    PROVE  /\ Rendered(h, start, end) \in Seq(Items)
           /\ Len(Rendered(h, start, end)) <= end * (MaxPieces + 1)
<1>1. MaxPieces \in Nat
  BY MessagesAssumption
<1>2. PICK d \in Nat : d = end - start /\ end = d + start
  <2>1. end - start \in Nat /\ end = (end - start) + start
    OBVIOUS
  <2>. QED BY <2>1
<1>3. Len(Rendered(h, start, end)) <= d * (MaxPieces + 1)
  BY <1>2, RenderedLength
<1>4. end * (MaxPieces + 1) = d * (MaxPieces + 1) + start * (MaxPieces + 1)
  BY ONLY <1>1, <1>2, start \in Nat
<1>5. d * (MaxPieces + 1) \in Nat /\ start * (MaxPieces + 1) \in Nat
  BY <1>1
<1>6. Rendered(h, start, end) \in Seq(Items)
  <2>1. end \in 0 .. Len(h) /\ start \in 0 .. end
    OBVIOUS
  <2>. QED BY <2>1, RenderedType
<1>7. Len(Rendered(h, start, end)) \in Nat
  BY <1>6
<1>. QED BY ONLY <1>3, <1>4, <1>5, <1>6, <1>7

\* Answers are continued in contexts that do not run out.
LEMMA ContinuingFits ==
    ASSUME ConversationInv, Kept, Orderly, Followed, pc = "generate",
           "continue" \in program.calls
    PROVE  Len(context \o input_ids) + program.answers < program.max_length
<1>1. /\ history \in Seq(Message) /\ sys_prompt \in SysPrompts /\ program.max_length \in Nat
      /\ MaxPieces \in Nat /\ MaxPieces >= 1 /\ MaxMessages \in Nat
      /\ call \in {"chat", "continue"} /\ program.answers \in Nat
      /\ program.answers <= MaxPieces
  BY InvSays, ProgramType, MessagesAssumption DEF ConversationInv, TypeOK
<1>2. /\ ~initializing /\ ~parted /\ Short(history) /\ Len(history) <= MaxMessages + 1
      /\ call = "chat" => Asked /\ Len(history) <= MaxMessages
      /\ call = "continue" =>
           Replied /\ Len(history[Len(history)].content) + program.answers <= MaxPieces
      /\ ai_prefix = <<>>
  BY <1>1 DEF Orderly, Turns, Small, Speaking, Skips, Kept, LeavesHistory
<1>3. PICK start \in Nat, k \in Seq(Message) : Asks(start, k)
  BY <1>2 DEF Followed
<1>4. k = history
  <2>1. program.calls \cap {"abort", "prefix"} = {}
    BY DEF Kept, LeavesHistory
  <2>2. Tells(k, history, Given)
    BY <1>3 DEF Asks, Speaks
  <2>. QED BY <1>1, <2>1, <2>2, TellsPlainly
<1>5. PICK n \in Nat : n = Len(history)
  BY <1>1
<1>6. start < n /\ n \in 1 .. Len(history) /\ start \in 0 .. n - 1 /\ n - 1 \in Nat
  BY <1>1, <1>3, <1>5 DEF Asks, Speaks
<1>. DEFINE told == Told(history, sys_prompt, start, n)
            front == PromptBefore(history, sys_prompt, start, n)
            x == Len(context \o input_ids) + program.answers
            m == MaxMessages + 1
<1>7. context \o input_ids = told \o Opening(<<>>)
  BY <1>2, <1>3, <1>4, <1>5 DEF Asks
<1>8. told \in Seq(Items) /\ front \in Seq(Items) /\ Len(front) <= 1
  <2>1. n \in 0 .. Len(history) /\ start \in 0 .. n
    BY <1>5, <1>6
  <2>. QED BY <1>1, <2>1, ToldType, PromptBeforeType
<1>9. program.max_length \div 2 > m * MaxPieces
  BY DEF Kept, LeavesHistory, IsWide
<1>10. CASE call = "chat"
  <2>. DEFINE rest == Rendered(history, start, n)
              o == Opening(<<>>)
              a == n * (MaxPieces + 1)
              j == n + 1
  <2>1. rest \in Seq(Items) /\ Len(rest) <= a
    <3>1. start <= n /\ n <= Len(history)
      BY <1>5, <1>6
    <3>. QED BY <1>1, <1>2, <3>1, RenderedShort
  <2>2. o \in Seq(Items) /\ Len(o) = 1
    <3>1. Spoken(<<>>) = <<>>
      BY DEF Spoken
    <3>2. o = <<Open>> \o <<>>
      BY <1>10, <3>1 DEF Opening
    <3>3. <<Open>> \in Seq(Items)
      BY OpenType
    <3>. HIDE DEF o
    <3>. QED BY <3>2, <3>3
  <2>3. Len(told) = Len(front) + Len(rest)
    <3>1. n \in 0 .. Len(history) /\ start \in 0 .. n
      BY <1>5, <1>6
    <3>. QED BY <1>1, <3>1, ToldType
  <2>4. a \in Nat /\ j * (MaxPieces + 1) = a + (MaxPieces + 1) /\ j \in 0 .. m /\ m \in Nat
    BY <1>1, <1>2, <1>5, <1>10
  <2>5. Len(context \o input_ids) = Len(told) + Len(o)
    <3>1. context \o input_ids = told \o o
      BY <1>7
    <3>. HIDE DEF told, o
    <3>2. Len(told \o o) = Len(told) + Len(o)
      <4>1. told \in Seq(Items) /\ o \in Seq(Items)
        BY <1>8, <2>2
      <4>. QED BY ONLY <4>1, ConcatProperties
    <3>. QED BY <3>1, <3>2
  <2>. HIDE DEF told, rest, front, o, a, j
  <2>8. Len(told) \in Nat /\ Len(front) \in Nat /\ Len(rest) \in Nat
    BY ONLY <1>8, <2>1
  <2>6. x \in Nat /\ x <= 1 + j * (MaxPieces + 1)
    BY ONLY <1>1, <1>8, <2>1, <2>2, <2>3, <2>4, <2>5, <2>8, SMTT(40)
  <2>. HIDE DEF m, x
  <2>7. x < program.max_length
    BY ONLY <1>1, <1>9, <2>4, <2>6, WideRoom
  <2>. QED BY <2>7 DEF x
<1>11. CASE call = "continue"
  <2>. DEFINE e == n - 1
              rest == Rendered(history, start, e)
              last == Render(history[n])
              c == Len(history[n].content)
              a == e * (MaxPieces + 1)
  <2>1. e \in Nat /\ start <= e /\ e <= Len(history) /\ n = e + 1
    BY <1>5, <1>6
  <2>2. rest \in Seq(Items) /\ Len(rest) <= a
    <3>. HIDE DEF e
    <3>. QED BY <1>1, <1>2, <2>1, RenderedShort
  <2>3. c \in Nat /\ c + program.answers <= MaxPieces
    <3>1. history[n] \in Message
      BY <1>1, <1>6
    <3>2. history[n].content \in Seq(Piece)
      BY <3>1 DEF Message
    <3>. QED BY <1>2, <1>5, <1>11, <3>2
  <2>4. last \in Seq(Items) /\ Len(last) \in Nat /\ Len(last) <= c + 1
    <3>1. history[n] \in Message
      BY <1>1, <1>6
    <3>. QED BY <3>1, RenderType, RenderLength
  <2>5. told = (front \o rest) \o last
    BY <1>1, <1>6, ToldLast
  <2>6. Opening(<<>>) = <<>>
    BY <1>11 DEF Opening
  <2>7. a \in Nat /\ n * (MaxPieces + 1) = a + (MaxPieces + 1) /\ n \in 0 .. m /\ m \in Nat
    <3>. HIDE DEF e
    <3>. QED BY <1>1, <1>2, <1>5, <2>1
  <2>. HIDE DEF told, rest, front, last, c, a
  <2>8. told \o <<>> = told
    BY ONLY <1>8
  <2>9. Len(told) = (Len(front) + Len(rest)) + Len(last) /\ Len(front) \in Nat
        /\ Len(rest) \in Nat
    BY ONLY <1>8, <2>2, <2>4, <2>5
  <2>10. Len(context \o input_ids) = Len(told)
    BY <1>7, <2>6, <2>8
  <2>11. x \in Nat /\ x <= 1 + n * (MaxPieces + 1)
    BY ONLY <1>1, <1>8, <2>2, <2>3, <2>4, <2>7, <2>9, <2>10, SMTT(40)
  <2>. HIDE DEF m, x
  <2>12. x < program.max_length
    BY ONLY <1>1, <1>9, <2>7, <2>11, WideRoom
  <2>. QED BY <2>12 DEF x
<1>. QED BY <1>1, <1>10, <1>11

\* When the context runs out the turn is over, or begins again.
LEMMA RunOutFollowed ==
    ASSUME ConversationInv, Kept, Orderly, Followed,
           NoRoom \/ \E text \in Outputs : RunOut(text)
    PROVE  Orderly' /\ Followed'
<1>. USE DEF promptVars, sessionVars, messagesVars
<1>1. /\ pc = "generate" /\ pc' = (IF Retries THEN "retry" ELSE "done")
      /\ parted' = (parted \/ ~Retries)
      /\ UNCHANGED <<program, history, cursor, round, initializing, sys_prompt,
                     skip_sys_prompt, ai_prefix, tool_input, file, call>>
  BY DEF NoRoom, RunOut, RunsOn, OutOfContext, Shifts, Kept, LeavesHistory
<1>2. "continue" \notin program.calls
  <2>. SUFFICES ASSUME "continue" \in program.calls PROVE FALSE
    OBVIOUS
  <2>. DEFINE x == context \o input_ids
  <2>1. Len(x) + program.answers < program.max_length
    BY <1>1, ContinuingFits
  <2>2. /\ context \in Seq(Items) /\ input_ids \in Seq(Items)
        /\ program.max_length \in Nat /\ program.answers \in Nat
    BY InvSays, ProgramType
  <2>3. x \in Seq(Items) /\ Len(x) = Len(context) + Len(input_ids)
    BY <2>2
  <2>. HIDE DEF x
  <2>4. Fits
    BY <2>1, <2>2, <2>3 DEF Fits
  <2>5. PICK text \in Outputs : RunOut(text)
    BY <2>4 DEF NoRoom
  <2>6. text \in Seq(Answers) /\ Len(text) <= program.answers /\ text # <<>>
    BY <2>2, <2>5, OutputsType DEF RunOut
  <2>. DEFINE r == Run(text)
              s == Spoken(r)
  <2>7. r \in Seq(Answers) /\ Len(r) = Len(text) - 1
    BY <2>6, RunType
  <2>8. s \in Seq(Items) /\ Len(s) = Len(text) - 1
    <3>. HIDE DEF r
    <3>1. r \in Seq(Piece)
      BY <2>7, AnswersType
    <3>. QED BY <2>7, <3>1, SpokenType
  <2>9. context' = x \o s /\ Len(context') + 1 >= program.max_length
    BY <2>5 DEF RunOut, RunsOn, x
  <2>. HIDE DEF s
  <2>10. Len(context') = Len(x) + Len(s)
    <3>1. x \in Seq(Items) /\ s \in Seq(Items) /\ context' = x \o s
      BY <2>3, <2>8, <2>9
    <3>2. Len(x \o s) = Len(x) + Len(s)
      BY ONLY <3>1, ConcatProperties
    <3>. QED BY ONLY <3>1, <3>2
  <2>11. Len(text) \in Nat /\ Len(x) \in Nat
    BY <2>3, <2>6
  <2>. QED BY ONLY <2>1, <2>2, <2>6, <2>8, <2>9, <2>10, <2>11
<1>3. Speaking /\ call = "chat" /\ (pc' = "retry" => program.extending = "restart")
  <2>1. Speaking
    BY <1>1 DEF Speaking
  <2>2. call \in {"chat", "continue"}
    BY DEF ConversationInv, TypeOK
  <2>3. call = "chat"
    BY <1>2, <2>1, <2>2 DEF Orderly, Turns
  <2>. QED BY <1>1, <2>1, <2>3 DEF Retries
<1>4. Turns'
  BY <1>1, <1>3 DEF Orderly, Turns, AtRest, Speaking, Asked, Given
<1>5. Small'
  BY <1>1, <1>2, <1>3 DEF Orderly, Small, Speaking, Short
<1>6. Shape(history, round)' /\ Skips'
  BY <1>1 DEF Orderly, Skips, Sys, Item, Shape
<1>7. Followed'
  BY <1>1 DEF Followed, AtRest
<1>. QED BY <1>4, <1>5, <1>6, <1>7 DEF Orderly

\* What the answer's push, with its position, makes of a history.
AnswerAdded(h, k, content, pos) ==
    /\ k \in Seq(Message) /\ Len(k) = Len(h) + 1 /\ \A i \in 1 .. Len(h) : k[i] = h[i]
    /\ k[Len(k)].role = "Assistant" /\ k[Len(k)].content = content
    /\ k[Len(k)].tok_pos = pos

LEMMA AnsweredIs ==
    ASSUME NEW h \in Seq(Message), h # <<>>, h[Len(h)].role # "Assistant",
           NEW content \in Seq(Piece), NEW rnd \in Int, Shape(h, rnd), NEW pos \in Int,
           NEW k, k = WithTokPos(Pushed(h, "Assistant", content, rnd), pos)
    PROVE  AnswerAdded(h, k, content, pos) /\ Shape(k, rnd)
<1>. DEFINE p == Pushed(h, "Assistant", content, rnd)
<1>1. "Assistant" \in Role
  BY DEF Role
<1>2. p \in Seq(Message)
  BY <1>1, PushedType
<1>3. RoundAfter(h, "Assistant", rnd) = rnd
  BY DEF RoundAfter, OpensRound
<1>4. Shape(p, rnd)
  BY <1>1, <1>3, ShapePushed
<1>5. /\ Len(p) = Len(h) + 1 /\ \A i \in 1 .. Len(h) : p[i] = h[i]
      /\ p[Len(h) + 1].role = "Assistant" /\ p[Len(h) + 1].content = content
  <2>. DEFINE m == [role |-> "Assistant", content |-> content, round |-> rnd, tok_pos |-> -1]
  <2>1. m.role = "Assistant" /\ m.content = content
    OBVIOUS
  <2>2. m \in Message
    BY <1>1 DEF Message
  <2>3. p = Append(h, m)
    BY <1>3 DEF Pushed, Aggregates, LastMessage
  <2>. HIDE DEF m, p
  <2>4. Len(p) = Len(h) + 1 /\ (\A i \in 1 .. Len(h) : p[i] = h[i]) /\ p[Len(h) + 1] = m
    BY ONLY <2>2, <2>3, h \in Seq(Message)
  <2>. QED BY <2>1, <2>4
<1>. HIDE DEF p
<1>6. p # <<>> /\ Len(p) \in DOMAIN p /\ p[Len(p)] \in Message
  BY <1>2, <1>5
<1>7. k = [p EXCEPT ![Len(p)].tok_pos = pos]
  BY <1>6 DEF WithTokPos, p
<1>8. k \in Seq(Message) /\ Len(k) = Len(p)
  BY <1>2, WithTokPosType DEF p
<1>9. \A i \in 1 .. Len(h) : k[i] = p[i]
  BY <1>2, <1>5, <1>6, <1>7
<1>10. k[Len(p)] = [p[Len(p)] EXCEPT !.tok_pos = pos]
  BY <1>2, <1>6, <1>7
<1>11. /\ k[Len(p)].role = p[Len(p)].role /\ k[Len(p)].content = p[Len(p)].content
       /\ k[Len(p)].round = p[Len(p)].round /\ k[Len(p)].tok_pos = pos
  BY <1>6, <1>10 DEF Message
<1>12. Shape(k, rnd)
  <2>1. ASSUME NEW i \in 1 .. Len(p)
        PROVE  /\ k[i].role = p[i].role /\ k[i].round = p[i].round
               /\ k[i].tok_pos >= 0 => k[i].role = "Assistant"
    <3>1. CASE i <= Len(h)
      <4>1. k[i] = p[i] /\ i \in 1 .. Len(p)
        BY <1>9, <3>1
      <4>. QED BY <1>4, <4>1 DEF Shape
    <3>2. CASE i = Len(p)
      BY <1>5, <1>11, <3>2
    <3>3. i \in Nat /\ i <= Len(h) + 1
      BY <1>5
    <3>. QED BY <1>5, <3>1, <3>2, <3>3
  <2>. QED BY <1>2, <1>4, <1>8, <2>1, ShapeKept
<1>. QED BY <1>5, <1>8, <1>9, <1>11, <1>12 DEF AnswerAdded

\* An answer behind a prefix is told as it was spoken.
LEMMA AnswerTold ==
    ASSUME NEW k \in Seq(Message), NEW q \in Seq(Message), NEW sys \in SysPrompts,
           Len(q) = Len(k) + 1, \A i \in 1 .. Len(k) : q[i] = k[i],
           NEW p \in Seq(Piece), NEW d \in Seq(Piece),
           q[Len(q)].role = "Assistant", q[Len(q)].content = p \o d,
           NEW start \in 0 .. Len(k) - 1
    PROVE  Told(q, sys, start, Len(q)) =
             (Told(k, sys, start, Len(k)) \o (<<Open>> \o Spoken(p))) \o Spoken(d)
<1>. DEFINE x == Told(k, sys, start, Len(k))
            o == <<Open>>
            a == Spoken(p)
            b == Spoken(d)
<1>1. Alike(k, q, Len(k))
  <2>1. Len(k) \in Nat
    OBVIOUS
  <2>. QED BY <2>1 DEF Alike
<1>2. Told(q, sys, start, Len(q)) = (x \o o) \o Spoken(p \o d)
  <2>1. Told(q, sys, start, Len(q)) = (x \o o) \o Spoken(q[Len(q)].content)
    BY <1>1, ToldAnswer
  <2>. QED BY <2>1
<1>3. Spoken(p \o d) = a \o b
  BY SpokenTwice
<1>4. x \in Seq(Items) /\ o \in Seq(Items) /\ a \in Seq(Items) /\ b \in Seq(Items)
  <2>1. Len(k) \in 0 .. Len(k) /\ start \in 0 .. Len(k)
    OBVIOUS
  <2>2. x \in Seq(Items)
    BY <2>1, ToldType
  <2>. QED BY <2>2, OpenType, SpokenType
<1>. HIDE DEF x, o, a, b
<1>5. (x \o o) \o (a \o b) = ((x \o o) \o a) \o b
  <2>. DEFINE w == x \o o
  <2>1. w \in Seq(Items)
    BY ONLY <1>4
  <2>. HIDE DEF w
  <2>2. (w \o a) \o b = w \o (a \o b)
    BY ONLY <1>4, <2>1, JoinedTwice, SMTT(40)
  <2>. QED BY <2>2 DEF w
<1>6. (x \o o) \o a = x \o (o \o a)
  BY ONLY <1>4, JoinedTwice, SMTT(40)
<1>. QED BY <1>2, <1>3, <1>5, <1>6 DEF x, o, a, b

\* A telling of a history and an answer is one of the history with the answer.
LEMMA TellsAnswer ==
    ASSUME NEW h \in Seq(Message), NEW k, Tells(k, h, Len(h)),
           NEW a \in Seq(Message), Len(a) = Len(h) + 1, \A i \in 1 .. Len(h) : a[i] = h[i],
           a[Len(a)].tok_pos >= 0, NEW p \in Spellings, NEW c \in Cuts
    PROVE  \E q \in Seq(Message) :
             /\ Tells(q, a, Len(a)) /\ \A i \in 1 .. Len(h) : q[i] = k[i]
             /\ q[Len(a)] = KnownAs(a[Len(a)], p, c)
<1>. DEFINE m == KnownAs(a[Len(a)], p, c)
            q == Append(k, m)
<1>1. k \in Seq(Message) /\ Len(k) = Len(h) /\ Len(h) \in Nat
  BY DEF Tells
<1>2. m \in Message
  <2>1. a[Len(a)] \in Message
    BY <1>1
  <2>2. p \in Seq(Piece) /\ c \in BOOLEAN
    BY SpellingsType
  <2>. QED BY <2>1, <2>2, KnownAsType
<1>. HIDE DEF m
<1>3. q \in Seq(Message) /\ Len(q) = Len(a) /\ (\A i \in 1 .. Len(h) : q[i] = k[i])
      /\ q[Len(a)] = m
  BY <1>1, <1>2
<1>. HIDE DEF q
<1>4. Tells(q, a, Len(a))
  <2>. SUFFICES ASSUME NEW i \in 1 .. Len(a)
                PROVE  \/ q[i] = a[i]
                       \/ /\ a[i].tok_pos >= 0 /\ i <= Len(a)
                          /\ \E d \in Spellings, e \in Cuts : q[i] = KnownAs(a[i], d, e)
    BY <1>3 DEF Tells
  <2>1. CASE i \in 1 .. Len(h)
    BY <1>1, <1>3, <2>1 DEF Tells
  <2>2. CASE i = Len(a)
    BY <1>1, <1>3, <2>2 DEF m
  <2>. QED BY <1>1, <2>1, <2>2
<1>. QED BY <1>3, <1>4 DEF m

\* The answer takes its place in the history, and what a tool says behind it.
LEMMA AnswerFollowed ==
    ASSUME ConversationInv, Kept, Orderly, Followed, Answer
    PROVE  Orderly' /\ Followed'
<1>. DEFINE a == Answered(history, round)
<1>1. /\ pc = "done" /\ call = "chat" /\ tool_input' = <<>>
      /\ history' = IF tool_input = <<>> THEN a ELSE Pushed(a, "Tool", tool_input, round)
      /\ round' = IF tool_input = <<>> THEN round ELSE RoundAfter(a, "Tool", round)
      /\ pc' = IF tool_input = <<>> THEN "idle" ELSE "chat"
      /\ file' = file \/ file' = SessionOf(a)
      /\ UNCHANGED <<program, cursor, context, initializing, sys_prompt, skip_sys_prompt,
                     ai_prefix, call, output, parted>>
  BY DEF Answer, promptVars, callVars
<1>2. /\ Speaking /\ Asked /\ cursor = Len(history) /\ ~initializing
      /\ Shape(history, round)
  BY <1>1 DEF Orderly, Turns, Speaking
<1>3. /\ history \in Seq(Message) /\ round \in Int /\ sys_prompt \in SysPrompts
      /\ context \in Seq(Items) /\ output \in Seq(Piece) /\ tool_input \in Seq(Piece)
      /\ Len(context) \in Int
  BY InvSays
<1>4. /\ a \in Seq(Message) /\ Len(a) = Len(history) + 1
      /\ \A i \in 1 .. Len(history) : a[i] = history[i]
      /\ a[Len(a)].role = "Assistant" /\ a[Len(a)].content = output
      /\ a[Len(a)].tok_pos = Len(context) /\ Shape(a, round)
  <2>1. a = WithTokPos(Pushed(history, "Assistant", output, round), Len(context))
    BY <1>2 DEF Answered, TokPos
  <2>. HIDE DEF a
  <2>2. history # <<>> /\ history[Len(history)].role # "Assistant"
    BY <1>2 DEF Asked
  <2>. DEFINE pos == Len(context)
  <2>3. pos \in Int /\ a = WithTokPos(Pushed(history, "Assistant", output, round), pos)
    BY <1>3, <2>1
  <2>. HIDE DEF pos
  <2>4. AnswerAdded(history, a, output, pos) /\ Shape(a, round)
    <3>1. /\ history \in Seq(Message) /\ round \in Int /\ output \in Seq(Piece)
          /\ Shape(history, round)
      BY <1>2, <1>3
    <3>. QED BY ONLY <2>2, <2>3, <3>1, AnsweredIs, Zenon
  <2>. QED BY ONLY <2>4 DEF AnswerAdded, pos
<1>. HIDE DEF a
<1>5. /\ history' \in Seq(Message) /\ Alike(a, history', Len(a)) /\ Shape(history', round')
      /\ \A i \in 1 .. Len(a) : history'[i] = a[i]
      /\ Len(history') \in {Len(a), Len(a) + 1}
      /\ \A i \in 1 .. Len(history') : history'[i].tok_pos >= 0 =>
           i \in 1 .. Len(a) /\ history'[i].tok_pos = a[i].tok_pos
      /\ tool_input = <<>> => history' = a
      /\ tool_input # <<>> => history' # <<>> /\ history'[Len(history')].role = "Tool"
  <2>1. CASE tool_input = <<>>
    <3>1. history' = a /\ round' = round
      BY <1>1, <2>1
    <3>2. Alike(a, a, Len(a)) /\ Len(a) \in Nat
      BY <1>4 DEF Alike
    <3>. QED BY <1>4, <2>1, <3>1, <3>2
  <2>2. CASE tool_input # <<>>
    <3>. DEFINE g == Len(a)
                p == Pushed(a, "Tool", tool_input, round)
    <3>1. "Tool" \in Role /\ history' = p /\ round' = RoundAfter(a, "Tool", round)
      BY <1>1, <2>2 DEF Role
    <3>2. g \in 0 .. Len(a) /\ g = GivenAt(a, g) /\ a[g].role = "Assistant" /\ a # <<>>
      BY <1>3, <1>4 DEF GivenAt
    <3>. HIDE DEF g
    <3>3. /\ \A i \in 1 .. g : p[i] = a[i]
          /\ Alike(a, p, g) /\ p # <<>> /\ p[Len(p)].role = "Tool"
          /\ Len(p) \in {Len(a), Len(a) + 1}
          /\ \A i \in 1 .. Len(p) : p[i].tok_pos >= 0 =>
               i \in 1 .. Len(a) /\ p[i].tok_pos = a[i].tok_pos
      <4>1. /\ a \in Seq(Message) /\ tool_input \in Seq(Piece) /\ round \in Int
            /\ "Tool" \in Role /\ "Tool" # "Assistant"
        BY <1>3, <1>4, <3>1
      <4>2. p = Pushed(a, "Tool", tool_input, round)
        OBVIOUS
      <4>. HIDE DEF p
      <4>3. /\ \A i \in 1 .. g : p[i] = a[i]
            /\ Alike(a, p, g) /\ p # <<>> /\ p[Len(p)].role = "Tool"
            /\ Len(p) \in {Len(a), Len(a) + 1}
            /\ \A i \in 1 .. Len(p) : p[i].tok_pos >= 0 =>
                 i \in 1 .. Len(a) /\ p[i].tok_pos = a[i].tok_pos
        BY ONLY <3>2, <4>1, <4>2, PushGives, SMTT(60)
      <4>. QED BY <4>3
    <3>4. p \in Seq(Message)
      BY <1>3, <1>4, <3>1, PushedType
    <3>5. Shape(p, round')
      BY <1>3, <1>4, <3>1, <3>2, ShapePushed
    <3>. HIDE DEF p
    <3>. QED BY <2>2, <3>1, <3>3, <3>4, <3>5 DEF g
  <2>. QED BY <2>1, <2>2
<1>6. Given' = Len(a) /\ Given' \in 1 .. Len(history') /\ history'[Len(a)].role = "Assistant"
  <2>1. Len(a) \in 1 .. Len(a) /\ Len(a) <= Len(history') /\ Len(history') \in Nat
        /\ Len(history) < Len(history') /\ Len(history) + 1 = Len(a)
    BY <1>3, <1>4, <1>5
  <2>2. history'[Len(a)].role = "Assistant"
    BY <1>4, <1>5, <2>1 DEF Alike
  <2>. QED BY <1>1, <1>2, <2>1, <2>2 DEF Given
<1>7. Turns'
  <2>1. Given' # 0 /\ history'[Given'].role = "Assistant"
    BY <1>6
  <2>2. pc' = "chat" => Asked'
    BY <1>1, <1>5 DEF Asked
  <2>. QED BY <1>1, <2>1, <2>2 DEF Turns, AtRest, Speaking
<1>8. Small'
  <2>1. ASSUME "continue" \in program.calls
        PROVE  /\ Short(history') /\ Len(history') <= MaxMessages + 1 /\ pc' = "idle"
               /\ Given' = Len(history') /\ tool_input' = <<>> /\ ~parted
    <3>1. /\ tool_input = <<>> /\ Len(history) <= MaxMessages /\ Short(history) /\ ~parted
      BY <1>1, <1>2, <2>1 DEF Orderly, Small
    <3>2. history' = a /\ pc' = "idle"
      BY <1>1, <1>5, <3>1
    <3>3. Len(a) <= MaxMessages + 1
      BY <1>3, <1>4, <3>1, MessagesAssumption
    <3>4. Short(a)
      <4>1. Len(output) <= program.answers /\ program.answers \in 0 .. MaxPieces
        BY InvSays, ProgramType DEF ConversationInv, TypeOK
      <4>3. Len(output) <= MaxPieces
        <5>1. Len(output) \in Nat /\ MaxPieces \in Nat
          BY <1>3, MessagesAssumption
        <5>. QED BY <4>1, <5>1
      <4>4. \A i \in 1 .. Len(a) : i \in 1 .. Len(history) \/ i = Len(a)
        BY <1>3, <1>4
      <4>. QED BY <1>4, <3>1, <4>3, <4>4 DEF Short
    <3>. QED BY <1>1, <1>6, <3>1, <3>2, <3>3, <3>4
  <2>. QED BY <1>1, <1>2, <2>1 DEF Small, Speaking, Short
<1>9. Skips'
  <2>1. Len(a) # 0
    BY <1>3, <1>4
  <2>2. SessionOf(a).history_len # 0
    BY <2>1 DEF SessionOf
  <2>. QED BY <1>1, <2>2 DEF Orderly, Skips, Sys, Item
<1>10. ASSUME ~parted
       PROVE  \E start \in Nat, k \in Seq(Message) : Rests(start, k)'
  <2>1. PICK start \in Nat, k \in Seq(Message) : Spoke(start, k)
    BY <1>1, <1>2, <1>10 DEF Followed
  <2>2. PICK p \in Spellings, c \in Cuts :
          context = (Told(k, sys_prompt, start, Len(history)) \o Opening(p)) \o Spoken(Heard(c))
    BY <2>1 DEF Spoke
  <2>. DEFINE n == Len(history)
              g == Len(a)
  <2>3. /\ Given = n /\ n \in Nat /\ g = n + 1 /\ Len(k) = n /\ Tells(k, history, n)
        /\ start < n /\ start \in 0 .. n - 1 /\ start < g /\ Whole(start)
    <3>1. Given = n /\ n \in Nat /\ g = n + 1
      BY <1>2, <1>3, <1>4 DEF Given
    <3>2. start < n /\ Tells(k, history, n) /\ Whole(start)
      BY <2>1, <3>1 DEF Spoke, Speaks
    <3>3. Len(k) = n
      BY <3>2 DEF Tells
    <3>. QED BY <3>1, <3>2, <3>3
  <2>4. PICK b \in Seq(Message) :
          /\ Tells(b, a, Len(a)) /\ \A i \in 1 .. n : b[i] = k[i]
          /\ b[g] = KnownAs(a[g], p, c)
    <3>1. a[Len(a)].tok_pos >= 0
      BY <1>3, <1>4
    <3>2. /\ Tells(k, history, Len(history)) /\ a \in Seq(Message) /\ history \in Seq(Message)
          /\ Len(a) = Len(history) + 1 /\ \A i \in 1 .. Len(history) : a[i] = history[i]
      BY <1>3, <1>4, <2>3
    <3>3. p \in Spellings /\ c \in Cuts
      OBVIOUS
    <3>4. \E q \in Seq(Message) :
            /\ Tells(q, a, Len(a)) /\ \A i \in 1 .. Len(history) : q[i] = k[i]
            /\ q[Len(a)] = KnownAs(a[Len(a)], p, c)
      BY ONLY <3>1, <3>2, <3>3, TellsAnswer, SMTT(60)
    <3>. QED BY <3>4
  <2>5. PICK q \in Seq(Message) : Tells(q, history', g) /\ Retells(q, b, history', g)
    <3>. DEFINE j == history'
    <3>1. /\ j \in Seq(Message) /\ g \in Nat /\ g <= Len(a) /\ g <= Len(j)
          /\ \A i \in 1 .. g : j[i] = a[i]
      BY <1>5, <2>3 DEF Alike
    <3>2. Tells(b, a, g) /\ a \in Seq(Message) /\ \A i \in 1 .. g : i <= g => i <= g
      BY <1>4, <2>4
    <3>. HIDE DEF g, j
    <3>3. \E q \in Seq(Message) : Tells(q, j, g) /\ Retells(q, b, j, g)
      BY ONLY <3>1, <3>2, TellsOther
    <3>. QED BY <3>3 DEF j
  <2>6. /\ Len(b) = g /\ b[g].role = "Assistant"
        /\ b[g].content = p \o Heard(c) /\ p \in Seq(Piece) /\ Heard(c) \in Seq(Piece)
    <3>1. p \in Seq(Piece) /\ c \in BOOLEAN
      BY SpellingsType
    <3>2. a[g] \in Message
      BY <1>4, <2>3
    <3>3. /\ KnownAs(a[g], p, c).role = a[g].role
          /\ KnownAs(a[g], p, c).content = p \o (IF c THEN Run(a[g].content) ELSE a[g].content)
      BY <3>1, <3>2, KnownAsType
    <3>4. Heard(c) \in Seq(Piece)
      BY <1>3, RunType DEF Heard
    <3>5. Len(b) = g
      BY <2>4 DEF Tells
    <3>. HIDE DEF KnownAs, g
    <3>6. b[g].role = "Assistant" /\ a[g].content = output
      BY <1>4, <2>4, <3>3 DEF g
    <3>7. b[g].content = p \o Heard(c)
      BY <2>4, <3>3, <3>6 DEF Heard
    <3>. QED BY <3>1, <3>4, <3>5, <3>6, <3>7
  <2>7. Told(b, sys_prompt, start, g) = context
    <3>. DEFINE d == Heard(c)
    <3>1. d \in Seq(Piece) /\ b[g].content = p \o d
      BY <2>6
    <3>. HIDE DEF d
    <3>2. Told(b, sys_prompt, start, Len(b)) =
            (Told(k, sys_prompt, start, Len(k)) \o (<<Open>> \o Spoken(p))) \o Spoken(d)
      <4>1. /\ sys_prompt \in SysPrompts /\ Len(b) = Len(k) + 1
            /\ \A i \in 1 .. Len(k) : b[i] = k[i]
            /\ p \in Seq(Piece) /\ d \in Seq(Piece) /\ b[Len(b)].role = "Assistant"
            /\ b[Len(b)].content = p \o d /\ start \in 0 .. Len(k) - 1
        BY <1>3, <2>3, <2>4, <2>6, <3>1
      <4>2. k \in Seq(Message) /\ b \in Seq(Message)
        OBVIOUS
      <4>. QED BY ONLY <4>1, <4>2, AnswerTold
    <3>3. Opening(p) = <<Open>> \o Spoken(p)
      BY <1>1 DEF Opening
    <3>. QED BY <2>2, <2>3, <2>6, <3>2, <3>3 DEF d
  <2>8. /\ Alike(b, q, g) /\ \A i \in 1 .. g : q[i] = b[i]
        /\ \A i \in 1 .. Len(history') : q[i].tok_pos = history'[i].tok_pos
    <3>. DEFINE j == history'
    <3>1. j \in Seq(Message) /\ Tells(q, j, g)
      BY <1>5, <2>5
    <3>. HIDE DEF j, g
    <3>2. \A i \in 1 .. Len(j) : q[i].tok_pos = j[i].tok_pos
      BY ONLY <3>1, TellsSame
    <3>. QED BY <2>5, <3>2 DEF Retells, j
  <2>9. Told(q, sys_prompt, start, g) = context
    <3>1. g \in Nat /\ start \in 0 .. g
      BY <2>3
    <3>. HIDE DEF g
    <3>2. Told(b, sys_prompt, start, g) = Told(q, sys_prompt, start, g)
      BY <2>8, <3>1, ToldAlike
    <3>. QED BY <2>7, <3>2
  <2>10. ASSUME program.extending = "none"
         PROVE  Marks(q, sys_prompt, start, g, Len(history'))
    <3>1. Marks(k, sys_prompt, start, n, n)
      BY <1>1, <2>1, <2>3, <2>10 DEF Spoke, Speaks, Marked
    <3>. SUFFICES ASSUME NEW i \in 1 .. Len(history'), q[i].tok_pos >= 0
                  PROVE  /\ start < i /\ i <= g
                         /\ q[i].tok_pos = Len(Told(q, sys_prompt, start, i))
      BY DEF Marks
    <3>2. i \in 1 .. g /\ q[i].tok_pos = a[i].tok_pos
      BY <1>5, <2>8
    <3>3. CASE i = g
      BY <1>4, <2>3, <2>9, <3>2, <3>3
    <3>4. CASE i \in 1 .. n
      <4>1. q[i] = k[i] /\ k[i].tok_pos >= 0
        BY <2>4, <2>8, <3>2, <3>4
      <4>2. start < i /\ k[i].tok_pos = Len(Told(k, sys_prompt, start, i))
        BY <3>1, <3>4, <4>1 DEF Marks
      <4>3. start \in 0 .. i /\ i \in Nat /\ Alike(k, q, i)
        <5>1. \A r \in 1 .. i : q[r] = k[r]
          BY <2>3, <2>4, <2>8, <3>4
        <5>2. i <= Len(k) /\ i <= Len(q)
          BY <2>3, <2>8, <3>4 DEF Alike
        <5>. QED BY <3>4, <4>2, <5>1, <5>2 DEF Alike
      <4>4. Told(k, sys_prompt, start, i) = Told(q, sys_prompt, start, i)
        BY <4>3, ToldAlike
      <4>. QED BY <2>3, <3>2, <3>4, <4>1, <4>2, <4>4
    <3>5. i = g \/ i \in 1 .. n
      BY <2>3, <3>2, SMTT(40)
    <3>. QED BY <3>3, <3>4, <3>5
  <2>11. Given' = g
    BY <1>6
  <2>12. Marked(start, q, Len(history))'
    BY <1>1, <2>10, <2>11 DEF Marked
  <2>13. Whole(start)'
    BY <1>1, <2>3 DEF Whole
  <2>14. Tells(q, history, Given)'
    BY <1>1, <2>5, <2>11 DEF Tells, Spellings, Cuts, Allowed
  <2>15. Rests(start, q)'
    BY <1>1, <2>3, <2>9, <2>11, <2>12, <2>13, <2>14 DEF Rests
  <2>. QED BY <2>15
<1>11. Followed'
  BY <1>1, <1>10 DEF Followed, AtRest
<1>. QED BY <1>1, <1>5, <1>7, <1>8, <1>9, <1>11 DEF Orderly

\* What an answer that is continued is, in the history.
AddedTo(h, k, texts) ==
    /\ k \in Seq(Message) /\ Len(k) = Len(h) /\ \A i \in 1 .. Len(h) - 1 : k[i] = h[i]
    /\ k[Len(h)].role = h[Len(h)].role /\ k[Len(h)].round = h[Len(h)].round
    /\ k[Len(h)].content = h[Len(h)].content \o texts

LEMMA AddedIs ==
    ASSUME NEW h \in Seq(Message), h # <<>>, NEW texts \in Seq(Piece),
           NEW k, k = AddToLast(h, texts)
    PROVE  AddedTo(h, k, texts) /\ k[Len(h)].tok_pos = h[Len(h)].tok_pos
<1>1. Len(h) \in DOMAIN h /\ h[Len(h)] \in Message
  OBVIOUS
<1>2. k \in Seq(Message) /\ Len(k) = Len(h)
  BY AddToLastType
<1>3. k = [h EXCEPT ![Len(h)].content = h[Len(h)].content \o texts]
  BY DEF AddToLast
<1>4. \A i \in 1 .. Len(h) - 1 : k[i] = h[i]
  BY <1>1, <1>3
<1>5. k[Len(h)] = [h[Len(h)] EXCEPT !.content = h[Len(h)].content \o texts]
  BY <1>1, <1>3
<1>6. /\ k[Len(h)].role = h[Len(h)].role /\ k[Len(h)].round = h[Len(h)].round
      /\ k[Len(h)].content = h[Len(h)].content \o texts
      /\ k[Len(h)].tok_pos = h[Len(h)].tok_pos
  BY <1>1, <1>5 DEF Message
<1>. QED BY <1>2, <1>4, <1>6 DEF AddedTo

LEMMA MarkedAddedIs ==
    ASSUME NEW h \in Seq(Message), h # <<>>, NEW texts \in Seq(Piece), NEW pos \in Int,
           NEW k, k = WithTokPos(AddToLast(h, texts), pos)
    PROVE  AddedTo(h, k, texts) /\ k[Len(h)].tok_pos = pos
<1>. DEFINE p == AddToLast(h, texts)
<1>1. AddedTo(h, p, texts)
  BY AddedIs
<1>. HIDE DEF p
<1>2. /\ p \in Seq(Message) /\ Len(p) = Len(h) /\ Len(h) \in DOMAIN p /\ p # <<>>
      /\ p[Len(h)] \in Message
  BY <1>1 DEF AddedTo
<1>3. k = [p EXCEPT ![Len(h)].tok_pos = pos]
  BY <1>2 DEF WithTokPos, p
<1>4. k \in Seq(Message) /\ Len(k) = Len(h)
  BY <1>2, WithTokPosType DEF p
<1>5. \A i \in 1 .. Len(h) - 1 : k[i] = h[i]
  BY <1>1, <1>2, <1>3 DEF AddedTo
<1>6. k[Len(h)] = [p[Len(h)] EXCEPT !.tok_pos = pos]
  BY <1>2, <1>3
<1>7. /\ k[Len(h)].role = p[Len(h)].role /\ k[Len(h)].round = p[Len(h)].round
      /\ k[Len(h)].content = p[Len(h)].content /\ k[Len(h)].tok_pos = pos
  BY <1>2, <1>6 DEF Message
<1>. QED BY <1>1, <1>4, <1>5, <1>7 DEF AddedTo

\* The shape of the history stays, and its last message is as short as said.
LEMMA AddedKeeps ==
    ASSUME NEW h \in Seq(Message), h # <<>>, NEW texts \in Seq(Piece), NEW rnd \in Int,
           NEW k, AddedTo(h, k, texts), Shape(h, rnd), h[Len(h)].role = "Assistant"
    PROVE  /\ Shape(k, rnd) /\ k # <<>> /\ k[Len(k)].role = "Assistant"
           /\ Len(k[Len(k)].content) = Len(h[Len(h)].content) + Len(texts)
           /\ Short(h) /\ Len(k[Len(k)].content) <= MaxPieces => Short(k)
<1>1. /\ k \in Seq(Message) /\ Len(k) = Len(h) /\ \A i \in 1 .. Len(h) - 1 : k[i] = h[i]
      /\ k[Len(h)].role = h[Len(h)].role /\ k[Len(h)].round = h[Len(h)].round
      /\ k[Len(h)].content = h[Len(h)].content \o texts
  BY DEF AddedTo
<1>2. \A i \in 1 .. Len(h) : i \in 1 .. Len(h) - 1 \/ i = Len(h)
  OBVIOUS
<1>3. ASSUME NEW i \in 1 .. Len(h)
      PROVE  /\ k[i].role = h[i].role /\ k[i].round = h[i].round
             /\ k[i].tok_pos >= 0 => k[i].role = "Assistant"
  <2>1. CASE i \in 1 .. Len(h) - 1
    BY <1>1, <2>1 DEF Shape
  <2>2. CASE i = Len(h)
    BY <1>1, <2>2
  <2>. QED BY <1>2, <2>1, <2>2
<1>4. Shape(k, rnd)
  BY <1>1, <1>3, ShapeKept
<1>5. k # <<>> /\ Len(h) \in DOMAIN h /\ h[Len(h)] \in Message
  BY <1>1
<1>6. h[Len(h)].content \in Seq(Piece)
  BY <1>5 DEF Message
<1>7. Len(k[Len(k)].content) = Len(h[Len(h)].content) + Len(texts)
  <2>. DEFINE c == h[Len(h)].content
  <2>1. c \in Seq(Piece) /\ k[Len(k)].content = c \o texts
    BY <1>1, <1>6
  <2>. HIDE DEF c
  <2>2. Len(c \o texts) = Len(c) + Len(texts)
    BY ONLY <2>1, texts \in Seq(Piece)
  <2>. QED BY <2>1, <2>2 DEF c
<1>8. Short(h) /\ Len(k[Len(k)].content) <= MaxPieces => Short(k)
  BY <1>1, <1>2 DEF Short
<1>. QED BY <1>1, <1>4, <1>5, <1>7, <1>8

\* chatllm_ai_continue: the model goes on behind the text that is put to its answer.
LEMMA AiContinueFollowed ==
    ASSUME ConversationInv, Kept, Orderly, Followed, "continue" \in program.calls,
           NEW text \in Piece, AiContinue(text)
    PROVE  Orderly' /\ Followed'
<1>. DEFINE c == <<text>>
<1>1. /\ pc = "idle" /\ history # <<>> /\ history[Len(history)].role = "Assistant"
      /\ Len(history[Len(history)].content) + 1 + program.answers <= MaxPieces
      /\ context' = RewoundTo(Len(EncodeHistory(history, program.max_length, FALSE, FALSE)))
      /\ cursor' = Len(history) /\ history' = AddToLast(history, c)
      /\ input_ids' = <<Item("Assistant", text)>>
      /\ call' = "continue" /\ pc' = "generate"
      /\ UNCHANGED <<program, round, initializing, sys_prompt, skip_sys_prompt, ai_prefix,
                     tool_input, file, parted>>
  BY DEF AiContinue, LastMessage, promptVars, sessionVars
<1>2. /\ history \in Seq(Message) /\ round \in Int /\ sys_prompt \in SysPrompts
      /\ context \in Seq(Items) /\ cursor \in Nat /\ program.max_length \in Nat
      /\ MaxPieces \in Nat /\ initializing \in BOOLEAN /\ program.answers \in Nat
  BY InvSays, ProgramType, MessagesAssumption DEF ConversationInv, TypeOK
<1>3. c \in Seq(Piece) /\ Len(c) = 1
  OBVIOUS
<1>4. Spoken(c) = input_ids'
  <2>1. \A i \in DOMAIN c : i = 1 /\ c[i] = text
    OBVIOUS
  <2>2. DOMAIN c = {1}
    OBVIOUS
  <2>. HIDE DEF c
  <2>3. Spoken(c) = [i \in {1} |-> Item("Assistant", text)]
    BY <2>1, <2>2 DEF Spoken
  <2>4. <<Item("Assistant", text)>> = [i \in {1} |-> Item("Assistant", text)]
    OBVIOUS
  <2>. QED BY <1>1, <2>3, <2>4
<1>. HIDE DEF c
<1>5. /\ AddedTo(history, history', c)
      /\ history'[Len(history)].tok_pos = history[Len(history)].tok_pos
  BY <1>1, <1>2, <1>3, AddedIs
<1>6. /\ Shape(history', round) /\ history' # <<>> /\ Len(history') = Len(history)
      /\ history'[Len(history')].role = "Assistant"
      /\ Len(history'[Len(history')].content) = Len(history[Len(history)].content) + Len(c)
      /\ Short(history) /\ Len(history'[Len(history')].content) <= MaxPieces => Short(history')
      /\ history' \in Seq(Message)
  <2>1. Shape(history, round)
    BY DEF Orderly
  <2>2. Len(history') = Len(history) /\ history' \in Seq(Message)
    BY <1>5 DEF AddedTo
  <2>. QED BY <1>1, <1>2, <1>3, <1>5, <2>1, <2>2, AddedKeeps
<1>7. /\ Len(history'[Len(history)].content) + program.answers <= MaxPieces
      /\ Len(history'[Len(history')].content) <= MaxPieces
  <2>1. history[Len(history)] \in Message
    BY <1>1, <1>2
  <2>2. history[Len(history)].content \in Seq(Piece)
    BY <2>1 DEF Message
  <2>3. PICK n \in Nat : n = Len(history[Len(history)].content)
    BY <2>2
  <2>4. Len(history'[Len(history')].content) = n + 1 /\ n + 1 + program.answers <= MaxPieces
    BY <1>1, <1>3, <1>6, <2>3
  <2>. QED BY <1>2, <1>6, <2>4
<1>8. /\ ~initializing /\ ~parted /\ ~skip_sys_prompt /\ Given = Len(history)
      /\ Short(history) /\ Len(history) <= MaxMessages + 1 /\ tool_input = <<>>
      /\ "save" \notin program.calls
  <2>1. "save" \notin program.calls
    BY DEF Kept, KeepsSkipping
  <2>. QED BY <1>1, <1>2, <2>1 DEF Orderly, Small, Skips
<1>9. Given' = Len(history)
  BY <1>1, <1>2, <1>6 DEF Given
<1>10. Turns'
  BY <1>1, <1>6, <1>7, <1>8 DEF Turns, AtRest, Speaking, Replied
<1>11. Small'
  <2>1. Short(history')
    BY <1>2, <1>6, <1>7, <1>8
  <2>. QED BY <1>1, <1>6, <1>8, <2>1 DEF Small, Speaking, Short
<1>12. Skips'
  BY <1>1 DEF Orderly, Skips, Sys, Item
<1>13. PICK start \in Nat, k \in Seq(Message) : Rests(start, k)
  BY <1>1, <1>8 DEF Followed, AtRest
<1>20. k = history
  <2>1. program.calls \cap {"abort", "prefix"} = {}
    BY DEF Kept, LeavesHistory
  <2>2. Tells(k, history, Given)
    BY <1>13 DEF Rests
  <2>. QED BY <1>2, <2>1, <2>2, TellsPlainly
<1>14. /\ start \in 0 .. Len(history) - 1 /\ Len(history) \in 1 .. Len(history)
       /\ context = Told(history, sys_prompt, start, Len(history))
  BY <1>1, <1>2, <1>8, <1>13, <1>20 DEF Rests
<1>15. context' = context
  <2>1. HistoryStart(history, program.max_length \div 2) = 0
    <3>. DEFINE n == program.max_length \div 2
    <3>1. n \in Nat /\ n > (MaxMessages + 1) * MaxPieces
      BY <1>2 DEF Kept, LeavesHistory, IsWide
    <3>. HIDE DEF n
    <3>2. HistoryStart(history, n) = 0
      BY <1>2, <1>8, <3>1, WideStart
    <3>. QED BY <3>2 DEF n
  <2>. DEFINE all == Told(history, sys_prompt, 0, Len(history))
  <2>2. all \in Seq(Items)
    <3>1. Len(history) \in 0 .. Len(history) /\ 0 \in 0 .. Len(history)
      BY <1>2
    <3>. QED BY <1>2, <3>1, ToldType
  <2>3. EncodeHistory(history, program.max_length, FALSE, FALSE) = all
    <3>1. EncodeHistory(history, program.max_length, FALSE, FALSE) = all \o <<>>
      BY <1>1, <1>2, <1>8, <2>1, EncodedWhole
    <3>2. all \o <<>> = all
      <4>. HIDE DEF all
      <4>. QED BY ONLY <2>2
    <3>. QED BY <3>1, <3>2
  <2>4. Len(context) <= Len(all)
    <3>1. history[1].round = 0
      BY <1>1 DEF Orderly, Shape
    <3>2. Len(Told(history, sys_prompt, start, Len(history))) <= Len(all)
      BY <1>2, <1>14, <3>1, ToldLongest
    <3>. QED BY <1>14, <3>2
  <2>. HIDE DEF all
  <2>5. ~(Len(context) > Len(all))
    BY <1>2, <2>2, <2>4
  <2>. QED BY <1>1, <2>3, <2>5 DEF RewoundTo
<1>16. context' \o input_ids' = Told(history', sys_prompt, start, Len(history)) \o Opening(ai_prefix)'
  <2>. DEFINE told == Told(history', sys_prompt, start, Len(history))
  <2>1. told = context \o Spoken(c)
    <3>1. /\ Len(history') = Len(history) /\ (\A i \in 1 .. Len(history) - 1 : history'[i] = history[i])
          /\ history'[Len(history)].round = history[Len(history)].round
          /\ history'[Len(history)].role = "Assistant"
          /\ history'[Len(history)].content = history[Len(history)].content \o c
      BY <1>1, <1>5 DEF AddedTo
    <3>2. told = Told(history, sys_prompt, start, Len(history)) \o Spoken(c)
      BY <1>1, <1>2, <1>3, <1>6, <1>14, <3>1, ToldMore
    <3>. QED BY <1>14, <3>2
  <2>2. Opening(ai_prefix)' = <<>>
    BY <1>1 DEF Opening
  <2>3. told \in Seq(Items)
    <3>1. Len(history) \in 0 .. Len(history') /\ start \in 0 .. Len(history)
      BY <1>2, <1>6, <1>14
    <3>. QED BY <1>2, <1>6, <3>1, ToldType
  <2>. HIDE DEF told
  <2>4. told \o <<>> = told
    BY <2>3
  <2>5. context' \o input_ids' = told /\ told \o Opening(ai_prefix)' = told
    BY <1>4, <1>15, <2>1, <2>2, <2>4
  <2>. QED BY <2>5 DEF told
<1>17. PICK j \in Seq(Message) : j = history'
  BY <1>6
<1>18. Marked(start, j, Len(history) - 1)'
  <2>1. ASSUME program.extending = "none"
        PROVE  Marks(j, sys_prompt, start, Len(history), Len(history) - 1)
    <3>. DEFINE n == Len(history)
                m == Len(history) - 1
    <3>1. Marks(history, sys_prompt, start, n, n)
      BY <1>8, <1>13, <1>20, <2>1 DEF Rests, Marked
    <3>2. /\ n \in Nat /\ m \in Nat /\ m <= n /\ Alike(history, j, m)
          /\ \A i \in 1 .. m : j[i] = history[i] /\ i <= n /\ i <= m
      BY <1>2, <1>5, <1>6, <1>14, <1>17 DEF AddedTo, Alike
    <3>. HIDE DEF n, m
    <3>3. Marks(j, sys_prompt, start, n, m)
      BY <1>2, <3>1, <3>2, MarksStay
    <3>. QED BY <3>3 DEF n, m
  <2>2. /\ program' = program /\ sys_prompt' = sys_prompt /\ Given' = Len(history)
        /\ Len(history') = Len(history)
    BY <1>1, <1>6, <1>9
  <2>. QED BY ONLY <2>1, <2>2 DEF Marked
<1>21. Asks(start, j)'
  <2>1. Whole(start)'
    BY <1>1, <1>13 DEF Rests, Whole
  <2>2. Tells(j, history, Given)'
    BY <1>6, <1>17 DEF Tells
  <2>3. Speaks(start, j)'
    BY <1>1, <1>6, <1>14, <1>18, <2>1, <2>2 DEF Speaks
  <2>. QED BY <1>1, <1>6, <1>16, <1>17, <2>3 DEF Asks
<1>19. Followed'
  BY <1>1, <1>21 DEF Followed, AtRest
<1>. QED BY <1>1, <1>6, <1>10, <1>11, <1>12, <1>19 DEF Orderly

\* The end of a continued answer.
LEMMA ContinuedFollowed ==
    ASSUME ConversationInv, Kept, Orderly, Followed, Continued
    PROVE  Orderly' /\ Followed'
<1>1. /\ pc = "done" /\ call = "continue" /\ pc' = "idle"
      /\ history' = WithTokPos(AddToLast(history, output), TokPos)
      /\ UNCHANGED <<program, cursor, round, context, initializing, sys_prompt,
                     skip_sys_prompt, ai_prefix, tool_input, file, call, output, parted>>
  BY DEF Continued, promptVars, sessionVars, callVars
<1>2. /\ history \in Seq(Message) /\ round \in Int /\ sys_prompt \in SysPrompts
      /\ context \in Seq(Items) /\ cursor \in Nat /\ output \in Seq(Piece)
      /\ MaxPieces \in Nat /\ Len(context) \in Int /\ program.answers \in Nat
      /\ Len(output) <= program.answers
  BY InvSays, ProgramType, MessagesAssumption DEF ConversationInv, TypeOK
<1>3. /\ Speaking /\ ~initializing /\ cursor = Len(history) /\ history # <<>>
      /\ history[Len(history)].role = "Assistant" /\ Shape(history, round)
      /\ Len(history[Len(history)].content) + program.answers <= MaxPieces
      /\ "continue" \in program.calls
  BY <1>1 DEF Orderly, Turns, Speaking, Replied
<1>4. AddedTo(history, history', output) /\ history'[Len(history)].tok_pos = Len(context)
  <2>. DEFINE pos == Len(context)
  <2>1. history' = WithTokPos(AddToLast(history, output), pos) /\ pos \in Int
    BY <1>1, <1>2, <1>3 DEF TokPos
  <2>. HIDE DEF pos
  <2>2. AddedTo(history, history', output) /\ history'[Len(history)].tok_pos = pos
    BY <1>2, <1>3, <2>1, MarkedAddedIs
  <2>. QED BY <2>2 DEF pos
<1>5. Len(history') = Len(history) /\ history' \in Seq(Message)
  BY <1>4 DEF AddedTo
<1>6. /\ Shape(history', round) /\ history' # <<>>
      /\ history'[Len(history')].role = "Assistant"
      /\ Len(history'[Len(history')].content) = Len(history[Len(history)].content) + Len(output)
      /\ Short(history) /\ Len(history'[Len(history')].content) <= MaxPieces => Short(history')
  BY <1>2, <1>3, <1>4, AddedKeeps
<1>7. Given' = Len(history) /\ Len(history) \in 1 .. Len(history)
  BY <1>1, <1>2, <1>3, <1>5 DEF Given
<1>8. Turns'
  <2>1. Given' # 0 /\ history'[Given'].role = "Assistant"
    BY <1>5, <1>6, <1>7
  <2>. QED BY <1>1, <2>1 DEF Turns, AtRest, Speaking
<1>9. Small'
  <2>1. /\ Short(history) /\ Len(history) <= MaxMessages + 1 /\ tool_input = <<>> /\ ~parted
    BY <1>3 DEF Orderly, Small
  <2>2. Short(history')
    <3>1. history[Len(history)] \in Message
      BY <1>2, <1>3
    <3>2. history[Len(history)].content \in Seq(Piece)
      BY <3>1 DEF Message
    <3>3. PICK n \in Nat : n = Len(history[Len(history)].content)
      BY <3>2
    <3>4. PICK o \in Nat : o = Len(output)
      BY <1>2
    <3>5. Len(history'[Len(history')].content) = n + o /\ n + program.answers <= MaxPieces
          /\ o <= program.answers
      BY <1>2, <1>3, <1>6, <3>3, <3>4
    <3>6. Len(history'[Len(history')].content) <= MaxPieces
      BY <1>2, <3>5
    <3>. QED BY <1>6, <2>1, <3>6
  <2>. QED BY <1>1, <1>3, <1>5, <1>7, <2>1, <2>2 DEF Small, Speaking, Short
<1>10. Skips'
  BY <1>1 DEF Orderly, Skips, Sys, Item
<1>11. ASSUME ~parted
       PROVE  \E start \in Nat, k \in Seq(Message) : Rests(start, k)'
  <2>1. PICK start \in Nat, k \in Seq(Message) : Spoke(start, k)
    BY <1>1, <1>3, <1>11 DEF Followed
  <2>0. k = history /\ Cuts = {FALSE} /\ Given = Len(history)
    <3>1. program.calls \cap {"abort", "prefix"} = {}
      BY <1>3 DEF Kept, LeavesHistory
    <3>2. Tells(k, history, Given)
      BY <2>1 DEF Spoke, Speaks
    <3>3. k = history
      BY <1>2, <3>1, <3>2, TellsPlainly
    <3>4. Cuts = {FALSE}
      BY <3>1, SpellingsType
    <3>5. Given = Len(history)
      BY <1>2, <1>3 DEF Given
    <3>. QED BY <3>3, <3>4, <3>5
  <2>2. start \in 0 .. Len(history) - 1
    BY <1>2, <2>1 DEF Spoke, Speaks
  <2>. DEFINE told == Told(history, sys_prompt, start, Len(history))
  <2>3. context = told \o Spoken(output)
    <3>1. told \in Seq(Items)
      <4>1. Len(history) \in 0 .. Len(history) /\ start \in 0 .. Len(history)
        BY <1>2, <2>2
      <4>. QED BY <1>2, <4>1, ToldType
    <3>2. told \o <<>> = told
      <4>. HIDE DEF told
      <4>. QED BY ONLY <3>1
    <3>3. \A p : Opening(p) = <<>>
      BY <1>1 DEF Opening
    <3>4. PICK p \in Spellings, c \in Cuts :
            context = (told \o Opening(p)) \o Spoken(Heard(c))
      BY <2>0, <2>1 DEF Spoke
    <3>5. Heard(c) = output
      BY <2>0 DEF Heard
    <3>. QED BY <3>2, <3>3, <3>4, <3>5
  <2>4. context = Told(history', sys_prompt, start, Len(history))
    <3>1. /\ (\A i \in 1 .. Len(history) - 1 : history'[i] = history[i])
          /\ history'[Len(history)].round = history[Len(history)].round
          /\ history'[Len(history)].role = "Assistant"
          /\ history'[Len(history)].content = history[Len(history)].content \o output
      BY <1>3, <1>4 DEF AddedTo
    <3>2. Told(history', sys_prompt, start, Len(history)) = told \o Spoken(output)
      BY <1>2, <1>3, <1>5, <2>2, <3>1, ToldMore
    <3>. QED BY <2>3, <3>2
  <2>5. PICK j \in Seq(Message) : j = history'
    BY <1>5
  <2>6. ASSUME program.extending = "none"
        PROVE  Marks(j, sys_prompt, start, Len(history), Len(history))
    <3>. DEFINE n == Len(history)
                m == Len(history) - 1
    <3>1. Marks(history, sys_prompt, start, n, m)
      BY <1>1, <2>0, <2>1, <2>6 DEF Spoke, Speaks, Marked
    <3>2. /\ n \in Nat /\ m \in Nat /\ m <= n /\ Alike(history, j, m)
          /\ \A i \in 1 .. m : j[i] = history[i] /\ i <= n /\ i <= m
      <4>1. /\ \A i \in 1 .. Len(history) - 1 : j[i] = history[i]
            /\ Len(j) = Len(history) /\ Len(history) \in Nat /\ Len(history) >= 1
        BY <1>2, <1>4, <1>5, <1>7, <2>5 DEF AddedTo
      <4>2. /\ n \in Nat /\ m \in Nat /\ m <= n /\ m <= Len(j) /\ n = Len(history)
            /\ \A i \in 1 .. m : i <= n /\ i <= m
        BY <4>1
      <4>. QED BY <4>1, <4>2 DEF Alike
    <3>. HIDE DEF n, m
    <3>3. Marks(j, sys_prompt, start, n, m)
      BY <1>2, <3>1, <3>2, MarksStay
    <3>4. \A i \in 1 .. Len(history) : i \in 1 .. m \/ i = Len(history)
      BY <1>2 DEF m
    <3>. QED BY <1>4, <2>2, <2>4, <2>5, <3>3, <3>4 DEF Marks, n
  <2>7. Marked(start, j, Len(history))'
    <3>1. /\ program' = program /\ sys_prompt' = sys_prompt /\ Given' = Len(history)
          /\ Len(history') = Len(history)
      BY <1>1, <1>5, <1>7
    <3>. QED BY ONLY <2>6, <3>1 DEF Marked
  <2>8. Whole(start)'
    BY <1>1, <2>1 DEF Spoke, Speaks, Whole
  <2>9. Tells(j, history, Given)'
    BY <1>5, <2>5 DEF Tells
  <2>10. Rests(start, j)'
    BY <1>1, <1>2, <1>5, <1>7, <2>2, <2>4, <2>5, <2>7, <2>8, <2>9 DEF Rests
  <2>. QED BY <2>10
<1>12. Followed'
  BY <1>1, <1>11 DEF Followed, AtRest
<1>. QED BY <1>1, <1>6, <1>8, <1>9, <1>10, <1>12 DEF Orderly

\* chatllm_restart: nothing has been said.
LEMMA RestartFollowed ==
    ASSUME ConversationInv, Kept, Orderly, "restart" \in program.calls,
           NEW prompt, Restart(prompt)
    PROVE  Orderly' /\ Followed'
<1>1. /\ pc = "idle" /\ history' = <<>> /\ cursor' = 0 /\ round' = -1 /\ initializing' = TRUE
      /\ UNCHANGED <<program, skip_sys_prompt, ai_prefix, tool_input, file, pc, parted>>
  <2>1. ~(sess_hist_len > 0)
    BY DEF ConversationInv, SessionsFit, TypeOK
  <2>. QED BY <2>1 DEF Restart, Clear, sessionVars, callVars
<1>2. "save" \notin program.calls
  BY DEF Kept, KeepsSkipping
<1>3. Len(history') = 0 /\ Given' = 0
  BY <1>1 DEF Given
<1>4. Shape(history', round')
  BY <1>1, <1>3 DEF Shape
<1>5. Turns'
  BY <1>1, <1>3 DEF Turns, AtRest, Speaking
<1>6. Small'
  <2>1. Short(history') /\ Len(history') <= MaxMessages + 1
    BY <1>3, MessagesAssumption DEF Short
  <2>2. "continue" \in program.calls => tool_input = <<>> /\ ~parted
    BY DEF Orderly, Small
  <2>3. \A i \in 1 .. Len(history') : history'[i].tok_pos < 0
    BY <1>3
  <2>. QED BY <1>1, <1>3, <2>1, <2>2, <2>3 DEF Small, Speaking, Short
<1>7. Skips'
  BY <1>1, <1>2 DEF Orderly, Skips
<1>8. Followed'
  BY <1>1 DEF Followed
<1>. QED BY <1>4, <1>5, <1>6, <1>7, <1>8 DEF Orderly

\* chatllm_history_set_cursor: the context ends where the answer did.
LEMMA HistorySetCursorFollowed ==
    ASSUME ConversationInv, Kept, Orderly, Followed, "history_cursor" \in program.calls,
           NEW pos \in Nat, HistorySetCursor(pos)
    PROVE  Orderly' /\ Followed'
<1>1. /\ pc = "idle" /\ pos \in 1 .. cursor - 1 /\ history[pos].tok_pos >= 0
      /\ history' = SubSeq(history, 1, pos) /\ cursor' = pos
      /\ context' = RewoundTo(history[pos].tok_pos)
      /\ UNCHANGED <<program, round, initializing, sys_prompt, skip_sys_prompt, ai_prefix,
                     tool_input, file, pc, parted>>
  BY DEF HistorySetCursor, promptVars, sessionVars, callVars
<1>2. /\ history \in Seq(Message) /\ round \in Int /\ sys_prompt \in SysPrompts
      /\ context \in Seq(Items) /\ cursor \in 0 .. Len(history)
      /\ Given \in 0 .. Len(history) /\ Given \in {cursor, cursor + 1}
      /\ initializing \in BOOLEAN
  BY <1>1, InvSays, CursorSays DEF ConversationInv, TypeOK
<1>3. pos \in 1 .. Len(history) /\ pos < Given /\ program.extending = "none"
  BY <1>1, <1>2 DEF Kept, LeavesHistory
<1>4. /\ history' \in Seq(Message) /\ Len(history') = pos
      /\ \A i \in 1 .. pos : history'[i] = history[i]
  BY <1>1, <1>2, <1>3
<1>5. ~initializing
  BY <1>1, <1>2 DEF Orderly, Small
<1>6. Given' = pos
  BY <1>1, <1>4 DEF Given
<1>7. Shape(history', round')
  BY <1>1, <1>2, <1>3, ShapeCut DEF Orderly
<1>8. history'[pos].role = "Assistant" /\ pos # 0
  BY <1>1, <1>3, <1>4 DEF Orderly, Shape
<1>9. Turns'
  BY <1>1, <1>6, <1>8 DEF Turns, AtRest, Speaking
<1>10. Small'
  <2>1. ASSUME "continue" \in program.calls
        PROVE  Short(history') /\ Len(history') <= MaxMessages + 1 /\ tool_input = <<>>
               /\ ~parted
    <3>1. Short(history) /\ Len(history) <= MaxMessages + 1 /\ tool_input = <<>> /\ ~parted
      BY <2>1 DEF Orderly, Small
    <3>2. Short(history')
      BY <1>3, <1>4, <3>1 DEF Short
    <3>. QED BY <1>2, <1>3, <1>4, <3>1, <3>2, MessagesAssumption
  <2>. QED BY <1>1, <1>4, <1>5, <1>6, <2>1 DEF Small, Speaking, Short
<1>11. Skips'
  BY <1>1 DEF Orderly, Skips, Sys, Item
<1>12. ASSUME ~parted
       PROVE  \E start \in Nat, k \in Seq(Message) : Rests(start, k)'
  <2>1. PICK start \in Nat, k \in Seq(Message) : Rests(start, k)
    BY <1>1, <1>5, <1>12 DEF Followed, AtRest
  <2>2. Marks(k, sys_prompt, start, Given, Len(history))
    BY <1>3, <2>1 DEF Rests, Marked
  <2>0. /\ Len(k) = Len(history) /\ Tells(k, history, Given)
        /\ \A i \in 1 .. Len(history) : k[i].tok_pos = history[i].tok_pos
    <3>1. Tells(k, history, Given)
      BY <2>1 DEF Rests
    <3>. QED BY <1>2, <3>1, TellsSame
  <2>3. start < pos /\ history[pos].tok_pos = Len(Told(k, sys_prompt, start, pos))
    BY <1>1, <1>3, <2>0, <2>2 DEF Marks
  <2>. DEFINE here == Told(k, sys_prompt, start, pos)
              all  == Told(k, sys_prompt, start, Given)
  <2>4. /\ Len(here) <= Len(all) /\ SubSeq(all, 1, Len(here)) = here
        /\ here \in Seq(Items) /\ all \in Seq(Items)
    <3>1. /\ pos \in Nat /\ Given \in Nat /\ pos <= Given /\ Given <= Len(k)
          /\ start \in 0 .. pos /\ pos \in 0 .. Len(k) /\ start \in 0 .. Given
          /\ Given \in 0 .. Len(k)
      BY <1>2, <1>3, <2>0, <2>3
    <3>2. Len(here) <= Len(all) /\ SubSeq(all, 1, Len(here)) = here
      BY <1>2, <2>3, <3>1, ToldBegins
    <3>3. here \in Seq(Items)
      BY <1>2, <3>1, ToldType
    <3>4. all \in Seq(Items)
      BY <1>2, <3>1, ToldType
    <3>. QED BY <3>2, <3>3, <3>4
  <2>5. context = all /\ context' = RewoundTo(Len(here))
    BY <1>1, <2>1, <2>3 DEF Rests
  <2>6. context' = here
    <3>. HIDE DEF here, all
    <3>1. CASE Len(all) > Len(here)
      BY <2>4, <2>5, <3>1 DEF RewoundTo
    <3>2. CASE ~(Len(all) > Len(here))
      <4>1. Len(all) = Len(here)
        BY <2>4, <3>2
      <4>2. SubSeq(all, 1, Len(all)) = all
        BY <2>4
      <4>. QED BY <2>4, <2>5, <3>2, <4>1, <4>2 DEF RewoundTo
    <3>. QED BY <3>1, <3>2
  <2>7. PICK q \in Seq(Message) : Tells(q, history', pos) /\ Retells(q, k, history', pos)
    <3>. DEFINE j == history'
                g == Given
    <3>1. /\ j \in Seq(Message) /\ pos \in Nat /\ pos <= Len(history) /\ pos <= Len(j)
          /\ \A i \in 1 .. pos : j[i] = history[i]
      BY <1>3, <1>4
    <3>2. Tells(k, history, g) /\ history \in Seq(Message)
          /\ \A i \in 1 .. pos : i <= g => i <= pos
      BY <1>2, <2>0
    <3>. HIDE DEF j, g
    <3>3. \E q \in Seq(Message) : Tells(q, j, pos) /\ Retells(q, k, j, pos)
      BY ONLY <3>1, <3>2, TellsOther
    <3>. QED BY <3>3 DEF j
  <2>8. context' = Told(q, sys_prompt, start, pos)
    <3>1. start \in 0 .. pos /\ pos \in Nat
      BY <2>3
    <3>2. here = Told(q, sys_prompt, start, pos)
      BY <2>7, <3>1, ToldAlike DEF Retells
    <3>. QED BY <2>6, <3>2
  <2>9. Marks(q, sys_prompt, start, pos, pos)
    <3>. DEFINE n == Len(history)
                g == Given
    <3>1. /\ n \in Nat /\ g \in Nat /\ Marks(k, sys_prompt, start, g, n)
          /\ \A i \in 1 .. pos : q[i] = k[i] /\ i <= n /\ i <= pos
          /\ Alike(k, q, pos)
      BY <1>2, <1>3, <2>2, <2>7 DEF Retells
    <3>. HIDE DEF n, g
    <3>. QED BY <1>2, <3>1, MarksStay
  <2>10. Marked(start, q, Len(history))'
    <3>1. program' = program /\ sys_prompt' = sys_prompt /\ Given' = pos /\ Len(history') = pos
      BY <1>1, <1>4, <1>6
    <3>. QED BY ONLY <2>9, <3>1 DEF Marked
  <2>11. Whole(start)'
    BY <1>1, <2>1 DEF Rests, Whole
  <2>12. Tells(q, history, Given)'
    BY <1>1, <1>6, <2>7 DEF Tells, Spellings, Cuts, Allowed
  <2>13. Rests(start, q)'
    BY <1>1, <1>6, <2>3, <2>8, <2>10, <2>11, <2>12 DEF Rests
  <2>. QED BY <2>13
<1>13. Followed'
  BY <1>1, <1>12 DEF Followed, AtRest
<1>. QED BY <1>7, <1>9, <1>10, <1>11, <1>13 DEF Orderly

\* What is between history and context stays while these do.
LEMMA FollowsStill ==
    ASSUME Followed,
           UNCHANGED <<program, history, cursor, context, initializing, sys_prompt, ai_prefix,
                       pc, call, input_ids, output, parted>>
    PROVE  Followed'
<1>1. Given' = Given /\ Spellings' = Spellings /\ Cuts' = Cuts
  BY DEF Given, Spellings, Cuts, Allowed
<1>2. ASSUME NEW start \in Nat, NEW k \in Seq(Message)
      PROVE  /\ Rests(start, k)' = Rests(start, k) /\ Asks(start, k)' = Asks(start, k)
             /\ Spoke(start, k)' = Spoke(start, k)
  <2>1. Tells(k, history, Given)' = Tells(k, history, Given)
    BY <1>1 DEF Tells
  <2>2. ASSUME NEW n PROVE Marked(start, k, n)' = Marked(start, k, n)
    BY <1>1 DEF Marked
  <2>3. Speaks(start, k)' = Speaks(start, k)
    BY <1>1, <2>1 DEF Speaks, Whole, Marked
  <2>4. Rests(start, k)' = Rests(start, k)
    BY <1>1, <2>1 DEF Rests, Whole, Marked
  <2>5. Asks(start, k)' = Asks(start, k)
    <3>1. Opening(ai_prefix)' = Opening(ai_prefix)
      BY DEF Opening, Open, Item, Spoken
    <3>. QED BY <2>3, <3>1 DEF Asks
  <2>6. Spoke(start, k)' = Spoke(start, k)
    <3>. DEFINE Puts(p, c) == context =
                  (Told(k, sys_prompt, start, Len(history)) \o Opening(p)) \o Spoken(Heard(c))
    <3>1. ASSUME NEW p, NEW c PROVE Puts(p, c)' = Puts(p, c)
      BY DEF Opening, Open, Item, Spoken, Heard, Run
    <3>2. /\ Spoke(start, k) = (Speaks(start, k) /\ \E p \in Spellings, c \in Cuts : Puts(p, c))
          /\ Spoke(start, k)' =
               (Speaks(start, k)' /\ \E p \in Spellings', c \in Cuts' : Puts(p, c)')
      BY DEF Spoke
    <3>. HIDE DEF Puts
    <3>. QED BY <1>1, <2>3, <3>1, <3>2
  <2>. QED BY <2>4, <2>5, <2>6
<1>. QED BY <1>2 DEF Followed, AtRest

\* chatllm_save_session of a conversation.
LEMMA SaveFollowed ==
    ASSUME ConversationInv, Kept, Orderly, Followed, SaveSession
    PROVE  Orderly' /\ Followed'
<1>1. /\ history # <<>> /\ file' = SessionOf(history)
      /\ UNCHANGED <<program, history, cursor, round, context, initializing, sys_prompt,
                     skip_sys_prompt, ai_prefix, tool_input, pc, call, input_ids, output,
                     parted>>
  BY DEF SaveSession, messagesVars, promptVars, callVars
<1>2. Given' = Given
  BY <1>1 DEF Given
<1>3. Skips'
  <2>1. history \in Seq(Message)
    BY InvSays
  <2>2. Len(history) # 0
    BY <1>1, <2>1
  <2>3. SessionOf(history).history_len # 0
    BY <2>2 DEF SessionOf
  <2>. QED BY <1>1, <2>3 DEF Orderly, Skips
<1>4. Shape(history, round)' /\ Turns' /\ Small'
  BY <1>1, <1>2 DEF Orderly, Turns, Small, Shape, Short, AtRest, Speaking, Asked, Replied,
                    Sys, Item
<1>5. Followed'
  BY <1>1, FollowsStill
<1>. QED BY <1>3, <1>4, <1>5 DEF Orderly

\* Without one the system prompt is evaluated, and the encoders are told.
LEMMA PromptFollowed ==
    ASSUME ConversationInv, Kept, Orderly, "save" \in program.calls,
           SavePrompt \/ EvalSysPrompt
    PROVE  Orderly' /\ Followed'
<1>1. /\ history = <<>> /\ pc' \in {"prompt", "save"}
      /\ UNCHANGED <<program, history, cursor, round, sys_prompt, ai_prefix, tool_input, file>>
      /\ pc' = "save" => context' = <<Sys>> /\ skip_sys_prompt' = TRUE /\ initializing' = FALSE
      /\ pc' = "prompt" => UNCHANGED <<skip_sys_prompt, initializing>>
  BY DEF SavePrompt, EvalSysPrompt, messagesVars, promptVars, sessionVars, callVars,
         Orderly, Turns
<1>2. Sys' = Sys /\ "continue" \notin program.calls
  BY <1>1 DEF Sys, Item, Kept, KeepsSkipping
<1>3. Turns'
  BY <1>1, <1>2 DEF Turns, AtRest, Speaking
<1>4. Small'
  BY <1>1, <1>2 DEF Orderly, Small, Short
<1>5. Skips' /\ Shape(history, round)'
  BY <1>1, <1>2 DEF Orderly, Skips, Shape
<1>6. Followed'
  BY <1>1 DEF Followed, AtRest
<1>. QED BY <1>3, <1>4, <1>5, <1>6 DEF Orderly

\* A session without messages is written, and loaded, with the context of one.
LEMMA SessionFollowed ==
    ASSUME ConversationInv, Kept, Orderly, WriteSession \/ LoadSession
    PROVE  Orderly' /\ Followed'
<1>1. sys_prompt \in SysPrompts /\ history \in Seq(Message) /\ round \in Int
  BY InvSays
<1>2. /\ history' = <<>> /\ cursor' = 0 /\ round' = -1 /\ pc' = "idle"
      /\ context' = <<Sys>> /\ initializing' = FALSE /\ skip_sys_prompt' = TRUE
      /\ UNCHANGED <<program, sys_prompt, ai_prefix, tool_input>>
      /\ "save" \in program.calls
      /\ file' # NoFile /\ file'.history_len = 0 => file'.context = <<Sys>>
  <2>1. CASE WriteSession
    <3>1. /\ history = <<>> /\ context = <<Sys>> /\ skip_sys_prompt /\ ~initializing
          /\ "save" \in program.calls
      BY <2>1 DEF WriteSession, Orderly, Turns
    <3>2. cursor = 0 /\ round = -1
      <4>1. cursor \in 0 .. Len(history) /\ Len(history) = 0
        BY <2>1, <3>1, CursorSays DEF WriteSession
      <4>2. cursor = 0
        BY <4>1
      <4>. QED BY <3>1, <4>2 DEF Orderly, Shape
    <3>3. SessionOf(history).context = context
      BY DEF SessionOf
    <3>4. initializing \in BOOLEAN /\ skip_sys_prompt \in BOOLEAN
      BY DEF ConversationInv, TypeOK
    <3>. QED BY <2>1, <3>1, <3>2, <3>3, <3>4
             DEF WriteSession, messagesVars, promptVars, callVars
  <2>2. CASE LoadSession
    BY <2>2 DEF LoadSession, Clear, callVars, Orderly, Skips
  <2>. QED BY <2>1, <2>2
<1>3. Len(history') = 0 /\ Given' = 0 /\ history' \in Seq(Message)
  BY <1>2 DEF Given
<1>4. Sys' = Sys /\ "continue" \notin program.calls
  BY <1>2 DEF Sys, Item, Kept, KeepsSkipping
<1>5. Shape(history', round')
  BY <1>2, <1>3 DEF Shape
<1>6. Turns'
  BY <1>2, <1>3 DEF Turns, AtRest, Speaking
<1>7. Small'
  BY <1>2, <1>4 DEF Small
<1>8. Skips'
  BY <1>2, <1>4 DEF Orderly, Skips
<1>0. PICK none \in Seq(Message) : none = <<>>
  <2>1. <<>> \in Seq(Message)
    OBVIOUS
  <2>. QED BY <2>1
<1>9. Rests(0, none)'
  <2>1. Told(history', sys_prompt, 0, 0) = <<Item("System", sys_prompt)>>
    <3>1. \A end \in Nat : end = 0 => end <= Len(history') /\ ~(end > 0)
      BY <1>3
    <3>2. 0 \in Nat /\ 0 <= Len(history') /\ (0 > 0 => history'[1].round = 0)
      BY <3>1
    <3>. QED BY ONLY <1>1, <1>3, <3>2, ToldFirst
  <2>2. Marked(0, none, Len(history))'
    BY <1>3 DEF Marked, Marks
  <2>3. Tells(none, history, Given)'
    BY <1>0, <1>2 DEF Tells
  <2>. QED BY <1>0, <1>2, <1>3, <2>1, <2>2, <2>3 DEF Rests, Whole, Sys
<1>10. Followed'
  BY <1>2, <1>9 DEF Followed, AtRest
<1>. QED BY <1>5, <1>6, <1>7, <1>8, <1>10 DEF Orderly

LEMMA StutterFollowed ==
    ASSUME Orderly, Followed, UNCHANGED vars
    PROVE  Orderly' /\ Followed'
<1>1. UNCHANGED <<program, history, cursor, round, context, initializing, sys_prompt, file,
                  skip_sys_prompt, ai_prefix, tool_input, pc, call, input_ids, output, parted>>
  BY DEF vars, messagesVars, promptVars, sessionVars, callVars
<1>2. Given' = Given /\ Sys' = Sys
  BY <1>1 DEF Given, Item, Sys
<1>3. Orderly'
  BY <1>1, <1>2 DEF Orderly, Turns, Small, Shape, Skips, Short, AtRest, Speaking, Asked,
                    Replied
<1>4. Followed'
  BY <1>1, FollowsStill
<1>. QED BY <1>3, <1>4

LEMMA HistoryInit == Init => HistoryInv
<1>. SUFFICES ASSUME Init, Kept PROVE Orderly /\ Followed
  BY DEF HistoryInv
<1>. USE DEF Init, MessagesInit
<1>1. Len(history) = 0 /\ Given = 0 /\ ~parted /\ file = NoFile
  BY DEF Given
<1>2. Shape(history, round)
  BY <1>1 DEF Shape
<1>3. Turns
  BY <1>1 DEF Turns, AtRest, Speaking
<1>4. Small
  BY <1>1, MessagesAssumption DEF Small, Short, Speaking
<1>5. Skips
  BY <1>1 DEF Skips
<1>6. Followed
  BY DEF Followed
<1>. QED BY <1>2, <1>3, <1>4, <1>5, <1>6 DEF Orderly

\* The program goes on, and no call is made behind one that has gone astray.
LEMMA ProgramStays ==
    ASSUME Next
    PROVE  program' = program /\ pc # "undefined"
<1>1. ASSUME Turn PROVE program' = program /\ pc # "undefined"
  BY <1>1 DEF Turn, Chat, Retry, ShiftMemory, Answer, Continued, EvalSysPrompt,
              WriteSession, NoRoom, Complete, RunOut, OutOfContext, RunsOn
<1>0. ASSUME Abort PROVE program' = program /\ pc # "undefined"
  BY <1>0 DEF Abort, NothingRun, CutShort, RunsOn
<1>2. ASSUME NEW t, \/ UserInput(t) \/ ToolInput(t) \/ LateToolInput(t) \/ AiContinue(t)
                    \/ SetAiPrefix(t)
      PROVE  program' = program /\ pc # "undefined"
  BY <1>2 DEF UserInput, ToolInput, LateToolInput, AiContinue, SetAiPrefix
<1>3. ASSUME NEW p, Restart(p) \/ HistorySetCursor(p) \/ HistorySetCursorAstray(p)
                       \/ SetCursor(p)
      PROVE  program' = program /\ pc # "undefined"
  BY <1>3 DEF Restart, HistorySetCursor, HistorySetCursorAstray, SetCursor
<1>4. ASSUME NEW r, NEW t, HistoryAppend(r, t)
      PROVE  program' = program /\ pc # "undefined"
  BY <1>4 DEF HistoryAppend
<1>5. ASSUME SaveSession \/ SavePrompt \/ LoadSession \/ \E read : LoadSessionFails(read)
      PROVE  program' = program /\ pc # "undefined"
  BY <1>5 DEF SaveSession, SavePrompt, LoadSession, LoadSessionFails
<1>. QED BY <1>0, <1>1, <1>2, <1>3, <1>4, <1>5 DEF Next

LEMMA TurnFollowed ==
    ASSUME ConversationInv, Kept, Orderly, Followed, Turn
    PROVE  Orderly' /\ Followed'
<1>1. ASSUME ShiftMemory PROVE FALSE
  BY <1>1 DEF ShiftMemory, Orderly, Turns
<1>2. ASSUME EvalSysPrompt PROVE "save" \in program.calls
  BY <1>2 DEF EvalSysPrompt, Orderly, Turns
<1>3. ASSUME NoRoom \/ \E text \in Outputs : Complete(text) \/ RunOut(text)
      PROVE  Orderly' /\ Followed'
  BY <1>3, CompleteFollowed, RunOutFollowed
<1>. QED BY <1>1, <1>2, <1>3, ChatFollowed, RetryFollowed, AnswerFollowed,
            ContinuedFollowed, PromptFollowed, SessionFollowed DEF Turn

LEMMA HistoryNext == ConversationInv /\ HistoryInv /\ [Next]_vars => HistoryInv'
<1>. SUFFICES ASSUME ConversationInv, HistoryInv, [Next]_vars, Kept', pc' # "undefined"
              PROVE  Orderly' /\ Followed'
  BY DEF HistoryInv
<1>1. CASE UNCHANGED vars
  <2>1. Kept /\ pc # "undefined"
    BY <1>1 DEF vars, Kept, LeavesHistory, KeepsSkipping
  <2>. QED BY <1>1, <2>1, StutterFollowed DEF HistoryInv
<1>2. CASE Next
  <2>1. program' = program /\ pc # "undefined"
    BY <1>2, ProgramStays
  <2>2. Kept
    BY <2>1 DEF Kept, LeavesHistory, KeepsSkipping
  <2>3. Orderly /\ Followed
    BY <2>1, <2>2 DEF HistoryInv
  <2>4. ASSUME Turn PROVE Orderly' /\ Followed'
    BY <2>2, <2>3, <2>4, TurnFollowed
  <2>5. ASSUME NEW t \in program.says, UserInput(t)
        PROVE  Orderly' /\ Followed'
    <3>1. t \in Piece /\ "User" \in Role /\ "User" # "Assistant"
      BY InvSays, ProgramType DEF Role
    <3>2. /\ PushBack("User", <<t>>) /\ pc = "idle" /\ pc' = "chat"
          /\ UNCHANGED <<program, context, initializing, promptVars, tool_input,
                         sessionVars, callVars>>
      BY <2>5 DEF UserInput
    <3>. QED BY <2>2, <2>3, <3>1, <3>2, PushFollowed
  <2>6. ASSUME NEW t, ToolInput(t) \/ LateToolInput(t), Allowed("tool") \/
               Allowed("completion") \/ Allowed("late_tool")
        PROVE  Orderly' /\ Followed'
    <3>1. "continue" \notin program.calls
      BY <2>2, <2>6 DEF Kept, LeavesHistory, Allowed
    <3>2. /\ pc \in {"idle", "done"} /\ ai_prefix' = ai_prefix
          /\ UNCHANGED <<program, messagesVars, context, initializing, sys_prompt,
                         skip_sys_prompt, sessionVars, pc, callVars>>
      BY <2>6 DEF ToolInput, LateToolInput, promptVars
    <3>. QED BY <2>2, <2>3, <3>1, <3>2, ToolFollowed
  <2>15. ASSUME Allowed("prefix"), NEW t, SetAiPrefix(t)
         PROVE  Orderly' /\ Followed'
    <3>1. /\ pc \in {"idle", "done"} /\ tool_input' = tool_input
          /\ UNCHANGED <<program, messagesVars, context, initializing, sys_prompt,
                         skip_sys_prompt, sessionVars, pc, callVars>>
      BY <2>15 DEF SetAiPrefix
    <3>. QED BY <2>2, <2>3, <2>15, <3>1, ToolFollowed DEF Allowed
  <2>16. ASSUME Allowed("abort"), Abort
         PROVE  Orderly' /\ Followed'
    BY <2>2, <2>3, <2>16, NothingRunFollowed, CompleteFollowed DEF Abort
  <2>7. ASSUME Allowed("continue"), NEW t \in Completions, AiContinue(t)
        PROVE  Orderly' /\ Followed'
    <3>1. t \in Piece
      BY ConversationAssumption
    <3>. QED BY <2>2, <2>3, <2>7, <3>1, AiContinueFollowed DEF Allowed
  <2>8. ASSUME Allowed("restart"), NEW p, Restart(p)
        PROVE  Orderly' /\ Followed'
    BY <2>2, <2>3, <2>8, RestartFollowed DEF Allowed
  <2>9. ASSUME Allowed("append"), NEW r \in Role, NEW t \in program.says,
               Restorable(r) \/ Allowed("append_any"), HistoryAppend(r, t)
        PROVE  Orderly' /\ Followed'
    <3>1. t \in Piece
      BY InvSays, ProgramType
    <3>2. "continue" \notin program.calls /\ "append_any" \notin program.calls
      BY <2>2, <2>9 DEF Kept, LeavesHistory, Allowed
    <3>3. r = "Assistant" => Asked
      BY <2>9, <3>2 DEF Restorable, Allowed, Asked, LastMessage
    <3>4. /\ PushBack(r, <<t>>) /\ pc = "idle" /\ pc' = "idle"
          /\ UNCHANGED <<program, context, initializing, promptVars, tool_input,
                         sessionVars, callVars>>
      BY <2>9 DEF HistoryAppend
    <3>. QED BY <2>2, <2>3, <3>1, <3>2, <3>3, <3>4, PushFollowed
  <2>10. ASSUME Allowed("history_cursor"), NEW p \in 1 .. MaxMessages, HistorySetCursor(p)
         PROVE  Orderly' /\ Followed'
    <3>1. p \in Nat
      BY MessagesAssumption
    <3>. QED BY <2>2, <2>3, <2>10, <3>1, HistorySetCursorFollowed DEF Allowed
  <2>11. ASSUME NEW p, HistorySetCursorAstray(p) PROVE FALSE
    BY <2>11 DEF HistorySetCursorAstray
  <2>12. ~Allowed("cursor") /\ ~Allowed("load_fails")
    BY <2>2 DEF Kept, LeavesHistory, Allowed
  <2>13. ASSUME Allowed("save"), SaveSession \/ SavePrompt
         PROVE  Orderly' /\ Followed'
    BY <2>2, <2>3, <2>13, SaveFollowed, PromptFollowed DEF Allowed
  <2>14. ASSUME LoadSession PROVE Orderly' /\ Followed'
    BY <2>2, <2>3, <2>14, SessionFollowed
  <2>. QED BY <1>2, <2>4, <2>5, <2>6, <2>7, <2>8, <2>9, <2>10, <2>11, <2>12, <2>13, <2>14,
           <2>15, <2>16 DEF Next
<1>. QED BY <1>1, <1>2

\* Every state a program reaches satisfies the invariant that follows a conversation
\* through the calls of the C API, from the history into the model's context.
THEOREM HistoryInvHolds == Spec => []HistoryInv
BY HistoryInit, HistoryNext, ConversationInvHolds, PTL DEF Spec

\* What the proofs call a telling is one of those the properties speak of.
LEMMA TellsOneOf ==
    ASSUME ConversationInv, NEW k, Tells(k, history, Given), NEW n \in 0 .. Len(history),
           n <= Given
    PROVE  SubSeq(k, 1, n) \in Tellings(n) /\ SubSeq(k, 1, n) \in Seq(Message)
<1>. DEFINE Known(i, q) == KnownAs(history[i], q[1], q[2])
            f == [i \in Generated(n) |->
                    IF \E q \in Spellings \X Cuts : k[i] = Known(i, q)
                    THEN CHOOSE q \in Spellings \X Cuts : k[i] = Known(i, q)
                    ELSE <<<<>>, FALSE>>]
            t == [i \in 1 .. n |-> IF i \in Generated(n) THEN Known(i, f[i]) ELSE history[i]]
<1>1. /\ history \in Seq(Message) /\ k \in Seq(Message) /\ Len(k) = Len(history)
      /\ n \in Nat /\ n <= Len(k)
  BY InvSays DEF Tells
<1>2. <<<<>>, FALSE>> \in Spellings \X Cuts
  BY SpellingsType
<1>3. f \in [Generated(n) -> Spellings \X Cuts]
  <2>. HIDE DEF Known
  <2>. QED BY <1>2
<1>4. ASSUME NEW i \in 1 .. n PROVE t[i] = k[i]
  <2>1. i \in 1 .. Len(history) /\ i <= Given /\ history[i] \in Message
    <3>1. Given \in Nat
      BY InvSays DEF Given
    <3>. HIDE DEF f
    <3>. QED BY ONLY <1>1, <3>1, i \in 1 .. n, n <= Given
  <2>2. CASE i \in Generated(n)
    <3>1. \E q \in Spellings \X Cuts : k[i] = Known(i, q)
      <4>1. CASE k[i] = history[i]
        <5>1. KnownAs(history[i], <<>>, FALSE) = history[i]
          <6>1. <<>> \in Seq(Piece) /\ FALSE \in BOOLEAN
            OBVIOUS
          <6>. QED BY <2>1, <6>1, KnownAsType
        <5>2. k[i] = Known(i, <<<<>>, FALSE>>)
          BY <4>1, <5>1
        <5>. QED BY <1>2, <5>2
      <4>2. CASE \E p \in Spellings, c \in Cuts : k[i] = KnownAs(history[i], p, c)
        <5>1. PICK p \in Spellings, c \in Cuts : k[i] = KnownAs(history[i], p, c)
          BY <4>2
        <5>2. <<p, c>> \in Spellings \X Cuts /\ k[i] = Known(i, <<p, c>>)
          BY <5>1
        <5>. QED BY <5>2
      <4>. QED BY <2>1, <4>1, <4>2 DEF Tells
    <3>. HIDE DEF Known
    <3>2. k[i] = Known(i, f[i])
      BY <2>2, <3>1
    <3>. HIDE DEF f
    <3>. QED BY <2>2, <3>2
  <2>3. CASE i \notin Generated(n)
    <3>1. ~(history[i].tok_pos >= 0)
      BY <2>3 DEF Generated
    <3>2. t[i] = history[i]
      <4>. HIDE DEF Known, f
      <4>. QED BY <2>3
    <3>. QED BY <2>1, <3>1, <3>2 DEF Tells
  <2>. QED BY <2>2, <2>3
<1>. DEFINE s == SubSeq(k, 1, n)
<1>5. s \in Seq(Message) /\ s = [i \in 1 .. n |-> k[i]]
  BY <1>1
<1>6. t \in Tellings(n)
  <2>. HIDE DEF f
  <2>. QED BY <1>3 DEF Tellings
<1>7. t = [i \in 1 .. n |-> t[i]]
  <2>. HIDE DEF Known, f
  <2>. QED OBVIOUS
<1>. HIDE DEF t, s
<1>8. t = s
  BY <1>4, <1>5, <1>7
<1>. QED BY <1>5, <1>6, <1>8 DEF s

\* What has been told of the first messages is the window they make.
LEMMA WindowOfFirst ==
    ASSUME ConversationInv, NEW k \in Seq(Message), NEW n \in 0 .. Len(k),
           NEW start \in 0 .. n
    PROVE  Window(SubSeq(k, 1, n), start) = Told(k, sys_prompt, start, n)
<1>. DEFINE s == SubSeq(k, 1, n)
<1>1. s \in Seq(Message) /\ Len(s) = n /\ n \in Nat /\ \A i \in 1 .. n : s[i] = k[i]
  OBVIOUS
<1>. HIDE DEF s
<1>2. Alike(s, k, n)
  BY <1>1 DEF Alike
<1>3. Told(s, sys_prompt, start, n) = Told(k, sys_prompt, start, n)
  BY <1>1, <1>2, ToldAlike
<1>4. Window(s, start) = Told(s, sys_prompt, start, n)
  BY <1>1, WindowIsTold
<1>. QED BY <1>3, <1>4 DEF s

\* Between turns the model is conditioned on what the history says: each message of
\* a stretch that ends with the last answer, once and in order, and of the whole
\* history where the context is wide; answers as the model knows them, behind their
\* prefix and without a last token that was not run.  What the hypothesis leaves out
\* is the finding of ConversationNewPrompt.cfg: encoders that go on without a system
\* prompt.
THEOREM ContextFollowsHistory == Spec => [](KeepsSkipping => ContextIsHistory)
<1>1. ConversationInv /\ HistoryInv => (KeepsSkipping => ContextIsHistory)
  <2>. SUFFICES ASSUME ConversationInv, HistoryInv, KeepsSkipping, LeavesHistory,
                       pc = "idle", ~initializing, ~parted
                PROVE  \E start \in Starts, k \in Tellings(Given) : context = Window(k, start)
    BY DEF ContextIsHistory
  <2>1. PICK start \in Nat, k \in Seq(Message) : Rests(start, k)
    BY DEF HistoryInv, Kept, Followed, AtRest
  <2>2. Given \in 0 .. Len(history) /\ Given <= Given /\ Len(k) = Len(history)
    BY <2>1, CursorSays DEF Rests, Tells
  <2>3. start \in 0 .. Given
    BY <2>1, <2>2 DEF Rests
  <2>4. SubSeq(k, 1, Given) \in Tellings(Given)
    BY <2>1, <2>2, TellsOneOf DEF Rests
  <2>5. context = Window(SubSeq(k, 1, Given), start)
    BY <2>1, <2>2, <2>3, WindowOfFirst DEF Rests
  <2>6. start \in Starts
    BY <2>1, <2>3 DEF Rests, Whole, Starts
  <2>. QED BY <2>4, <2>5, <2>6
<1>. QED BY ConversationInvHolds, HistoryInvHolds, <1>1, PTL

\* A generation goes on from the conversation: context and input together are a
\* stretch of the history up to its last message, as the model knows it, and what the
\* next answer begins with, however the input was encoded.
THEOREM PromptFollowsHistory == Spec => [](KeepsSkipping => PromptIsHistory)
<1>1. ConversationInv /\ HistoryInv => (KeepsSkipping => PromptIsHistory)
  <2>. SUFFICES ASSUME ConversationInv, HistoryInv, KeepsSkipping, LeavesHistory,
                       pc = "generate", ~parted
                PROVE  \E start \in Starts, k \in Tellings(Len(history)) :
                         context \o input_ids = Window(k, start)
                             \o (IF call = "chat" THEN <<Open>> \o Spelt ELSE <<>>)
    BY DEF PromptIsHistory
  <2>1. cursor = Len(history) /\ ~initializing
    BY DEF HistoryInv, Kept, Orderly, Turns, Speaking
  <2>2. PICK start \in Nat, k \in Seq(Message) : Asks(start, k)
    BY <2>1 DEF HistoryInv, Kept, Followed
  <2>3. /\ Given = Len(history) /\ Len(history) \in 0 .. Len(history)
        /\ Len(history) <= Given /\ Len(k) = Len(history)
    BY <2>1, <2>2, InvSays DEF Given, Asks, Speaks, Tells
  <2>4. start \in 0 .. Given
    BY <2>2, <2>3 DEF Asks, Speaks
  <2>5. SubSeq(k, 1, Len(history)) \in Tellings(Len(history))
    BY <2>2, <2>3, TellsOneOf DEF Asks, Speaks
  <2>6. context \o input_ids = Window(SubSeq(k, 1, Len(history)), start)
                             \o (IF call = "chat" THEN <<Open>> \o Spelt ELSE <<>>)
    <3>1. Window(SubSeq(k, 1, Len(history)), start)
            = Told(k, sys_prompt, start, Len(history))
      BY <2>2, <2>3, <2>4, WindowOfFirst
    <3>. QED BY <2>2, <3>1 DEF Asks, Opening, Spelt
  <2>7. start \in Starts
    BY <2>2, <2>4 DEF Asks, Speaks, Whole, Starts
  <2>. QED BY <2>5, <2>6, <2>7
<1>. QED BY ConversationInvHolds, HistoryInvHolds, <1>1, PTL

\* The position kept with an answer marks the end of it in the context, so that
\* going back to it gives the context the model had right after it.
THEOREM PositionsMarkAnswers == Spec => [](KeepsSkipping => TokPosRestores)
<1>1. ConversationInv /\ HistoryInv => (KeepsSkipping => TokPosRestores)
  <2>. SUFFICES ASSUME ConversationInv, HistoryInv, KeepsSkipping, LeavesHistory,
                       program.extending = "none", pc = "idle", ~initializing, ~parted
                PROVE  \E start \in Starts, k \in Tellings(Given) : \A i \in Generated(Given) :
                         /\ history[i].tok_pos <= Len(context)
                         /\ SubSeq(context, 1, history[i].tok_pos)
                              = Window(SubSeq(k, 1, i), start)
    BY DEF TokPosRestores
  <2>1. PICK start \in Nat, k \in Seq(Message) : Rests(start, k)
    BY DEF HistoryInv, Kept, Followed, AtRest
  <2>2. /\ history \in Seq(Message) /\ Given \in 0 .. Len(history) /\ Given <= Given
        /\ sys_prompt \in SysPrompts /\ Len(k) = Len(history)
        /\ \A i \in 1 .. Len(history) : k[i].tok_pos = history[i].tok_pos
    <3>1. history \in Seq(Message)
      BY InvSays
    <3>. QED BY <2>1, <3>1, InvSays, CursorSays, TellsSame DEF Rests
  <2>3. start \in 0 .. Given
    BY <2>1, <2>2 DEF Rests
  <2>4. Marks(k, sys_prompt, start, Given, Len(history))
    BY <2>1 DEF Rests, Marked
  <2>. DEFINE j == SubSeq(k, 1, Given)
  <2>5. j \in Tellings(Given)
    BY <2>1, <2>2, TellsOneOf DEF Rests
  <2>6. ASSUME NEW i \in Generated(Given)
        PROVE  /\ history[i].tok_pos <= Len(context)
               /\ SubSeq(context, 1, history[i].tok_pos) = Window(SubSeq(j, 1, i), start)
    <3>1. i \in 1 .. Given /\ history[i].tok_pos >= 0
      BY DEF Generated
    <3>2. i \in 1 .. Len(history) /\ i \in Nat /\ i <= Given /\ i \in 0 .. Len(k)
          /\ Given \in Nat /\ Given <= Len(k)
      BY <2>2, <3>1
    <3>3. start < i /\ k[i].tok_pos = Len(Told(k, sys_prompt, start, i))
      BY <2>2, <2>4, <3>1, <3>2 DEF Marks
    <3>4. context = Told(k, sys_prompt, start, Given)
      BY <2>1 DEF Rests
    <3>5. Window(SubSeq(k, 1, i), start) = Told(k, sys_prompt, start, i)
      <4>1. start \in 0 .. i
        BY <2>3, <3>2, <3>3
      <4>. QED BY <3>2, <4>1, WindowOfFirst
    <3>6. SubSeq(j, 1, i) = SubSeq(k, 1, i)
      BY ONLY k \in Seq(Message), <3>2
    <3>7. /\ Len(Told(k, sys_prompt, start, i)) <= Len(context)
          /\ SubSeq(context, 1, Len(Told(k, sys_prompt, start, i)))
               = Told(k, sys_prompt, start, i)
      BY <2>2, <3>2, <3>3, <3>4, ToldBegins
    <3>. QED BY <2>2, <3>2, <3>3, <3>5, <3>6, <3>7
  <2>7. start \in Starts
    BY <2>1, <2>3 DEF Rests, Whole, Starts
  <2>. QED BY <2>5, <2>6, <2>7
<1>. QED BY ConversationInvHolds, HistoryInvHolds, <1>1, PTL
-----------------------------------------------------------------------------
(* What a turn has left to do, unless model and tools may speak for ever.   *)

\* Where a turn of Pipeline::chat is, or one that continues an answer.
Place == CASE pc = "chat" -> 6
           [] pc = "generate" -> IF retried THEN 3 ELSE 5
           [] pc = "retry" -> 4
           [] OTHER -> 1

\* A text of a tool waits, or may still be brought for the answer there is.
Awaited == \/ tool_input # <<>>
           \/ pc = "done" /\ program.extending = "none" /\ output # <<>>

\* Positions that generations without an extending method may take: none of them
\* comes back in a turn but for the first one of a conversation.
Space == IF program.extending # "none" THEN 0
         ELSE IF initializing THEN program.max_length + 1
         ELSE program.max_length - Len(context)

Fuel == CASE pc \in {"idle", "shift", "undefined"} -> 0
          [] pc = "save" -> 1
          [] pc = "prompt" -> 2
          [] pc \in {"generate", "retry", "done"} /\ call = "continue" -> Place
          [] OTHER -> Place + (IF Awaited THEN 8 ELSE 0) + 16 * Space

\* What the places of a turn say of the ways to them.
WaysThere ==
    /\ pc \in {"generate", "retry", "shift", "done"} /\ call = "chat" => ~initializing
    /\ pc = "generate" /\ call = "chat" /\ program.extending = "none" => input_ids # <<>>
    /\ pc = "retry" => call = "continue" \/ program.extending = "restart"
    /\ pc = "shift" => program.extending = "shift"

\* The ways a call of generate comes to its end.
Ends == \/ NoRoom \/ NothingRun
        \/ \E text \in Outputs : Complete(text) \/ CutShort(text) \/ RunOut(text)

LEMMA EndsAre ==
    ASSUME Ends
    PROVE  /\ pc = "generate" /\ program' = program
           /\ UNCHANGED <<history, initializing, tool_input, call, retried, input_ids>>
           /\ pc' \in {"done", "retry", "shift"}
           /\ pc' = "shift" => Shifts
           /\ pc' = "retry" => ~Shifts /\ Retries
<1>. USE DEF messagesVars, promptVars, sessionVars
<1>1. CASE NoRoom
  BY <1>1 DEF NoRoom, OutOfContext
<1>2. CASE NothingRun
  BY <1>2 DEF NothingRun
<1>3. ASSUME NEW text, Complete(text) \/ CutShort(text)
      PROVE  /\ pc = "generate" /\ program' = program /\ pc' = "done"
             /\ UNCHANGED <<history, initializing, tool_input, call, retried, input_ids>>
  BY <1>3 DEF Complete, CutShort, RunsOn
<1>4. ASSUME NEW text, RunOut(text)
      PROVE  RunsOn(Run(text)) /\ OutOfContext
  BY <1>4 DEF RunOut
<1>5. CASE \E text \in Outputs : RunOut(text)
  BY <1>4, <1>5 DEF RunsOn, OutOfContext
<1>. QED BY <1>1, <1>2, <1>3, <1>5 DEF Ends

LEMMA WaysNext ==
    ASSUME ConversationInv, WaysThere, [Next]_vars
    PROVE  WaysThere'
<1>1. CASE Chat
  <2>1. input_ids' # <<>>
    <3>. DEFINE e == EncodeHistory(history, program.max_context, continuous', TRUE)
    <3>1. input_ids' = e \o Spelt /\ continuous' \in BOOLEAN
      BY <1>1 DEF Chat, ConversationInv, TypeOK
    <3>2. e \in Seq(Items) /\ e # <<>>
      BY <3>1, InvSays, EncodeType
    <3>3. Spelt \in Seq(Items)
      BY InvSays
    <3>. HIDE DEF e
    <3>. QED BY ONLY <3>1, <3>2, <3>3
  <2>. QED BY <1>1, <2>1 DEF Chat, WaysThere
<1>2. CASE Retry
  BY <1>2 DEF Retry, WaysThere
<1>3. CASE Ends
  BY <1>3, EndsAre DEF Shifts, Retries, WaysThere
<1>4. CASE UNCHANGED vars
  BY <1>4 DEF vars, callVars, WaysThere
<1>5. CASE Next /\ ~Chat /\ ~Retry /\ pc # "generate"
  <2>1. \/ pc' \in {"idle", "chat", "save", "prompt", "undefined"}
        \/ pc' = "generate" /\ call' = "continue"
        \/ /\ pc' = "generate" /\ program'.extending = "shift"
           /\ call' = "chat" => ~initializing'
        \/ pc = "done" /\ pc' = "done" /\ UNCHANGED <<call, initializing>>
    <3>1. CASE Turn
      BY <1>5, <3>1 DEF Turn, ShiftMemory, Answer, Continued, EvalSysPrompt, WriteSession,
                        NoRoom, Complete, RunOut, RunsOn, WaysThere
    <3>6. ~Abort
      BY <1>5 DEF Abort, NothingRun, CutShort, RunsOn
    <3>2. ASSUME NEW t, \/ UserInput(t) \/ ToolInput(t) \/ LateToolInput(t) \/ AiContinue(t)
                        \/ SetAiPrefix(t)
          PROVE  \/ pc' \in {"idle", "chat", "save", "prompt", "undefined"}
                 \/ pc' = "generate" /\ call' = "continue"
                 \/ pc = "done" /\ pc' = "done" /\ UNCHANGED <<call, initializing>>
      BY <3>2 DEF UserInput, ToolInput, LateToolInput, AiContinue, SetAiPrefix, callVars
    <3>3. ASSUME NEW p, Restart(p) \/ HistorySetCursor(p) \/ HistorySetCursorAstray(p)
                           \/ SetCursor(p)
          PROVE  pc' \in {"idle", "undefined"}
      BY <3>3 DEF Restart, HistorySetCursor, HistorySetCursorAstray, SetCursor
    <3>4. ASSUME NEW r, NEW t, HistoryAppend(r, t) PROVE pc' = "idle"
      BY <3>4 DEF HistoryAppend
    <3>5. ASSUME SaveSession \/ SavePrompt \/ LoadSession \/ \E read : LoadSessionFails(read)
          PROVE  pc' \in {"idle", "prompt"}
      BY <3>5 DEF SaveSession, SavePrompt, LoadSession, LoadSessionFails
    <3>. QED BY <1>5, <3>1, <3>2, <3>3, <3>4, <3>5, <3>6 DEF Next
  <2>2. program' = program
    BY <1>5, ProgramStays
  <2>. QED BY <2>1, <2>2 DEF WaysThere
<1>6. ASSUME Next, pc = "generate"
      PROVE  Ends
  <2>1. ~Chat /\ ~Retry /\ ~ShiftMemory /\ ~Answer /\ ~Continued /\ ~EvalSysPrompt
        /\ ~WriteSession
    BY <1>6 DEF Chat, Retry, ShiftMemory, Answer, Continued, EvalSysPrompt, WriteSession
  <2>2. ASSUME NEW t PROVE /\ ~UserInput(t) /\ ~ToolInput(t) /\ ~LateToolInput(t)
                           /\ ~AiContinue(t) /\ ~SetAiPrefix(t)
    BY <1>6 DEF UserInput, ToolInput, LateToolInput, AiContinue, SetAiPrefix
  <2>3. ASSUME NEW p PROVE /\ ~Restart(p) /\ ~HistorySetCursor(p)
                           /\ ~HistorySetCursorAstray(p) /\ ~SetCursor(p)
    BY <1>6 DEF Restart, HistorySetCursor, HistorySetCursorAstray, SetCursor
  <2>4. ASSUME NEW r, NEW t PROVE ~HistoryAppend(r, t)
    BY <1>6 DEF HistoryAppend
  <2>5. ~SaveSession /\ ~SavePrompt /\ ~LoadSession /\ \A read : ~LoadSessionFails(read)
    BY <1>6 DEF SaveSession, SavePrompt, LoadSession, LoadSessionFails
  <2>. QED BY <1>6, <2>1, <2>2, <2>3, <2>4, <2>5 DEF Next, Turn, Abort, Ends
<1>. QED BY <1>1, <1>2, <1>3, <1>4, <1>5, <1>6

LEMMA FuelType ==
    ASSUME ConversationInv
    PROVE  /\ Fuel \in Nat /\ Space \in Nat /\ Place \in 1 .. 6
           /\ pc \in {"chat", "generate", "retry", "done"} => Fuel >= Place
<1>1. Space \in Nat
  <2>1. program.max_length \in Nat /\ Len(context) \in Nat /\ Len(context) <= program.max_length
    BY InvSays
  <2>. QED BY <2>1 DEF Space
<1>2. Place \in 1 .. 6
  BY DEF Place
<1>. QED BY <1>1, <1>2 DEF Fuel

LEMMA WeighsLess ==
    ASSUME NEW a \in Nat, NEW b \in Nat, NEW v \in {0, 8}, NEW w \in {0, 8},
           NEW p \in Nat, NEW q \in Nat, p < q, a < b \/ (a = b /\ v = w)
    PROVE  p + v + 16 * a < q + w + 16 * b
<1>. DEFINE c == 16 * a
            d == 16 * b
<1>1. (a < b => c + 16 <= d) /\ (a = b => c = d)
  OBVIOUS
<1>2. c \in Nat /\ d \in Nat
  OBVIOUS
<1>3. v \in Nat /\ w \in Nat /\ v <= w + 8
  OBVIOUS
<1>. HIDE DEF c, d
<1>4. p + v + c < q + w + d
  BY <1>1, <1>2, <1>3
<1>. QED BY <1>4 DEF c, d

\* The end of a call of generate: either it has said nothing and the context is as
\* it was, or the input at least has taken of the space.
LEMMA EndsSay ==
    ASSUME ConversationInv, ~Shifts, Ends
    PROVE  \/ context' = context /\ output' = <<>>
           \/ /\ Len(context') \in Nat /\ Len(context') <= program.max_length
              /\ Len(context') >= Len(context) + Len(input_ids)
<1>1. Said = <<>>
  BY DEF Said
<1>2. CASE NoRoom \/ NothingRun
  BY <1>1, <1>2 DEF NoRoom, NothingRun
<1>3. ASSUME NEW text \in Outputs, Complete(text) \/ CutShort(text) \/ RunOut(text)
      PROVE  /\ Len(context') \in Nat /\ Len(context') <= program.max_length
             /\ Len(context') >= Len(context) + Len(input_ids)
  <2>1. text \in Seq(Piece) /\ Run(text) \in Seq(Piece)
    <3>1. text \in Seq(Piece)
      BY InvSays, OutputsType, AnswersType
    <3>. QED BY <3>1, RunType
  <2>2. PICK tokens \in Seq(Piece) : RunsOn(tokens)
    BY <1>3, <2>1 DEF Complete, CutShort, RunOut
  <2>3. /\ context' \in Seq(Items) /\ Len(context') <= program.max_length
        /\ Len(context') = Len(context) + Len(input_ids) + Len(tokens)
    BY <2>2, RunsOnType
  <2>4. Len(context) \in Nat /\ Len(input_ids) \in Nat /\ Len(tokens) \in Nat
    BY InvSays
  <2>. QED BY <2>3, <2>4
<1>. QED BY <1>2, <1>3 DEF Ends

LEMMA EndsUseFuel ==
    ASSUME ConversationInv, ConversationInv', WaysThere, ~SpeaksOn, Ends
    PROVE  Fuel' < Fuel
<1>1. /\ program.extending \in {"none", "restart"} /\ program' = program
      /\ program.max_length \in Nat /\ Len(context) \in Nat
      /\ Len(context) <= program.max_length
  <2>1. program.extending \in {"none", "restart", "shift"}
    BY InvSays, ProgramType, ConversationAssumption
  <2>. QED BY <2>1, InvSays, EndsAre DEF SpeaksOn
<1>2. Space \in Nat
  BY FuelType
<1>3. call \in {"chat", "continue"} /\ retried \in BOOLEAN /\ initializing \in BOOLEAN
  BY DEF ConversationInv, TypeOK
<1>. DEFINE w == IF Awaited THEN 8 ELSE 0
<1>4. w \in {0, 8} /\ w' \in {0, 8}
  OBVIOUS
<1>5. /\ pc = "generate"
      /\ UNCHANGED <<call, retried, tool_input, initializing, input_ids>>
      /\ pc' \in {"done", "retry"} /\ ~Shifts
      /\ pc' = "retry" => ~retried /\ (call = "continue" \/ program.extending = "restart")
  BY <1>1, EndsAre DEF Shifts, Retries
<1>6. Place' < Place /\ Place \in Nat /\ Place' \in Nat
  BY <1>3, <1>5 DEF Place
<1>7. CASE call = "continue"
  BY <1>5, <1>6, <1>7 DEF Fuel
<1>8. CASE call = "chat" /\ program.extending = "restart"
  <2>1. Fuel = Place + w + 16 * 0 /\ Fuel' = Place' + w + 16 * 0
    BY <1>1, <1>5, <1>8 DEF Fuel, Awaited, Space
  <2>. HIDE DEF w
  <2>2. Place' + w + 16 * 0 < Place + w + 16 * 0
    BY <1>4, <1>6, WeighsLess
  <2>. QED BY <2>1, <2>2
<1>9. CASE call = "chat" /\ program.extending = "none"
  <2>1. pc' = "done" /\ ~initializing /\ input_ids # <<>>
    BY <1>5, <1>9 DEF WaysThere
  <2>2. Fuel = Place + w + 16 * Space /\ Fuel' = Place' + w' + 16 * Space'
    BY <1>5, <1>9, <2>1 DEF Fuel
  <2>3. CASE context' = context /\ output' = <<>>
    <3>1. w' = w /\ Space' = Space
      BY <1>1, <1>5, <2>3 DEF Awaited, Space
    <3>. HIDE DEF w
    <3>2. Place' + w' + 16 * Space' < Place + w + 16 * Space
      BY <1>2, <1>4, <1>6, <3>1, WeighsLess
    <3>. QED BY <2>2, <3>2
  <2>4. CASE /\ Len(context') \in Nat /\ Len(context') <= program.max_length
             /\ Len(context') >= Len(context) + Len(input_ids)
    <3>1. Len(input_ids) \in Nat /\ Len(input_ids) >= 1
      BY <2>1, InvSays
    <3>2. /\ Space = program.max_length - Len(context)
          /\ Space' = program.max_length - Len(context')
      BY <1>1, <1>5, <1>9, <2>1 DEF Space
    <3>. HIDE DEF w
    <3>3. Space' \in Nat /\ Space' < Space
      BY <1>1, <2>4, <3>1, <3>2
    <3>4. Place' + w' + 16 * Space' < Place + w + 16 * Space
      BY <1>2, <1>4, <1>6, <3>3, WeighsLess
    <3>. QED BY <2>2, <3>4
  <2>. QED BY <1>5, <2>3, <2>4, EndsSay
<1>. QED BY <1>1, <1>3, <1>7, <1>8, <1>9

LEMMA TurnUsesFuel ==
    ASSUME ConversationInv, ConversationInv', WaysThere, ~SpeaksOn, Turn
    PROVE  Fuel' < Fuel
<1>1. /\ program.extending \in {"none", "restart"} /\ program' = program
      /\ program.max_length \in Nat /\ Len(context) \in Nat
      /\ Len(context) <= program.max_length
  <2>1. program.extending \in {"none", "restart", "shift"}
    BY InvSays, ConversationAssumption
  <2>. QED BY <2>1, InvSays, ProgramStays DEF SpeaksOn, Next
<1>2. Fuel \in Nat /\ Space \in Nat
  BY FuelType
<1>3. call \in {"chat", "continue"} /\ retried \in BOOLEAN /\ initializing \in BOOLEAN
  BY DEF ConversationInv, TypeOK
<1>. DEFINE w == IF Awaited THEN 8 ELSE 0
<1>4. w \in {0, 8}
  OBVIOUS
<1>5. CASE Chat
  <2>1. /\ pc = "chat" /\ pc' = "generate" /\ call' = "chat" /\ retried' = FALSE
        /\ initializing' = FALSE /\ tool_input' = tool_input
        /\ context' = IF ~initializing THEN context ELSE <<>>
    BY <1>5 DEF Chat
  <2>2. Fuel = Place + w + 16 * Space /\ Place = 6
    BY <2>1 DEF Fuel, Place
  <2>3. Fuel' = Place' + w + 16 * Space' /\ Place' = 5
    BY <1>1, <2>1 DEF Fuel, Place, Awaited
  <2>4. Space' \in Nat /\ (Space' < Space \/ Space' = Space)
    BY <1>1, <1>3, <2>1 DEF Space
  <2>. HIDE DEF w
  <2>5. Place \in Nat /\ Place' \in Nat /\ Place' < Place
    BY <2>2, <2>3
  <2>6. Place' + w + 16 * Space' < Place + w + 16 * Space
    BY <1>2, <1>4, <2>4, <2>5, WeighsLess
  <2>. QED BY <2>2, <2>3, <2>6
<1>6. CASE Retry
  <2>1. /\ pc = "retry" /\ pc' = "generate" /\ retried' = TRUE
        /\ UNCHANGED <<call, tool_input, initializing>>
    BY <1>6 DEF Retry
  <2>2. CASE call = "continue"
    BY <2>1, <2>2 DEF Fuel, Place
  <2>3. CASE call = "chat"
    <3>1. program.extending = "restart"
      BY <2>1, <2>3 DEF WaysThere
    <3>2. Fuel = 4 + w + 16 * 0 /\ Fuel' = 3 + w + 16 * 0
      BY <1>1, <2>1, <2>3, <3>1 DEF Fuel, Place, Awaited, Space
    <3>. HIDE DEF w
    <3>. QED BY <1>4, <3>2
  <2>. QED BY <1>3, <2>2, <2>3
<1>7. CASE ShiftMemory
  BY <1>1, <1>7 DEF ShiftMemory, WaysThere
<1>8. CASE Answer
  <2>1. /\ pc = "done" /\ call = "chat" /\ tool_input' = <<>>
        /\ pc' = IF tool_input = <<>> THEN "idle" ELSE "chat"
        /\ UNCHANGED <<context, initializing>>
    BY <1>8 DEF Answer
  <2>2. Fuel = 1 + w + 16 * Space
    BY <2>1 DEF Fuel, Place
  <2>3. CASE tool_input = <<>>
    <3>1. Fuel' = 0
      BY <2>1, <2>3 DEF Fuel
    <3>. HIDE DEF w
    <3>. QED BY <1>2, <1>4, <2>2, <3>1
  <2>4. CASE tool_input # <<>>
    <3>1. w = 8
      BY <2>4 DEF Awaited
    <3>2. Fuel' = 6 + 0 + 16 * Space
      BY <1>1, <2>1, <2>4 DEF Fuel, Place, Awaited, Space
    <3>. HIDE DEF w
    <3>. QED BY <1>2, <2>2, <3>1, <3>2
  <2>. QED BY <2>3, <2>4
<1>9. CASE Continued \/ WriteSession
  <2>1. Fuel' = 0 /\ Fuel >= 1
    BY <1>9 DEF Continued, WriteSession, Fuel, Place
  <2>. QED BY <1>2, <2>1
<1>10. CASE EvalSysPrompt
  BY <1>10 DEF EvalSysPrompt, Fuel
<1>11. CASE NoRoom \/ \E text \in Outputs : Complete(text) \/ RunOut(text)
  <2>1. Ends
    BY <1>11 DEF Ends
  <2>. QED BY <2>1, EndsUseFuel
<1>. QED BY <1>5, <1>6, <1>7, <1>8, <1>9, <1>10, <1>11 DEF Turn

\* A tool that speaks up had been reckoned with.
LEMMA ToolAddsNoFuel ==
    ASSUME ConversationInv, ~SpeaksOn, NEW t, ToolInput(t),
           Allowed("tool") \/ Allowed("completion")
    PROVE  Fuel' = Fuel
<1>1. /\ pc = "done" /\ pc' = "done" /\ output # <<>> /\ tool_input' = <<t>>
      /\ UNCHANGED <<program, context, initializing, call, retried, output>>
  BY DEF ToolInput, callVars
<1>2. program.extending = "none"
  <2>1. program.extending \in {"none", "restart", "shift"}
    BY InvSays, ConversationAssumption
  <2>. QED BY <2>1 DEF SpeaksOn
<1>3. Awaited /\ Awaited'
  BY <1>1, <1>2 DEF Awaited
<1>. QED BY <1>1, <1>3 DEF Fuel, Place, Space

\* Each step of a turn leaves less to do, and no text that a tool brings adds to
\* it, unless the program's model and tools may speak for ever: through answers
\* that are cut short or that tools answer, a context that runs out and is begun anew, answers that are
\* continued, and a system prompt that is saved.  With this TurnEnds needs no more
\* than that the thread goes on.
THEOREM FuelIsUsed ==
    Spec => /\ [](Fuel \in Nat)
            /\ [][~SpeaksOn => (pc # "idle" => Fuel' <= Fuel) /\ (Turn => Fuel' < Fuel)]_vars
<1>. DEFINE Uses == ~SpeaksOn => (pc # "idle" => Fuel' <= Fuel) /\ (Turn => Fuel' < Fuel)
<1>1. Init => WaysThere
  BY DEF Init, WaysThere
<1>2. ConversationInv /\ WaysThere /\ [Next]_vars => ConversationInv' /\ WaysThere'
  BY ConversationNext, WaysNext
<1>3. ConversationInv => Fuel \in Nat
  BY FuelType
<1>4. (ConversationInv => Fuel \in Nat)'
  BY <1>3, PTL
<1>5. ASSUME ConversationInv, ConversationInv', WaysThere, [Next]_vars PROVE [Uses]_vars
  <2>. SUFFICES ASSUME ~SpeaksOn, Next
                PROVE  (pc # "idle" => Fuel' <= Fuel) /\ (Turn => Fuel' < Fuel)
    BY <1>5
  <2>1. Fuel \in Nat /\ Fuel' \in Nat
    BY <1>3, <1>4, <1>5
  <2>2. Turn => Fuel' < Fuel
    BY <1>5, TurnUsesFuel
  <2>3. ASSUME NEW t, ToolInput(t), Allowed("tool") \/ Allowed("completion")
        PROVE  Fuel' = Fuel
    BY <1>5, <2>3, ToolAddsNoFuel
  <2>5. ASSUME Abort PROVE Fuel' < Fuel
    <3>1. Ends
      BY <2>5 DEF Abort, Ends
    <3>. QED BY <1>5, <3>1, EndsUseFuel
  <2>6. ASSUME NEW t, SetAiPrefix(t), pc # "idle" PROVE Fuel' = Fuel
    <3>1. UNCHANGED <<program, context, initializing, tool_input, pc, call, retried, output>>
      BY <2>6 DEF SetAiPrefix, callVars
    <3>. QED BY <3>1 DEF Fuel, Place, Awaited, Space
  <2>4. ASSUME pc # "idle", ~Turn
        PROVE  \/ \E t : ToolInput(t) /\ (Allowed("tool") \/ Allowed("completion"))
               \/ Abort \/ \E t : SetAiPrefix(t)
    <3>1. ASSUME NEW t PROVE ~UserInput(t) /\ ~LateToolInput(t) /\ ~AiContinue(t)
      BY <2>4 DEF UserInput, LateToolInput, AiContinue
    <3>2. ASSUME NEW p PROVE /\ ~Restart(p) /\ ~HistorySetCursor(p)
                             /\ ~HistorySetCursorAstray(p) /\ ~SetCursor(p)
      BY <2>4 DEF Restart, HistorySetCursor, HistorySetCursorAstray, SetCursor
    <3>3. ASSUME NEW r, NEW t PROVE ~HistoryAppend(r, t)
      BY <2>4 DEF HistoryAppend
    <3>4. ~SaveSession /\ ~SavePrompt /\ ~LoadSession /\ \A read : ~LoadSessionFails(read)
      BY <2>4 DEF SaveSession, SavePrompt, LoadSession, LoadSessionFails
    <3>. QED BY <2>4, <3>1, <3>2, <3>3, <3>4 DEF Next
  <2>. HIDE DEF Fuel, Turn, Allowed, Abort
  <2>. QED BY <2>1, <2>2, <2>3, <2>4, <2>5, <2>6
<1>. QED BY <1>1, <1>2, <1>3, <1>5, InitStep, PTL DEF Spec
=============================================================================
