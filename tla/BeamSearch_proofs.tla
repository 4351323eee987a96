-------------------------- MODULE BeamSearch_proofs --------------------------
(***************************************************************************)
(* Theorems about BeamSearch, for every vocabulary, number of beams and    *)
(* limit of the length.                                                    *)
(***************************************************************************)
EXTENDS BeamSearch, FiniteSetTheorems, SequenceTheorems, TLAPS

Phase == {"prompt", "run", "select", "extend", "share", "displace", "done"}
BeamState == [trace : Seq(Token), completed : BOOLEAN, session : Seq(Token),
              mixed : BOOLEAN]
Selection == [beam : Beam, token : Token, trace : Seq(Token)]

Says(b) == beams[b].trace
Continuation(i) == Append(selected[i].trace, selected[i].token)

\* The beams of this round: those that were live when it began.
InRound == Live \cup updated

Between == phase \in {"run", "select", "done"}
Within  == phase \in {"extend", "share", "displace"}

\* What a round works with is gone between rounds.
Cleared == /\ phase = "prompt" \/ Between => selected = <<>>
           /\ phase = "prompt" \/ Between \/ phase = "extend" =>
                updated = {} /\ candidates = {}
           /\ phase \in {"share", "displace"} \/ taken = {}
           /\ phase = "share" => taken = {}

\* Live beams are as long as any: a continuation is longer than what has ended.
Level == phase \in {"run", "select", "extend"} =>
            \A b \in Live, c \in Beam : Len(Says(c)) <= Len(Says(b))

Distinct == phase # "prompt" =>
    /\ \A b \in Beam : Says(b) # <<>>
    /\ \A b, c \in Beam : Says(b) = Says(c) => b = c

SessionFits(b) == ~beams[b].mixed => Append(beams[b].session, Last(Says(b))) = Says(b)

Sessions ==
    /\ phase = "run" => \A b \in Live : SessionFits(b)
    /\ phase \in {"select", "extend"} =>
         \A b \in Live : ~beams[b].mixed => beams[b].session = Says(b)

\* The selections are different continuations of the beams of the round, one
\* longer than those, and their source's session is theirs while it is kept.
Selections == Within =>
    /\ selected \in [Beam -> Selection]
    /\ \A i, j \in Beam : /\ Continuation(i) = Continuation(j) => i = j
                          /\ Len(selected[i].trace) = Len(selected[j].trace)
    /\ \A i \in Beam : LET c == selected[i].beam IN
          /\ c \in InRound
          /\ c \notin taken /\ ~beams[c].mixed => beams[c].session = selected[i].trace
          /\ phase = "extend" => Says(c) = selected[i].trace
    /\ \A b \in Beam \ InRound, i \in Beam : Len(Says(b)) <= Len(selected[i].trace)

\* The beams that have been updated say the selections that have been used.
Used(S) == /\ \A i \in S : \E b \in updated : Says(b) = Continuation(i)
           /\ \A b \in updated : /\ \E i \in S : Says(b) = Continuation(i)
                                 /\ SessionFits(b)

Sharing == phase = "share" =>
    /\ candidates \subseteq 1 .. Cardinality(InRound)
    /\ Cardinality(Live \ updated) = Cardinality(candidates)
    /\ Used((1 .. Cardinality(InRound)) \ candidates)

Displacing == phase = "displace" => Live \subseteq updated /\ Used(1 .. Cardinality(updated))

Inv == /\ TypeOK /\ Cleared /\ Level /\ Distinct /\ Sessions /\ Selections
       /\ Sharing /\ Displacing
-----------------------------------------------------------------------------
\* Places in the order of a set of numbers.

LEMMA SubsetsOfRange ==
    ASSUME NEW n \in Nat, NEW S \in SUBSET (1 .. n)
    PROVE  /\ IsFiniteSet(S) /\ Cardinality(S) \in 0 .. n
           /\ \A T \in SUBSET S : IsFiniteSet(T) /\ Cardinality(T) \in 0 .. Cardinality(S)
<1>1. IsFiniteSet(1 .. n) /\ Cardinality(1 .. n) = n
  BY FS_Interval
<1>2. IsFiniteSet(S) /\ Cardinality(S) <= n /\ Cardinality(S) \in Nat
  BY <1>1, FS_Subset, FS_CardinalityType
<1>3. ASSUME NEW T \in SUBSET S
      PROVE  IsFiniteSet(T) /\ Cardinality(T) <= Cardinality(S) /\ Cardinality(T) \in Nat
  BY <1>2, FS_Subset, FS_CardinalityType
<1>. QED BY <1>2, <1>3

LEMMA RankInSet ==
    ASSUME NEW n \in Nat, NEW S \in SUBSET (1 .. n), NEW x \in S
    PROVE  Rank(S, x) \in 1 .. Cardinality(S)
<1>. DEFINE low == {y \in S : y <= x}
<1>1. IsFiniteSet(low) /\ Cardinality(low) \in 0 .. Cardinality(S)
  BY SubsetsOfRange
<1>2. low # {}
  OBVIOUS
<1>3. Cardinality(low) # 0
  BY <1>1, <1>2, FS_EmptySet
<1>4. Cardinality(S) \in Nat
  BY SubsetsOfRange
<1>. QED BY <1>1, <1>3, <1>4 DEF Rank

LEMMA RankGrows ==
    ASSUME NEW n \in Nat, NEW S \in SUBSET (1 .. n), NEW x \in S, NEW y \in S, x < y
    PROVE  Rank(S, x) < Rank(S, y)
<1>. DEFINE low == {z \in S : z <= x}
            high == {z \in S : z <= y}
<1>1. IsFiniteSet(high) /\ Cardinality(high) \in Nat
  BY SubsetsOfRange
<1>2. low \subseteq high /\ y \in high /\ y \notin low
  <2>1. \A z \in S : z \in Int
    OBVIOUS
  <2>2. y <= y /\ ~(y <= x) /\ \A z \in S : z <= x => z <= y
    BY <2>1
  <2>. QED BY <2>2
<1>3. Cardinality(low) \in Nat /\ Cardinality(low) <= Cardinality(high)
  BY <1>1, <1>2, FS_Subset, FS_CardinalityType
<1>4. Cardinality(low) # Cardinality(high)
  BY <1>1, <1>2, FS_Subset
<1>. QED BY <1>1, <1>3, <1>4 DEF Rank

LEMMA RankInjective ==
    ASSUME NEW n \in Nat, NEW S \in SUBSET (1 .. n), NEW x \in S, NEW y \in S,
           Rank(S, x) = Rank(S, y)
    PROVE  x = y
<1>1. Rank(S, x) \in Nat /\ Rank(S, y) \in Nat
  <2>1. Cardinality(S) \in Nat
    BY SubsetsOfRange
  <2>2. Rank(S, x) \in 1 .. Cardinality(S) /\ Rank(S, y) \in 1 .. Cardinality(S)
    BY RankInSet
  <2>. QED BY <2>1, <2>2
<1>2. ~(x < y) /\ ~(y < x)
  <2>1. x < y => Rank(S, x) < Rank(S, y)
    BY RankGrows
  <2>2. y < x => Rank(S, y) < Rank(S, x)
    BY RankGrows
  <2>. QED BY <1>1, <2>1, <2>2
<1>3. x \in Int /\ y \in Int
  OBVIOUS
<1>. QED BY <1>2, <1>3

\* Every place is somebody's.
LEMMA RankOnto ==
    ASSUME NEW n \in Nat, NEW S \in SUBSET (1 .. n), NEW k \in 1 .. Cardinality(S)
    PROVE  \E x \in S : Rank(S, x) = k
<1>. DEFINE m == Cardinality(S)
            f == [x \in S |-> Rank(S, x)]
<1>1. IsFiniteSet(S) /\ m \in Nat
  BY SubsetsOfRange
<1>. HIDE DEF m
<1>2. f \in [S -> 1 .. m]
  BY RankInSet DEF m
<1>3. \A x, y \in S : f[x] = f[y] => x = y
  BY RankInjective
<1>4. f \in Injection(S, 1 .. m)
  BY <1>2, <1>3 DEF Injection, IsInjective
<1>5. IsFiniteSet(1 .. m) /\ Cardinality(1 .. m) = m
  BY <1>1, FS_Interval
<1>6. f \in Surjection(S, 1 .. m)
  BY <1>4, <1>5, FS_Injection DEF m
<1>. QED BY <1>6 DEF Surjection, m

\* The element of S that is in the place of x in T.
Match(S, T, x) == CHOOSE i \in S : Rank(S, i) = Rank(T, x)

LEMMA MatchExists ==
    ASSUME NEW n \in Nat, NEW S \in SUBSET (1 .. n), NEW T \in SUBSET (1 .. n),
           Cardinality(S) = Cardinality(T)
    PROVE  /\ \A x \in T : Match(S, T, x) \in S
           /\ \A x, y \in T : Match(S, T, x) = Match(S, T, y) => x = y
           /\ \A i \in S : \E x \in T : Match(S, T, x) = i
<1>1. ASSUME NEW x \in T
      PROVE  Match(S, T, x) \in S /\ Rank(S, Match(S, T, x)) = Rank(T, x)
  <2>1. Rank(T, x) \in 1 .. Cardinality(S)
    BY RankInSet
  <2>2. \E i \in S : Rank(S, i) = Rank(T, x)
    BY <2>1, RankOnto
  <2>. QED BY <2>2 DEF Match
<1>2. ASSUME NEW x \in T, NEW y \in T, Match(S, T, x) = Match(S, T, y)
      PROVE  x = y
  BY <1>1, <1>2, RankInjective
<1>3. ASSUME NEW i \in S PROVE \E x \in T : Match(S, T, x) = i
  <2>1. Rank(S, i) \in 1 .. Cardinality(T)
    BY RankInSet
  <2>2. PICK x \in T : Rank(T, x) = Rank(S, i)
    BY <2>1, RankOnto
  <2>3. Match(S, T, x) = i
    BY <1>1, <2>2, RankInjective
  <2>. QED BY <2>3
<1>. QED BY <1>1, <1>2, <1>3
-----------------------------------------------------------------------------
\* Steps.

LEMMA Beams == N \in Nat /\ Beam = 1 .. N /\ IsFiniteSet(Beam) /\ Cardinality(Beam) = N
<1>1. Cardinality(Token) \in Nat
  BY BeamAssumption, FS_CardinalityType
<1>2. N \in Nat
  BY <1>1, BeamAssumption
<1>. QED BY <1>2, FS_Interval DEF Beam

LEMMA AppendFacts ==
    ASSUME NEW S, NEW s \in Seq(S), NEW x \in S
    PROVE  /\ Append(s, x) \in Seq(S) /\ Append(s, x) # <<>>
           /\ Len(Append(s, x)) = Len(s) + 1 /\ Last(Append(s, x)) = x
<1>1. /\ Append(s, x) \in Seq(S) /\ Len(Append(s, x)) = Len(s) + 1
      /\ Append(s, x)[Len(s) + 1] = x /\ Append(s, x) # <<>>
  OBVIOUS
<1>. QED BY <1>1 DEF Last

LEMMA AppendEqual ==
    ASSUME NEW S, NEW s \in Seq(S), NEW x \in S, NEW t \in Seq(S), NEW y \in S,
           Append(s, x) = Append(t, y)
    PROVE  s = t /\ x = y
BY AppendProperties

LEMMA LastType ==
    ASSUME NEW S, NEW s \in Seq(S), s # <<>>
    PROVE  Last(s) \in S
BY DEF Last

LEMMA AddFacts ==
    ASSUME NEW beam \in BeamState, NEW trace \in Seq(Token), NEW token \in Token
    PROVE  /\ Add(beam, trace, token) \in BeamState
           /\ Add(beam, trace, token).trace = Append(trace, token)
           /\ Add(beam, trace, token).session = beam.session
           /\ Add(beam, trace, token).mixed = beam.mixed
<1>1. Append(trace, token) \in Seq(Token)
  OBVIOUS
<1>2. Ends(token, Len(trace) + 1) \in BOOLEAN
  BY DEF Ends
<1>. QED BY <1>1, <1>2 DEF Add, BeamState

LEMMA FreshType == Fresh \in BeamState
  BY DEF Fresh, BeamState

LEMMA InitInv == Init => Inv
<1>1. Init => TypeOK
  BY FreshType DEF Init, TypeOK, BeamState
<1>. QED
  BY <1>1 DEF Init, Inv, Cleared, Between, Level, Distinct, Sessions, Selections, Within,
              Sharing, Displacing

LEMMA DoChat0Step ==
    ASSUME Inv, DoChat0
    PROVE  Inv'
<1>1. PICK s \in [Beam -> Token] :
          /\ \A i, j \in Beam : s[i] = s[j] => i = j
          /\ beams' = [b \in Beam |-> Add(Fresh, <<>>, s[b])]
  BY DEF DoChat0
<1>2. /\ phase = "prompt" /\ phase' = "run" /\ selected' = selected /\ updated' = updated
      /\ candidates' = candidates /\ taken' = taken
  BY DEF DoChat0
<1>3. ASSUME NEW b \in Beam
      PROVE  /\ beams'[b] \in BeamState /\ beams'[b].trace = <<s[b]>>
             /\ beams'[b].session = <<>>
  <2>1. <<>> \in Seq(Token) /\ s[b] \in Token /\ Append(<<>>, s[b]) = <<s[b]>>
    OBVIOUS
  <2>. QED BY <1>1, <2>1, FreshType, AddFacts DEF Fresh
<1>4. TypeOK'
  BY <1>1, <1>2, <1>3 DEF Inv, TypeOK, BeamState
<1>5. Distinct' /\ Level' /\ Sessions'
  <2>1. ASSUME NEW b \in Beam, NEW c \in Beam
        PROVE  /\ beams'[b].trace = beams'[c].trace => b = c
               /\ Len(beams'[b].trace) = Len(beams'[c].trace) /\ beams'[b].trace # <<>>
    BY <1>1, <1>3
  <2>2. ASSUME NEW b \in Beam
        PROVE  Append(beams'[b].session, Last(beams'[b].trace)) = beams'[b].trace
    BY <1>3 DEF Last
  <2>3. \A b \in Beam : Len(beams'[b].trace) \in Nat
    BY <1>3
  <2>4. Live' \subseteq Beam
    BY DEF Live
  <2>5. Distinct'
    BY <2>1 DEF Distinct, Says
  <2>6. Level'
    BY <2>1, <2>3, <2>4 DEF Level, Says
  <2>7. Sessions'
    BY <1>2, <2>2, <2>4 DEF Sessions, SessionFits, Says
  <2>. QED BY <2>5, <2>6, <2>7
<1>. QED
  BY <1>2, <1>4, <1>5 DEF Inv, Cleared, Between, Selections, Within, Sharing, Displacing

LEMMA RunBeamsStep ==
    ASSUME Inv, RunBeams
    PROVE  Inv'
<1>1. /\ phase = "run" /\ phase' = "select" /\ selected' = selected /\ updated' = updated
      /\ candidates' = candidates /\ taken' = taken
      /\ beams' = [b \in Beam |-> IF b \notin Live THEN beams[b]
             ELSE [beams[b] EXCEPT !.session = Append(@, Last(beams[b].trace))]]
  BY DEF RunBeams
<1>2. \A b \in Beam : beams[b] \in BeamState
  BY DEF Inv, TypeOK, BeamState
<1>3. ASSUME NEW b \in Beam
      PROVE  /\ beams'[b] \in BeamState /\ beams'[b].trace = beams[b].trace
             /\ beams'[b].completed = beams[b].completed /\ beams'[b].mixed = beams[b].mixed
             /\ b \in Live => beams'[b].session = Append(beams[b].session, Last(beams[b].trace))
  <2>1. Last(beams[b].trace) \in Token
    BY <1>1, <1>2, LastType DEF Inv, Distinct, Says, BeamState
  <2>2. Append(beams[b].session, Last(beams[b].trace)) \in Seq(Token)
    BY <1>2, <2>1, AppendFacts DEF BeamState
  <2>. QED BY <1>1, <1>2, <2>2 DEF BeamState
<1>4. TypeOK'
  BY <1>1, <1>3 DEF Inv, TypeOK, BeamState
<1>5. Live' = Live /\ Live \subseteq Beam
  BY <1>3 DEF Live, Completed
<1>6. Distinct' /\ Level'
  BY <1>1, <1>3, <1>5 DEF Inv, Distinct, Level, Says
<1>7. Sessions'
  BY <1>1, <1>3, <1>5 DEF Inv, Sessions, SessionFits, Says
<1>. QED
  BY <1>1, <1>4, <1>6, <1>7 DEF Inv, Cleared, Between, Selections, Within, Sharing, Displacing

LEMMA SelectStep ==
    ASSUME Inv, Select
    PROVE  Inv'
<1>1. PICK s \in TopK :
          selected' = [i \in Beam |-> [beam |-> s[i][1], token |-> s[i][2],
                                       trace |-> beams[s[i][1]].trace]]
  BY DEF Select
<1>2. /\ phase = "select" /\ phase' = "extend" /\ beams' = beams /\ updated' = updated
      /\ candidates' = candidates /\ taken' = taken
  BY DEF Select
<1>3. \A b \in Beam : beams[b] \in BeamState /\ beams[b].trace \in Seq(Token)
  BY DEF Inv, TypeOK, BeamState
<1>4. Live \subseteq Beam /\ Live' = Live
  BY <1>2 DEF Live, Completed
<1>5. ASSUME NEW i \in Beam
      PROVE  /\ selected'[i].beam \in Live /\ selected'[i].token \in Token
             /\ selected'[i].trace = beams[selected'[i].beam].trace
             /\ selected'[i].trace \in Seq(Token)
             /\ selected'[i] \in Selection
             /\ s[i] = <<selected'[i].beam, selected'[i].token>>
  <2>1. s[i] \in Live \X Token
    BY DEF TopK
  <2>2. s[i][1] \in Live /\ s[i][2] \in Token /\ s[i] = <<s[i][1], s[i][2]>>
    BY <2>1
  <2>. QED BY <1>1, <1>3, <1>4, <2>2 DEF Selection
<1>6. TypeOK'
  BY <1>1, <1>2, <1>5 DEF Inv, TypeOK, Selection
<1>7. Distinct' /\ Level' /\ Sessions'
  BY <1>2, <1>4 DEF Inv, Distinct, Level, Sessions, SessionFits, Says
<1>8. Selections'
  <2>1. ASSUME NEW i \in Beam, NEW j \in Beam
        PROVE  Len(selected'[i].trace) = Len(selected'[j].trace)
    <3>1. /\ Len(selected'[i].trace) <= Len(selected'[j].trace)
          /\ Len(selected'[j].trace) <= Len(selected'[i].trace)
      BY <1>2, <1>4, <1>5 DEF Inv, Level, Says
    <3>. QED BY <1>5, <3>1
  <2>2. ASSUME NEW i \in Beam, NEW j \in Beam, Continuation(i)' = Continuation(j)'
        PROVE  i = j
    <3>1. selected'[i].trace = selected'[j].trace /\ selected'[i].token = selected'[j].token
      <4>. DEFINE s1 == selected'[i].trace
                  x1 == selected'[i].token
                  s2 == selected'[j].trace
                  x2 == selected'[j].token
      <4>1. Append(s1, x1) = Append(s2, x2)
        BY <2>2 DEF Continuation
      <4>2. s1 \in Seq(Token) /\ x1 \in Token /\ s2 \in Seq(Token) /\ x2 \in Token
        BY <1>5
      <4>. HIDE DEF s1, x1, s2, x2
      <4>3. s1 = s2 /\ x1 = x2
        BY <4>1, <4>2, AppendEqual
      <4>. QED BY <4>3 DEF s1, x1, s2, x2
    <3>2. selected'[i].beam = selected'[j].beam
      BY <1>2, <1>4, <1>5, <3>1 DEF Inv, Distinct, Says
    <3>3. s[i] = s[j]
      BY <1>5, <3>1, <3>2
    <3>. QED BY <3>3 DEF TopK
  <2>3. ASSUME NEW b \in Beam, NEW i \in Beam
        PROVE  Len(beams[b].trace) <= Len(selected'[i].trace)
    BY <1>2, <1>4, <1>5 DEF Inv, Level, Says
  <2>4. selected' \in [Beam -> Selection]
    BY <1>1, <1>5
  <2>5. ASSUME NEW i \in Beam
        PROVE  LET c == selected'[i].beam IN
               /\ c \in InRound'
               /\ ~beams[c].mixed => beams[c].session = selected'[i].trace
    BY <1>2, <1>4, <1>5 DEF InRound, Inv, Sessions, Says
  <2>. QED BY <1>2, <1>5, <2>1, <2>2, <2>3, <2>4, <2>5 DEF Selections, Says
<1>. QED
  BY <1>2, <1>6, <1>7, <1>8 DEF Inv, Cleared, Between, Sharing, Displacing

LEMMA DoneStep ==
    ASSUME Inv, Done
    PROVE  Inv'
<1>1. UNCHANGED <<beams, selected, updated, candidates, taken>> /\ phase = "run" /\ phase' = "done"
  BY DEF Done
<1>2. TypeOK'
  BY <1>1 DEF Inv, TypeOK
<1>. QED
  BY <1>1, <1>2 DEF Inv, Cleared, Between, Level, Distinct, Sessions, SessionFits, Selections, Within,
              Sharing, Displacing, Says, Live, Completed

LEMMA Stutter ==
    ASSUME Inv, UNCHANGED vars
    PROVE  Inv'
<1>1. UNCHANGED beams /\ UNCHANGED selected /\ UNCHANGED updated /\ UNCHANGED candidates
      /\ UNCHANGED taken /\ UNCHANGED phase
  BY DEF vars
<1>2. Live' = Live /\ InRound' = InRound /\ \A b : Says(b)' = Says(b)
  BY <1>1 DEF Live, Completed, InRound, Says
<1>3. \A b : SessionFits(b)' <=> SessionFits(b)
  BY <1>1, <1>2 DEF SessionFits
<1>4. \A i : Continuation(i)' = Continuation(i)
  BY <1>1 DEF Continuation
<1>5. TypeOK' /\ Cleared' /\ Level' /\ Distinct'
  BY <1>1, <1>2 DEF Inv, TypeOK, Cleared, Between, Level, Distinct
<1>6. Sessions'
  BY <1>1, <1>2, <1>3 DEF Inv, Sessions
<1>7. Selections'
  BY <1>1, <1>2, <1>4 DEF Inv, Selections, Within
<1>8. \A S : Used(S)' <=> Used(S)
  BY <1>1, <1>2, <1>3, <1>4 DEF Used
<1>9. Sharing' /\ Displacing'
  BY <1>1, <1>2, <1>8 DEF Inv, Sharing, Displacing
<1>. QED BY <1>5, <1>6, <1>7, <1>9 DEF Inv
\* In a round all sources are equally long; a continuation is one longer, and
\* determines its selection.
OfLength(len) ==
    /\ \A i \in Beam : /\ selected[i] \in Selection /\ selected[i].trace \in Seq(Token)
                       /\ selected[i].token \in Token /\ selected[i].beam \in Beam
                       /\ Len(selected[i].trace) = len
                       /\ Continuation(i) \in Seq(Token)
                       /\ Len(Continuation(i)) = len + 1
                       /\ Continuation(i) # <<>>
                       /\ Last(Continuation(i)) = selected[i].token
    /\ \A b \in Beam \ InRound : Len(Says(b)) <= len
    /\ \A b \in Beam : Says(b) \in Seq(Token) /\ Len(Says(b)) \in Nat

LEMMA RoundFacts ==
    ASSUME Inv, Within
    PROVE  \E len \in Nat : OfLength(len)
<1>1. \A b \in Beam : Says(b) \in Seq(Token) /\ Len(Says(b)) \in Nat
  BY DEF Inv, TypeOK, Says
<1>2. 1 \in Beam
  BY Beams, BeamAssumption DEF Beam
<1>. DEFINE len == Len(selected[1].trace)
<1>3. ASSUME NEW i \in Beam
      PROVE  /\ selected[i] \in Selection /\ selected[i].trace \in Seq(Token)
             /\ selected[i].token \in Token /\ selected[i].beam \in Beam
             /\ Len(selected[i].trace) = len
  BY <1>2 DEF Inv, Selections, Selection
<1>4. len \in Nat
  BY <1>2, <1>3
<1>5. ASSUME NEW i \in Beam
      PROVE  /\ Continuation(i) \in Seq(Token) /\ Len(Continuation(i)) = len + 1
             /\ Continuation(i) # <<>> /\ Last(Continuation(i)) = selected[i].token
  BY <1>3, AppendFacts DEF Continuation
<1>6. \A b \in Beam \ InRound : Len(Says(b)) <= len
  BY <1>2 DEF Inv, Selections
<1>. HIDE DEF len
<1>. QED BY <1>1, <1>3, <1>4, <1>5, <1>6 DEF OfLength

LEMMA BecomesFacts ==
    ASSUME Inv, Within, NEW b \in Beam, NEW i \in Beam
    PROVE  /\ Becomes(b, i) \in BeamState
           /\ Becomes(b, i).trace = Continuation(i)
           /\ ~Becomes(b, i).mixed =>
                 Append(Becomes(b, i).session, Last(Continuation(i))) = Continuation(i)
<1>. DEFINE c == selected[i].beam
            m == beams[c].mixed \/ c \in taken
            base == Add(Fresh, selected[i].trace, selected[i].token)
<1>1. /\ selected[i].trace \in Seq(Token) /\ selected[i].token \in Token /\ c \in Beam
      /\ Last(Continuation(i)) = selected[i].token
  BY RoundFacts DEF OfLength
<1>2. base \in BeamState /\ base.trace = Continuation(i)
  BY <1>1, FreshType, AddFacts DEF Continuation
<1>3. beams[c] \in BeamState
  BY <1>1 DEF Inv, TypeOK, BeamState
<1>4. m \in BOOLEAN /\ beams[c].session \in Seq(Token)
  BY <1>3 DEF BeamState
<1>5. Becomes(b, i) = [base EXCEPT !.session = beams[c].session, !.mixed = m]
  BY DEF Becomes
<1>6. ~m => beams[c].session = selected[i].trace
  BY <1>1 DEF Inv, Selections
<1>. HIDE DEF m, base, c
<1>7. /\ Becomes(b, i) \in BeamState /\ Becomes(b, i).trace = base.trace
      /\ Becomes(b, i).session = beams[c].session /\ Becomes(b, i).mixed = m
  BY <1>2, <1>4, <1>5 DEF BeamState
<1>. QED BY <1>1, <1>2, <1>6, <1>7 DEF Continuation

LEMMA FirstsFacts ==
    ASSUME Inv, phase = "extend"
    PROVE  /\ R \in 0 .. N /\ Firsts \subseteq 1 .. R /\ 1 .. R \subseteq Beam
           /\ \A i, j \in Firsts : selected[i].beam = selected[j].beam => i = j
<1>1. R \in 0 .. N
  BY Beams, SubsetsOfRange DEF R, Live
<1>2. Firsts \subseteq 1 .. R /\ 1 .. R \subseteq Beam
  BY <1>1, Beams DEF Firsts
<1>3. ASSUME NEW i \in Firsts, NEW j \in Firsts, selected[i].beam = selected[j].beam
      PROVE  i = j
  <2>1. i \in Int /\ j \in Int /\ i >= 1 /\ j >= 1
    BY <1>1, <1>2
  <2>2. ~(i < j)
    BY <1>3, <2>1 DEF Firsts
  <2>3. ~(j < i)
    BY <1>3, <2>1 DEF Firsts
  <2>. QED BY <2>1, <2>2, <2>3
<1>. QED BY <1>1, <1>2, <1>3

\* Where the first selections lead, and what is left for how many beams.
LEMMA ExtendCounts ==
    ASSUME Inv, phase = "extend"
    PROVE  LET first == {selected[i].beam : i \in Firsts}
           IN  /\ first \subseteq Live
               /\ Cardinality(Live \ first) = Cardinality((1 .. R) \ Firsts)
<1>. DEFINE first == {selected[i].beam : i \in Firsts}
            f == [i \in Firsts |-> selected[i].beam]
<1>1. /\ R \in Nat /\ R \in 0 .. N /\ Firsts \subseteq 1 .. R /\ Firsts \subseteq Beam
      /\ \A i, j \in Firsts : selected[i].beam = selected[j].beam => i = j
  BY FirstsFacts, Beams
<1>2. Live \subseteq 1 .. N /\ IsFiniteSet(Live)
  BY Beams, SubsetsOfRange DEF Live
<1>3. IsFiniteSet(1 .. R) /\ Cardinality(1 .. R) = R /\ IsFiniteSet(Firsts)
  <2>1. IsFiniteSet(1 .. R) /\ Cardinality(1 .. R) = IF 1 > R THEN 0 ELSE R - 1 + 1
    BY <1>1, FS_Interval
  <2>2. IsFiniteSet(Firsts)
    BY <1>1, <2>1, FS_Subset
  <2>. QED BY <1>1, <2>1, <2>2
<1>4. first \subseteq Live
  <2>1. updated = {}
    BY DEF Inv, Cleared
  <2>2. \A i \in Beam : selected[i].beam \in InRound
    BY DEF Inv, Selections, Within
  <2>3. \A i \in Firsts : selected[i].beam \in Live
    BY <1>1, <2>1, <2>2 DEF InRound
  <2>. QED BY <2>3
<1>5. f \in Bijection(Firsts, first)
  BY <1>1 DEF Bijection, Injection, IsInjective, Surjection
<1>6. IsFiniteSet(first) /\ Cardinality(first) = Cardinality(Firsts)
  BY <1>3, <1>5, FS_Bijection DEF ExistsBijection
<1>. HIDE DEF first, f
<1>7. Cardinality(Live \ first) = R - Cardinality(first)
  <2>1. Live \cap first = first
    BY <1>4
  <2>. QED BY <1>2, <1>6, <2>1, FS_Difference DEF R
<1>8. Cardinality((1 .. R) \ Firsts) = R - Cardinality(Firsts)
  <2>1. (1 .. R) \cap Firsts = Firsts
    BY <1>1
  <2>. QED BY <1>3, <2>1, FS_Difference
<1>. QED BY <1>4, <1>6, <1>7, <1>8 DEF first
LEMMA ExtendStep ==
    ASSUME Inv, Extend
    PROVE  Inv'
<1>. DEFINE first == {selected[i].beam : i \in Firsts}
<1>1. /\ phase = "extend" /\ phase' = "share" /\ selected' = selected /\ taken' = taken
      /\ updated' = first /\ candidates' = (1 .. R) \ Firsts
      /\ beams' = [b \in Beam |->
           IF \E i \in Firsts : selected[i].beam = b
           THEN LET i == CHOOSE i \in Firsts : selected[i].beam = b
                IN  Add(beams[b], beams[b].trace, selected[i].token)
           ELSE beams[b]]
  BY DEF Extend
<1>2. Within /\ Within' /\ updated = {} /\ candidates = {} /\ taken = {} /\ InRound = Live
  BY <1>1 DEF Within, Inv, Cleared, InRound
<1>3. PICK len \in Nat : OfLength(len)
  BY <1>2, RoundFacts
<1>. USE DEF OfLength
<1>4. /\ R \in 0 .. N /\ Firsts \subseteq 1 .. R /\ 1 .. R \subseteq Beam /\ Firsts \subseteq Beam
      /\ \A i, j \in Firsts : selected[i].beam = selected[j].beam => i = j
  BY <1>1, FirstsFacts
<1>5. /\ first \subseteq Live /\ Cardinality(Live \ first) = Cardinality((1 .. R) \ Firsts)
      /\ Live \subseteq Beam
  BY <1>1, ExtendCounts DEF Live
<1>6. \A b \in Beam : beams[b] \in BeamState
  BY DEF Inv, TypeOK, BeamState
<1>7. ASSUME NEW i \in Firsts, NEW b \in Beam, b = selected[i].beam
      PROVE  /\ beams'[b] \in BeamState /\ beams'[b].trace = Continuation(i)
             /\ beams'[b].session = beams[b].session /\ beams'[b].mixed = beams[b].mixed
             /\ Says(b) = selected[i].trace /\ SessionFits(b)'
  <2>1. i \in Beam /\ b \in Live /\ beams[b] \in BeamState
        /\ selected[i].token \in Token /\ Says(b) \in Seq(Token)
    BY <1>3, <1>4, <1>5, <1>6, <1>7
  <2>2. (CHOOSE j \in Firsts : selected[j].beam = b) = i
    BY <1>4, <1>7
  <2>3. beams'[b] = Add(beams[b], beams[b].trace, selected[i].token)
    BY <1>1, <1>7, <2>1, <2>2
  <2>4. Says(b) = selected[i].trace
    BY <1>1, <1>2, <1>7, <2>1 DEF Inv, Selections
  <2>5. /\ beams'[b] \in BeamState /\ beams'[b].trace = Continuation(i)
        /\ beams'[b].session = beams[b].session /\ beams'[b].mixed = beams[b].mixed
    <3>1. beams'[b] = Add(beams[b], selected[i].trace, selected[i].token)
          /\ selected[i].trace \in Seq(Token)
      BY <2>1, <2>3, <2>4 DEF Says
    <3>. DEFINE a == Add(beams[b], selected[i].trace, selected[i].token)
    <3>2. /\ a \in BeamState /\ a.trace = Append(selected[i].trace, selected[i].token)
          /\ a.session = beams[b].session /\ a.mixed = beams[b].mixed
      BY ONLY <2>1, <3>1, AddFacts
    <3>. HIDE DEF a
    <3>. QED BY <3>1, <3>2 DEF Continuation, a
  <2>6. ~beams[b].mixed => beams[b].session = selected[i].trace
    BY <1>1, <2>1, <2>4 DEF Inv, Sessions
  <2>7. SessionFits(b)'
    <3>1. Last(Continuation(i)) = selected[i].token
      BY <1>3, <2>1
    <3>2. ~beams'[b].mixed =>
            Append(beams'[b].session, Last(beams'[b].trace)) = beams'[b].trace
      BY <2>5, <2>6, <3>1 DEF Continuation
    <3>. QED BY <3>2 DEF SessionFits, Says
  <2>. QED BY <2>4, <2>5, <2>7
<1>8. ASSUME NEW b \in Beam, b \notin first PROVE beams'[b] = beams[b]
  BY <1>1, <1>8
<1>. HIDE DEF first
<1>9. ASSUME NEW b \in first PROVE \E i \in Firsts : selected[i].beam = b /\ i \in Beam
  BY <1>4, <1>9 DEF first
<1>10. ASSUME NEW b \in Beam
       PROVE  beams'[b] \in BeamState /\ beams'[b].session = beams[b].session
              /\ beams'[b].mixed = beams[b].mixed
  BY <1>6, <1>7, <1>8, <1>9
<1>11. /\ Live' \ first = Live \ first /\ Live' \cup first = Live
  <2>1. \A b \in Beam \ first : b \in Live' <=> b \in Live
    BY <1>8 DEF Live, Completed
  <2>2. Live' \subseteq Beam
    BY DEF Live
  <2>. QED BY <1>5, <2>1, <2>2
<1>12. InRound' = Live /\ Cardinality(InRound') = R /\ (Live \ updated)' = Live \ first
  BY <1>1, <1>11 DEF InRound, R
<1>17. \A i \in Beam : Continuation(i)' = Continuation(i)
  BY <1>1 DEF Continuation
<1>13. TypeOK'
  <2>1. beams' \in [Beam -> BeamState]
    BY <1>1, <1>10
  <2>2. updated' \subseteq Beam /\ candidates' \subseteq Beam
    BY <1>1, <1>4, <1>5
  <2>. QED BY <1>1, <2>1, <2>2 DEF Inv, TypeOK, BeamState
<1>14. Distinct'
  <2>0. \A b \in Beam : Says(b) # <<>>
    BY <1>1 DEF Inv, Distinct
  <2>1. ASSUME NEW b \in Beam PROVE beams'[b].trace # <<>>
    <3>1. CASE b \in first
      BY <1>3, <1>7, <1>9, <3>1
    <3>2. CASE b \notin first
      BY <1>8, <2>0, <3>2 DEF Says
    <3>. QED BY <3>1, <3>2
  <2>2. ASSUME NEW b \in Beam, NEW c \in Beam, beams'[b].trace = beams'[c].trace, b \in first
        PROVE  b = c
    <3>1. PICK i \in Firsts : selected[i].beam = b /\ i \in Beam
      BY <1>9, <2>2
    <3>2. beams'[b].trace = Continuation(i) /\ Len(Says(b)) = len
      BY <1>3, <1>7, <3>1
    <3>3. CASE c \in first
      <4>1. PICK j \in Firsts : selected[j].beam = c /\ j \in Beam
        BY <1>9, <3>3
      <4>2. Continuation(i) = Continuation(j)
        BY <1>7, <2>2, <3>2, <4>1
      <4>. QED BY <1>2, <3>1, <4>1, <4>2 DEF Inv, Selections
    <3>4. CASE c \notin first
      <4>1. Len(Says(c)) <= Len(Says(b))
        BY <1>1, <1>5, <2>2 DEF Inv, Level
      <4>2. Len(Says(c)) = len + 1
        BY <1>3, <1>8, <2>2, <3>1, <3>2, <3>4 DEF Says
      <4>. QED BY <1>3, <3>2, <4>1, <4>2
    <3>. QED BY <3>3, <3>4
  <2>3. ASSUME NEW b \in Beam, NEW c \in Beam, beams'[b].trace = beams'[c].trace,
               b \notin first, c \notin first
        PROVE  b = c
    <3>1. Says(b) = Says(c)
      BY <1>8, <2>3 DEF Says
    <3>. QED BY <1>1, <3>1 DEF Inv, Distinct
  <2>. QED BY <2>1, <2>2, <2>3 DEF Distinct, Says
<1>15. Selections'
  <2>2. ASSUME NEW i \in Beam
        PROVE  LET c == selected[i].beam IN
               /\ c \in InRound'
               /\ ~beams'[c].mixed => beams'[c].session = selected[i].trace
    BY <1>2, <1>3, <1>10, <1>12 DEF Inv, Selections
  <2>3. ASSUME NEW b \in Beam \ InRound', NEW i \in Beam
        PROVE  Len(Says(b)') <= Len(selected[i].trace)
    <3>1. Says(b)' = Says(b) /\ b \in Beam \ InRound
      BY <1>2, <1>5, <1>8, <1>12 DEF Says
    <3>. QED BY <1>3, <3>1
  <2>. QED BY <1>1, <1>2, <1>17, <2>2, <2>3 DEF Inv, Selections
<1>16. Sharing'
  <2>1. /\ candidates' \subseteq 1 .. Cardinality(InRound')
        /\ Cardinality((Live \ updated)') = Cardinality(candidates')
        /\ (1 .. Cardinality(InRound')) \ candidates' = Firsts
    BY <1>1, <1>4, <1>5, <1>12
  <2>2. ASSUME NEW i \in Firsts PROVE \E b \in updated' : Says(b)' = Continuation(i)'
    <3>1. selected[i].beam \in updated' /\ selected[i].beam \in Beam
      BY <1>1, <1>3, <1>4 DEF first
    <3>2. beams'[selected[i].beam].trace = Continuation(i)
      BY <1>7, <3>1
    <3>. QED BY <1>4, <1>17, <3>1, <3>2 DEF Says
  <2>3. ASSUME NEW b \in updated'
        PROVE  (\E i \in Firsts : Says(b)' = Continuation(i)') /\ SessionFits(b)'
    <3>1. PICK i \in Firsts : selected[i].beam = b
      BY <1>1, <1>9
    <3>2. beams'[b].trace = Continuation(i) /\ SessionFits(b)'
      BY <1>3, <1>4, <1>7, <3>1
    <3>. QED BY <1>4, <1>17, <3>2 DEF Says
  <2>. QED BY <2>1, <2>2, <2>3 DEF Sharing, Used
<1>. QED
  BY <1>1, <1>2, <1>13, <1>14, <1>15, <1>16 DEF Inv, Cleared, Between, Level, Sessions, Displacing
LEMMA ShareStep ==
    ASSUME Inv, Share
    PROVE  Inv'
<1>. DEFINE takers == Live \ updated
            n == Cardinality(InRound)
<1>1. /\ phase = "share" /\ phase' = "displace" /\ selected' = selected
      /\ candidates' = candidates /\ taken' = takers /\ updated' = updated \cup Live
      /\ beams' = [b \in Beam |-> IF b \in takers THEN Becomes(b, Match(candidates, takers, b))
                                                 ELSE beams[b]]
  BY DEF Share, Match
<1>2. Within /\ Within' /\ taken = {}
  BY <1>1 DEF Within, Inv, Cleared
<1>3. PICK len \in Nat : OfLength(len)
  BY <1>2, RoundFacts
<1>4. updated \subseteq Beam /\ Live \subseteq Beam /\ InRound \subseteq Beam /\ n \in 0 .. N
      /\ 1 .. n \subseteq Beam /\ N \in Nat
  <2>1. updated \subseteq Beam /\ Live \subseteq Beam /\ InRound \subseteq Beam
    BY DEF Inv, TypeOK, Live, InRound
  <2>2. n \in 0 .. N
    BY <2>1, Beams, SubsetsOfRange
  <2>. QED BY <2>1, <2>2, Beams
<1>5. /\ candidates \subseteq 1 .. n /\ candidates \subseteq Beam
      /\ Cardinality(takers) = Cardinality(candidates)
      /\ Used((1 .. n) \ candidates)
  BY <1>1, <1>4 DEF Inv, Sharing
<1>. HIDE DEF n, takers
<1>6. /\ \A b \in takers : Match(candidates, takers, b) \in candidates
      /\ \A b, c \in takers : Match(candidates, takers, b) = Match(candidates, takers, c) => b = c
      /\ \A i \in candidates : \E b \in takers : Match(candidates, takers, b) = i
  <2>1. takers \subseteq 1 .. N /\ candidates \subseteq 1 .. N
    BY <1>4, <1>5, Beams DEF takers
  <2>2. Cardinality(candidates) = Cardinality(takers) /\ N \in Nat
    BY <1>4, <1>5
  <2>. QED BY ONLY <2>1, <2>2, MatchExists
<1>7. takers \subseteq Beam /\ takers \cap updated = {} /\ InRound = updated \cup takers
      /\ updated' = InRound
  BY <1>1, <1>4 DEF takers, InRound
<1>8. \A i \in Beam : Continuation(i)' = Continuation(i)
  BY <1>1 DEF Continuation
<1>9. ASSUME NEW b \in takers
      PROVE  LET i == Match(candidates, takers, b) IN
             /\ i \in candidates /\ i \in Beam /\ b \in Beam /\ beams'[b] \in BeamState
             /\ Says(b)' = Continuation(i) /\ SessionFits(b)'
  <2>. DEFINE i == Match(candidates, takers, b)
  <2>1. i \in candidates /\ i \in Beam /\ b \in Beam
    BY <1>5, <1>6, <1>7
  <2>. HIDE DEF i
  <2>2. beams'[b] = Becomes(b, i)
    BY <1>1, <2>1 DEF i
  <2>3. /\ Becomes(b, i) \in BeamState /\ Becomes(b, i).trace = Continuation(i)
        /\ ~Becomes(b, i).mixed =>
              Append(Becomes(b, i).session, Last(Continuation(i))) = Continuation(i)
    BY <1>2, <2>1, BecomesFacts
  <2>4. Says(b)' = Continuation(i) /\ SessionFits(b)'
    BY <2>2, <2>3 DEF Says, SessionFits
  <2>. QED BY <2>1, <2>2, <2>3, <2>4 DEF i
<1>10. ASSUME NEW b \in Beam, b \notin takers
       PROVE  beams'[b] = beams[b] /\ Says(b)' = Says(b) /\ (SessionFits(b)' <=> SessionFits(b))
  BY <1>1, <1>10 DEF Says, SessionFits
<1>11. Live' \subseteq updated' /\ InRound' = InRound
  <2>1. ASSUME NEW b \in Live', b \notin InRound PROVE FALSE
    <3>1. b \in Beam /\ b \notin takers /\ b \notin Live
      BY <1>7, <2>1 DEF Live, InRound
    <3>. QED BY <1>10, <2>1, <3>1 DEF Live, Completed
  <2>. QED BY <1>7, <2>1 DEF InRound
<1>12. \A b \in Beam : beams[b] \in BeamState
  BY DEF Inv, TypeOK, BeamState
<1>13. TypeOK'
  <2>1. \A b \in Beam : beams'[b] \in BeamState
    BY <1>9, <1>10, <1>12
  <2>2. beams' \in [Beam -> BeamState]
    BY <1>1, <2>1
  <2>3. updated' \subseteq Beam /\ taken' \subseteq Beam
    BY <1>1, <1>4, <1>7
  <2>. QED BY <1>1, <2>2, <2>3 DEF Inv, TypeOK, BeamState
\* Beams of the round say different selections, the others are shorter.
<1>14. ASSUME NEW b \in InRound
       PROVE  /\ b \in Beam /\ SessionFits(b)'
              /\ \E i \in 1 .. n : /\ Says(b)' = Continuation(i) /\ i \in Beam
                                   /\ b \in takers => i = Match(candidates, takers, b)
                                   /\ b \notin takers => i \notin candidates
  <2>1. CASE b \in takers
    BY <1>5, <1>9, <2>1
  <2>2. CASE b \notin takers
    <3>1. b \in updated /\ b \in Beam
      BY <1>4, <1>7, <2>2
    <3>. QED BY <1>4, <1>5, <1>10, <2>2, <3>1 DEF Used
  <2>. QED BY <2>1, <2>2
<1>15. ASSUME NEW i \in 1 .. n PROVE \E b \in InRound : Says(b)' = Continuation(i)
  <2>1. CASE i \in candidates
    BY <1>6, <1>7, <1>9, <2>1
  <2>2. CASE i \notin candidates
    <3>1. PICK b \in updated : Says(b) = Continuation(i)
      BY <1>5, <2>2 DEF Used
    <3>2. b \notin takers /\ b \in Beam /\ b \in InRound
      BY <1>4, <1>7
    <3>. QED BY <1>10, <3>1, <3>2
  <2>. QED BY <2>1, <2>2
<1>16. ASSUME NEW b \in Beam \ InRound
       PROVE  Says(b)' = Says(b) /\ Len(Says(b)) <= len /\ Len(Says(b)) \in Nat
  BY <1>3, <1>7, <1>10 DEF OfLength
<1>17. Distinct'
  <2>0. \A b \in Beam : Says(b) # <<>>
    BY <1>1 DEF Inv, Distinct
  <2>1. ASSUME NEW b \in Beam PROVE Says(b)' # <<>>
    <3>1. CASE b \in InRound
      BY <1>3, <1>14, <3>1 DEF OfLength
    <3>2. CASE b \notin InRound
      BY <1>16, <2>0, <3>2
    <3>. QED BY <3>1, <3>2
  <2>2. ASSUME NEW b \in InRound, NEW c \in InRound, Says(b)' = Says(c)' PROVE b = c
    <3>1. PICK i \in 1 .. n : /\ Says(b)' = Continuation(i) /\ i \in Beam
                              /\ b \in takers => i = Match(candidates, takers, b)
                              /\ b \notin takers => i \notin candidates
      BY <1>14
    <3>2. PICK j \in 1 .. n : /\ Says(c)' = Continuation(j) /\ j \in Beam
                              /\ c \in takers => j = Match(candidates, takers, c)
                              /\ c \notin takers => j \notin candidates
      BY <1>14
    <3>3. i = j
      BY <1>2, <2>2, <3>1, <3>2 DEF Inv, Selections
    <3>4. CASE b \in takers
      BY <1>6, <3>1, <3>2, <3>3, <3>4
    <3>5. CASE b \notin takers /\ c \in takers
      BY <1>6, <3>1, <3>2, <3>3, <3>5
    <3>6. CASE b \notin takers /\ c \notin takers
      <4>1. Says(b) = Says(c) /\ b \in Beam /\ c \in Beam
        BY <1>4, <1>10, <2>2, <3>6
      <4>. QED BY <1>1, <4>1 DEF Inv, Distinct
    <3>. QED BY <3>4, <3>5, <3>6
  <2>3. ASSUME NEW b \in InRound, NEW c \in Beam \ InRound PROVE Says(b)' # Says(c)'
    <3>1. Len(Says(b)') = len + 1
      BY <1>3, <1>14 DEF OfLength
    <3>2. Len(Says(c)') <= len /\ Len(Says(c)') \in Nat
      BY <1>16
    <3>. QED BY <3>1, <3>2
  <2>4. ASSUME NEW b \in Beam \ InRound, NEW c \in Beam \ InRound, Says(b)' = Says(c)' PROVE b = c
    <3>1. Says(b) = Says(c)
      BY <1>16, <2>4
    <3>. QED BY <1>1, <3>1 DEF Inv, Distinct
  <2>. QED BY <2>1, <2>2, <2>3, <2>4 DEF Distinct
<1>18. Selections'
  <2>1. ASSUME NEW i \in Beam
        PROVE  LET c == selected[i].beam IN
               /\ c \in InRound'
               /\ c \notin taken' /\ ~beams'[c].mixed => beams'[c].session = selected[i].trace
    <3>. DEFINE c == selected[i].beam
    <3>1. /\ c \in InRound /\ c \in Beam
          /\ ~beams[c].mixed => beams[c].session = selected[i].trace
      BY <1>2, <1>4 DEF Inv, Selections
    <3>. HIDE DEF c
    <3>2. c \notin taken' => beams'[c] = beams[c]
      BY <1>1, <1>10, <3>1
    <3>. QED BY <1>11, <3>1, <3>2 DEF c
  <2>2. ASSUME NEW b \in Beam \ InRound', NEW i \in Beam
        PROVE  Len(Says(b)') <= Len(selected[i].trace)
    BY <1>3, <1>11, <1>16 DEF OfLength
  <2>. QED BY <1>1, <1>2, <1>8, <2>1, <2>2 DEF Inv, Selections
<1>19. Displacing'
  <2>1. Cardinality(updated') = n
    BY <1>7 DEF n
  <2>2. \A i \in 1 .. n : \E b \in updated' : Says(b)' = Continuation(i)'
    BY <1>4, <1>7, <1>8, <1>15
  <2>3. \A b \in updated' : (\E i \in 1 .. n : Says(b)' = Continuation(i)') /\ SessionFits(b)'
    BY <1>4, <1>7, <1>8, <1>14
  <2>. QED BY <1>11, <2>1, <2>2, <2>3 DEF Displacing, Used
<1>. QED
  BY <1>1, <1>2, <1>13, <1>17, <1>18, <1>19 DEF Inv, Cleared, Between, Level, Sessions, Sharing
\* There is a selection for each beam that is displaced.
LEMMA DisplaceIndex ==
    ASSUME NEW used \in SUBSET Beam, NEW worse \in SUBSET (Beam \ used), NEW b \in worse
    PROVE  /\ Cardinality(used) + Rank(worse, b) \in Beam
           /\ Cardinality(used) + Rank(worse, b) \notin 1 .. Cardinality(used)
<1>. DEFINE n == Cardinality(used)
            w == Cardinality(worse)
            k == Rank(worse, b)
<1>1. n \in 0 .. N /\ IsFiniteSet(used) /\ N \in Nat
  BY Beams, SubsetsOfRange
<1>2. w \in Nat /\ k \in 1 .. w
  <2>1. worse \in SUBSET (1 .. N)
    BY Beams
  <2>2. w \in Nat
    BY <1>1, <2>1, SubsetsOfRange
  <2>. QED BY <1>1, <2>1, <2>2, RankInSet
<1>3. Cardinality(Beam \ used) = N - n
  <2>1. Beam \cap used = used
    OBVIOUS
  <2>. QED BY <2>1, Beams, FS_Difference
<1>4. w <= Cardinality(Beam \ used)
  BY Beams, FS_Difference, FS_Subset
<1>. HIDE DEF n, w, k
<1>5. n + k \in 1 .. N /\ n + k \notin 1 .. n
  BY <1>1, <1>2, <1>3, <1>4
<1>. QED BY <1>5, Beams DEF n, k

LEMMA DisplaceStep ==
    ASSUME Inv, Displace
    PROVE  /\ Inv'
           /\ \A i \in 1 .. Cardinality(updated) :
                 \E b \in Beam : beams'[b].trace = Append(selected[i].trace, selected[i].token)
<1>. DEFINE n == Cardinality(updated)
            index(S, b) == n + Rank(S, b)
<1>1. PICK worse \in SUBSET (Beam \ updated) :
         beams' = [b \in Beam |-> IF b \in worse THEN Becomes(b, index(worse, b)) ELSE beams[b]]
  BY DEF Displace
<1>2. /\ phase = "displace" /\ phase' = "run"
      /\ selected' = <<>> /\ updated' = {} /\ candidates' = {} /\ taken' = {}
  BY DEF Displace
<1>3. Within
  BY <1>2 DEF Within
<1>4. PICK len \in Nat : OfLength(len)
  BY <1>3, RoundFacts
<1>5. /\ updated \subseteq Beam /\ Live \subseteq updated /\ InRound = updated
      /\ Used(1 .. n) /\ 1 .. n \subseteq Beam
  <2>1. updated \subseteq Beam /\ Live \subseteq updated /\ Used(1 .. n)
    BY <1>2 DEF Inv, TypeOK, Displacing
  <2>2. n \in 0 .. N /\ N \in Nat
    BY <2>1, Beams, SubsetsOfRange
  <2>3. 1 .. n \subseteq Beam
    <3>. HIDE DEF n
    <3>. QED BY <2>2, Beams
  <2>. QED BY <2>1, <2>3 DEF InRound
<1>6. ASSUME NEW b \in worse PROVE index(worse, b) \in Beam /\ index(worse, b) \notin 1 .. n
  BY <1>5, DisplaceIndex
<1>7. ASSUME NEW b \in worse, NEW c \in worse, index(worse, b) = index(worse, c) PROVE b = c
  <2>1. worse \subseteq 1 .. N /\ N \in Nat /\ n \in Nat /\ Cardinality(worse) \in Nat
    BY <1>5, Beams, SubsetsOfRange
  <2>2. Rank(worse, b) \in 1 .. Cardinality(worse) /\ Rank(worse, c) \in 1 .. Cardinality(worse)
    BY <2>1, RankInSet
  <2>. HIDE DEF n
  <2>3. Rank(worse, b) = Rank(worse, c)
    BY <1>7, <2>1, <2>2
  <2>. QED BY <2>1, <2>3, RankInjective
<1>. HIDE DEF n, index
<1>8. ASSUME NEW b \in worse
      PROVE  /\ beams'[b] \in BeamState /\ b \in Beam /\ b \notin updated
             /\ Says(b)' = Continuation(index(worse, b)) /\ SessionFits(b)'
  <2>. DEFINE i == index(worse, b)
  <2>1. i \in Beam /\ b \in Beam /\ b \notin updated
    BY <1>6
  <2>2. beams'[b] = Becomes(b, i)
    BY <1>1, <2>1
  <2>. HIDE DEF i
  <2>3. /\ Becomes(b, i) \in BeamState /\ Becomes(b, i).trace = Continuation(i)
        /\ ~Becomes(b, i).mixed =>
              Append(Becomes(b, i).session, Last(Continuation(i))) = Continuation(i)
    BY <1>3, <2>1, BecomesFacts
  <2>4. Says(b)' = Continuation(i) /\ SessionFits(b)'
    BY <2>2, <2>3 DEF Says, SessionFits
  <2>. QED BY <2>1, <2>2, <2>3, <2>4 DEF i
<1>9. ASSUME NEW b \in Beam, b \notin worse
      PROVE  beams'[b] = beams[b] /\ Says(b)' = Says(b) /\ (SessionFits(b)' <=> SessionFits(b))
  BY <1>1, <1>9 DEF Says, SessionFits
\* Who says a selection of this round, and which.
<1>10. ASSUME NEW b \in updated \cup worse
       PROVE  /\ b \in Beam /\ SessionFits(b)'
              /\ \E i \in Beam : /\ Says(b)' = Continuation(i)
                                 /\ b \in worse => i = index(worse, b)
                                 /\ b \notin worse => i \in 1 .. n
  <2>1. CASE b \in worse
    BY <1>6, <1>8, <2>1
  <2>2. CASE b \notin worse
    BY <1>5, <1>9, <2>2 DEF Used
  <2>. QED BY <2>1, <2>2
<1>11. ASSUME NEW b \in updated \cup worse PROVE Len(Says(b)') = len + 1 /\ Says(b)' # <<>>
  <2>1. PICK i \in Beam : Says(b)' = Continuation(i)
    BY <1>10
  <2>2. Len(Continuation(i)) = len + 1 /\ Continuation(i) # <<>>
    BY <1>4 DEF OfLength
  <2>. QED BY <2>1, <2>2
<1>12. ASSUME NEW b \in Beam \ (updated \cup worse)
       PROVE  Says(b)' = Says(b) /\ Len(Says(b)) <= len /\ Len(Says(b)) \in Nat /\ b \notin Live'
  <2>1. b \in Beam /\ b \notin worse /\ b \in Beam \ InRound /\ b \notin Live
    BY <1>5
  <2>2. b \notin Live'
    BY <1>9, <2>1 DEF Live, Completed
  <2>. QED BY <1>4, <1>9, <2>1, <2>2 DEF OfLength
<1>13. TypeOK'
  <2>1. \A b \in Beam : beams[b] \in BeamState
    BY DEF Inv, TypeOK, BeamState
  <2>2. \A b \in Beam : beams'[b] \in BeamState
    BY <1>8, <1>9, <2>1
  <2>3. beams' \in [Beam -> BeamState]
    BY <1>1, <2>2
  <2>. QED BY <1>2, <2>3 DEF TypeOK, BeamState
<1>14. Distinct'
  <2>0. \A b \in Beam : Says(b) # <<>>
    BY <1>2 DEF Inv, Distinct
  <2>1. \A b \in Beam : Says(b)' # <<>>
    BY <1>11, <1>12, <2>0
  <2>2. ASSUME NEW b \in updated \cup worse, NEW c \in updated \cup worse, Says(b)' = Says(c)'
        PROVE  b = c
    <3>1. PICK i \in Beam : /\ Says(b)' = Continuation(i)
                            /\ b \in worse => i = index(worse, b)
                            /\ b \notin worse => i \in 1 .. n
      BY <1>10
    <3>2. PICK j \in Beam : /\ Says(c)' = Continuation(j)
                            /\ c \in worse => j = index(worse, c)
                            /\ c \notin worse => j \in 1 .. n
      BY <1>10
    <3>3. i = j
      BY <1>3, <2>2, <3>1, <3>2 DEF Inv, Selections
    <3>4. CASE b \in worse /\ c \in worse
      BY <1>7, <3>1, <3>2, <3>3, <3>4
    <3>5. CASE b \in worse /\ c \notin worse
      BY <1>6, <3>1, <3>2, <3>3, <3>5
    <3>6. CASE b \notin worse /\ c \in worse
      BY <1>6, <3>1, <3>2, <3>3, <3>6
    <3>7. CASE b \notin worse /\ c \notin worse
      <4>1. Says(b) = Says(c) /\ b \in Beam /\ c \in Beam
        BY <1>5, <1>9, <2>2, <3>7
      <4>. QED BY <1>2, <4>1 DEF Inv, Distinct
    <3>. QED BY <3>4, <3>5, <3>6, <3>7
  <2>3. ASSUME NEW b \in updated \cup worse, NEW c \in Beam \ (updated \cup worse)
        PROVE  Says(b)' # Says(c)'
    BY <1>11, <1>12
  <2>4. ASSUME NEW b \in Beam \ (updated \cup worse), NEW c \in Beam \ (updated \cup worse),
               Says(b)' = Says(c)'
        PROVE  b = c
    <3>1. Says(b) = Says(c)
      BY <1>12, <2>4
    <3>. QED BY <1>2, <3>1 DEF Inv, Distinct
  <2>. QED BY <2>1, <2>2, <2>3, <2>4 DEF Distinct
<1>15. Live' \subseteq updated \cup worse
  BY <1>12 DEF Live
<1>16. Level'
  <2>1. ASSUME NEW b \in Live', NEW c \in Beam PROVE Len(Says(c)') <= Len(Says(b)')
    <3>1. Len(Says(b)') = len + 1
      BY <1>11, <1>15
    <3>2. Len(Says(c)') \in Nat /\ Len(Says(c)') <= len + 1
      BY <1>11, <1>12
    <3>. QED BY <3>1, <3>2
  <2>. QED BY <2>1 DEF Level
<1>17. Sessions'
  BY <1>2, <1>10, <1>15 DEF Sessions
<1>18. Inv'
  BY <1>2, <1>13, <1>14, <1>16, <1>17
     DEF Inv, Cleared, Between, Selections, Within, Sharing, Displacing
<1>19. ASSUME NEW i \in 1 .. n PROVE \E b \in Beam : beams'[b].trace = Continuation(i)
  <2>1. PICK b \in updated : Says(b) = Continuation(i)
    BY <1>5 DEF Used
  <2>2. b \in Beam /\ b \notin worse
    BY <1>5
  <2>. QED BY <1>9, <2>1, <2>2 DEF Says
<1>. QED BY <1>18, <1>19 DEF Continuation, n

-----------------------------------------------------------------------------
\* Theorems.

LEMMA NextInv == Inv /\ [Next]_vars => Inv'
  BY DoChat0Step, RunBeamsStep, SelectStep, ExtendStep, ShareStep, DisplaceStep, DoneStep, Stutter
     DEF Next

\* The inductive invariant holds in every state of the search.
THEOREM InvHolds == Spec => []Inv
  BY InitInv, NextInv, PTL DEF Spec

\* Every beam, selection and set of a round has its type: no beam is ever extended
\* by a selection that does not exist.
THEOREM TypeCorrect == Spec => []TypeOK
<1>1. Inv => TypeOK
  BY DEF Inv
<1>. QED BY InvHolds, <1>1, PTL

\* Through all copies of sessions and traces, the session of a live beam is the
\* model's state for what this beam says.
THEOREM SessionsFollowTraces == Spec => []SessionIsTrace
<1>1. Inv => SessionIsTrace
  BY DEF Inv, Sessions, SessionFits, SessionIsTrace, Says
<1>. QED BY InvHolds, <1>1, PTL

\* However candidates are chosen and beams displaced, no two beams say the same.
THEOREM AnswersAreDistinct == Spec => []DistinctTraces
<1>1. Inv => DistinctTraces
  BY DEF Inv, Distinct, DistinctTraces, Says
<1>. QED BY InvHolds, <1>1, PTL

\* Pass 2 finds as many selections left over as there are beams without one.
THEOREM SelectionsSuffice == Spec => []EnoughSelections
<1>1. Inv => EnoughSelections
  BY DEF Inv, Sharing, EnoughSelections
<1>. QED BY InvHolds, <1>1, PTL

\* What a round has selected for its live beams is said by one of the beams after
\* the round.
THEOREM SelectionsSurvive == Spec => SelectedSurvive
<1>. DEFINE Kept == phase = "displace" =>
               \A i \in 1 .. Cardinality(updated) :
                   \E b \in Beam : beams'[b].trace = Append(selected[i].trace, selected[i].token)
<1>1. Inv /\ [Next]_vars => [Kept]_vars
  <2>1. SUFFICES ASSUME Inv, Next, phase = "displace" PROVE Kept
    OBVIOUS
  <2>2. Displace
    BY <2>1 DEF Next, DoChat0, RunBeams, Select, Extend, Share, Done
  <2>. QED BY <2>1, <2>2, DisplaceStep
<1>. QED BY InvHolds, <1>1, PTL DEF Spec, SelectedSurvive

-----------------------------------------------------------------------------
(* How long it takes.  A live beam is shorter than MaxLength, and each round *)
(* makes the live beams one token longer.                                    *)

Fits(beam) == /\ Len(beam.trace) <= MaxLength
              /\ beam.completed \/ Len(beam.trace) < MaxLength

LengthInv ==
    /\ \A b \in Beam : Fits(beams[b])
    /\ phase = "prompt" => \A b \in Beam : beams[b] = Fresh
    /\ Within => \A i \in Beam : Len(selected[i].trace) < MaxLength

\* The length of what this round goes on from; MaxLength when nothing is live.
RoundLength == IF Within THEN Len(selected[1].trace)
               ELSE IF Live = {} THEN MaxLength
               ELSE Len(Says(CHOOSE b \in Live : TRUE))

Place == [prompt |-> 0, run |-> 5, select |-> 4, extend |-> 3, share |-> 2, displace |-> 1,
          done |-> 0]

Fuel == 6 * (MaxLength - RoundLength) + Place[phase]

LEMMA AddFits ==
    ASSUME NEW beam \in BeamState, NEW trace \in Seq(Token), NEW token \in Token,
           Len(trace) < MaxLength
    PROVE  Fits(Add(beam, trace, token))
<1>. DEFINE a == Add(beam, trace, token)
<1>1. a.trace = Append(trace, token) /\ a.completed = Ends(token, Len(trace) + 1)
  <2>1. a = [beam EXCEPT !.trace = Append(trace, token), !.completed = Ends(token, Len(trace) + 1)]
    BY DEF Add
  <2>. DEFINE e == Ends(token, Len(trace) + 1)
              t == Append(trace, token)
  <2>2. a = [beam EXCEPT !.trace = t, !.completed = e]
    BY <2>1
  <2>. HIDE DEF e, t, a
  <2>3. a.trace = t /\ a.completed = e
    BY <2>2 DEF BeamState
  <2>. QED BY <2>3 DEF e, t, a
<1>2. Len(a.trace) = Len(trace) + 1 /\ Len(trace) \in Nat /\ MaxLength \in Nat
  BY <1>1, BeamAssumption
<1>. HIDE DEF a
<1>3. Len(a.trace) <= MaxLength
  BY <1>2
<1>4. ASSUME ~a.completed PROVE Len(a.trace) < MaxLength
  <2>1. ~Ends(token, Len(trace) + 1)
    BY <1>1, <1>4
  <2>. QED BY <1>2, <2>1 DEF Ends
<1>. QED BY <1>3, <1>4 DEF Fits, a

LEMMA BecomesFits ==
    ASSUME Inv, LengthInv, Within, NEW b \in Beam, NEW i \in Beam
    PROVE  Fits(Becomes(b, i))
<1>. DEFINE x == selected[i]
            base == Add(Fresh, x.trace, x.token)
            m == beams[x.beam].mixed \/ x.beam \in taken
            k == beams[x.beam].session
<1>1. x.trace \in Seq(Token) /\ x.token \in Token
  BY RoundFacts DEF OfLength
<1>2. Len(x.trace) < MaxLength
  BY DEF LengthInv
<1>. HIDE DEF x
<1>3. Fits(base) /\ base \in BeamState
  BY <1>1, <1>2, AddFits, AddFacts, FreshType
<1>4. Becomes(b, i) = [base EXCEPT !.session = k, !.mixed = m]
  BY DEF Becomes, x
<1>. HIDE DEF base, m, k
<1>5. /\ Becomes(b, i).trace = base.trace /\ Becomes(b, i).completed = base.completed
  BY <1>3, <1>4 DEF BeamState
<1>. QED BY <1>3, <1>5 DEF Fits

LEMMA InitLength == Init => LengthInv
<1>. SUFFICES ASSUME Init PROVE LengthInv
  OBVIOUS
<1>1. Fits(Fresh)
  BY BeamAssumption DEF Fits, Fresh
<1>. QED BY <1>1 DEF Init, LengthInv, Within

\* The live beams of a round are equally long.
LEMMA LiveLength ==
    ASSUME Inv, ~Within, NEW b \in Live, phase \in {"run", "select"}
    PROVE  RoundLength = Len(Says(b)) /\ RoundLength \in Nat
<1>. DEFINE c == CHOOSE c \in Live : TRUE
<1>1. c \in Live /\ Live \subseteq Beam /\ Live # {}
  BY DEF Live
<1>2. RoundLength = Len(Says(c))
  BY <1>1 DEF RoundLength
<1>. HIDE DEF c
<1>3. Len(Says(b)) <= Len(Says(c)) /\ Len(Says(c)) <= Len(Says(b))
  BY <1>1 DEF Inv, Level
<1>4. Len(Says(b)) \in Nat /\ Len(Says(c)) \in Nat
  BY <1>1 DEF Inv, TypeOK, Says
<1>. QED BY <1>2, <1>3, <1>4

\* Fuel with another length and another place.
LEMMA LessFuel ==
    ASSUME NEW l \in Nat, NEW k \in Nat, l <= k, k <= MaxLength,
           NEW p \in 0 .. 5, NEW q \in 0 .. 5, l < k \/ q < p
    PROVE  6 * (MaxLength - k) + q < 6 * (MaxLength - l) + p
BY BeamAssumption

LEMMA RoundLengthType == ASSUME Inv, LengthInv PROVE RoundLength \in 0 .. MaxLength
<1>1. MaxLength \in Nat /\ 1 \in Beam
  BY Beams, BeamAssumption DEF Beam
<1>2. CASE Within
  <2>1. Len(selected[1].trace) \in Nat
    BY <1>1, <1>2, RoundFacts DEF OfLength
  <2>. QED BY <1>1, <1>2, <2>1 DEF LengthInv, RoundLength
<1>3. CASE ~Within /\ Live = {}
  BY <1>1, <1>3 DEF RoundLength
<1>4. CASE ~Within /\ Live # {}
  <2>. DEFINE c == CHOOSE c \in Live : TRUE
  <2>1. c \in Beam
    BY <1>4 DEF Live
  <2>2. RoundLength = Len(Says(c))
    BY <1>4 DEF RoundLength
  <2>. HIDE DEF c
  <2>3. Len(Says(c)) \in Nat /\ Len(Says(c)) <= MaxLength
    BY <2>1 DEF Inv, TypeOK, LengthInv, Fits, Says
  <2>. QED BY <1>1, <2>2, <2>3
<1>. QED BY <1>2, <1>3, <1>4

\* A step that keeps the length, and one that comes to a longer one.
LEMMA FuelOfStep ==
    ASSUME Inv, LengthInv, RoundLength' \in 0 .. MaxLength, RoundLength' >= RoundLength,
           phase \in Phase, phase' \in Phase,
           Place[phase'] < Place[phase] \/ RoundLength' > RoundLength
    PROVE  Fuel' < Fuel
<1>1. RoundLength \in 0 .. MaxLength /\ MaxLength \in Nat
  BY RoundLengthType, BeamAssumption
<1>2. Place[phase] \in 0 .. 5 /\ Place[phase'] \in 0 .. 5
  BY DEF Place, Phase
<1>. DEFINE l == RoundLength
            k == RoundLength'
            p == Place[phase]
            q == Place[phase']
<1>3. l \in Nat /\ k \in Nat /\ l <= k /\ k <= MaxLength /\ p \in 0 .. 5 /\ q \in 0 .. 5
      /\ (l < k \/ q < p)
  BY <1>1, <1>2
<1>4. Fuel = 6 * (MaxLength - l) + p /\ Fuel' = 6 * (MaxLength - k) + q
  BY DEF Fuel
<1>. HIDE DEF l, k, p, q
<1>. QED BY <1>3, <1>4, LessFuel

LEMMA DoChat0Length == ASSUME Inv, LengthInv, DoChat0 PROVE LengthInv' /\ Fuel' < Fuel
<1>1. PICK s \in [Beam -> Token] : beams' = [b \in Beam |-> Add(Fresh, <<>>, s[b])]
  BY DEF DoChat0
<1>2. phase = "prompt" /\ phase' = "run" /\ ~Within /\ ~Within'
  BY DEF DoChat0, Within
<1>3. MaxLength \in Nat \ {0}
  BY BeamAssumption
<1>4. ASSUME NEW b \in Beam PROVE Fits(beams'[b]) /\ Len(beams'[b].trace) = 1
  <2>1. <<>> \in Seq(Token) /\ s[b] \in Token /\ Len(<<>>) = 0
    OBVIOUS
  <2>2. beams'[b] = Add(Fresh, <<>>, s[b])
    BY <1>1
  <2>3. Len(<<>>) < MaxLength
    BY <1>3, <2>1
  <2>4. Fits(beams'[b])
    BY <2>1, <2>2, <2>3, FreshType, AddFits
  <2>5. beams'[b].trace = Append(<<>>, s[b])
    <3>1. Add(Fresh, <<>>, s[b]).trace = Append(<<>>, s[b])
      BY <2>1, FreshType, AddFacts
    <3>. HIDE DEF BeamState
    <3>. QED BY <2>2, <3>1
  <2>6. Len(Append(<<>>, s[b])) = 1
    BY <2>1
  <2>. QED BY <2>4, <2>5, <2>6
<1>5. LengthInv'
  BY <1>2, <1>4 DEF LengthInv
<1>6. RoundLength = 0
  <2>1. Live # {} /\ Live \subseteq Beam
    BY <1>2, Beams, BeamAssumption DEF LengthInv, Live, Completed, Fresh, Beam
  <2>2. Says(CHOOSE b \in Live : TRUE) = <<>>
    BY <1>2, <2>1 DEF LengthInv, Says, Fresh
  <2>. QED BY <1>2, <2>1, <2>2 DEF RoundLength
<1>7. RoundLength' \in 1 .. MaxLength
  <2>1. CASE Live' = {}
    BY <1>2, <1>3, <2>1 DEF RoundLength
  <2>2. CASE Live' # {}
    <3>. DEFINE c == CHOOSE c \in Live' : TRUE
    <3>1. c \in Beam
      BY <2>2 DEF Live
    <3>2. RoundLength' = Len(beams'[c].trace)
      BY <1>2, <2>2 DEF RoundLength, Says
    <3>. HIDE DEF c
    <3>3. Len(beams'[c].trace) = 1
      BY <1>4, <3>1
    <3>. QED BY <1>3, <3>2, <3>3
  <2>. QED BY <2>1, <2>2
<1>. QED BY <1>2, <1>3, <1>5, <1>6, <1>7, FuelOfStep DEF Phase

LEMMA RunBeamsLength == ASSUME Inv, LengthInv, RunBeams PROVE LengthInv' /\ Fuel' < Fuel
<1>1. /\ phase = "run" /\ phase' = "select" /\ ~Within /\ ~Within'
      /\ beams' = [b \in Beam |-> IF b \notin Live THEN beams[b]
             ELSE [beams[b] EXCEPT !.session = Append(@, Last(beams[b].trace))]]
  BY DEF RunBeams, Within
<1>2. ASSUME NEW b \in Beam
      PROVE  beams'[b].trace = beams[b].trace /\ beams'[b].completed = beams[b].completed
  <2>1. beams[b] \in BeamState
    BY DEF Inv, TypeOK, BeamState
  <2>. QED BY <1>1, <2>1 DEF BeamState
<1>3. Live' = Live
  BY <1>2 DEF Live, Completed
<1>4. RoundLength' = RoundLength
  <2>. DEFINE c == CHOOSE c \in Live : TRUE
  <2>1. Live # {} => c \in Beam
    BY DEF Live
  <2>2. Live # {} => beams'[c].trace = beams[c].trace
    BY <1>2, <2>1
  <2>. QED BY <1>1, <1>3, <2>2 DEF RoundLength, Says
<1>5. LengthInv'
  BY <1>1, <1>2 DEF LengthInv, Fits
<1>6. RoundLength \in 0 .. MaxLength /\ Place[phase'] < Place[phase]
  BY <1>1, RoundLengthType DEF Place
<1>. QED BY <1>1, <1>4, <1>5, <1>6, FuelOfStep DEF Phase

LEMMA SelectLength == ASSUME Inv, LengthInv, Select PROVE LengthInv' /\ Fuel' < Fuel
<1>1. PICK s \in TopK :
          selected' = [i \in Beam |-> [beam |-> s[i][1], token |-> s[i][2],
                                       trace |-> beams[s[i][1]].trace]]
  BY DEF Select
<1>2. phase = "select" /\ phase' = "extend" /\ beams' = beams /\ ~Within /\ Within'
  BY DEF Select, Within
<1>3. ASSUME NEW i \in Beam
      PROVE  s[i][1] \in Live /\ selected'[i].trace = Says(s[i][1])
  <2>1. s[i] \in Live \X Token
    BY DEF TopK
  <2>. QED BY <1>1, <2>1 DEF Says
<1>4. \A b \in Live : b \in Beam /\ Len(Says(b)) < MaxLength
  BY DEF LengthInv, Fits, Live, Completed, Says
<1>5. LengthInv'
  BY <1>2, <1>3, <1>4 DEF LengthInv
<1>6. RoundLength' = RoundLength
  <2>1. 1 \in Beam
    BY Beams, BeamAssumption DEF Beam
  <2>2. RoundLength' = Len(Says(s[1][1]))
    BY <1>2, <1>3, <2>1 DEF RoundLength
  <2>. QED BY <1>2, <1>3, <2>1, <2>2, LiveLength
<1>7. RoundLength \in 0 .. MaxLength /\ Place[phase'] < Place[phase]
  BY <1>2, RoundLengthType DEF Place
<1>. QED BY <1>2, <1>5, <1>6, <1>7, FuelOfStep DEF Phase

LEMMA ExtendLength == ASSUME Inv, LengthInv, Extend PROVE LengthInv' /\ Fuel' < Fuel
<1>1. /\ phase = "extend" /\ phase' = "share" /\ Within /\ Within' /\ selected' = selected
      /\ beams' = [b \in Beam |->
           IF \E i \in Firsts : selected[i].beam = b
           THEN LET i == CHOOSE i \in Firsts : selected[i].beam = b
                IN  Add(beams[b], beams[b].trace, selected[i].token)
           ELSE beams[b]]
  BY DEF Extend, Within
<1>2. ASSUME NEW b \in Beam PROVE Fits(beams'[b])
  <2>1. CASE \E i \in Firsts : selected[i].beam = b
    <3>. DEFINE i == CHOOSE i \in Firsts : selected[i].beam = b
    <3>1. i \in Firsts /\ selected[i].beam = b
      BY <2>1
    <3>2. beams'[b] = Add(beams[b], beams[b].trace, selected[i].token)
      BY <1>1, <2>1
    <3>. HIDE DEF i
    <3>3. i \in Beam
      BY <1>1, <3>1, FirstsFacts
    <3>4. /\ selected[i].token \in Token /\ beams[b] \in BeamState /\ beams[b].trace \in Seq(Token)
      BY <1>1, <3>3, RoundFacts DEF OfLength, Inv, TypeOK, BeamState
    <3>5. Len(beams[b].trace) < MaxLength
      <4>1. Says(b) = selected[i].trace
        BY <1>1, <3>1, <3>3 DEF Inv, Selections
      <4>. QED BY <1>1, <3>3, <4>1 DEF LengthInv, Says
    <3>. QED BY <3>2, <3>4, <3>5, AddFits
  <2>2. CASE ~ \E i \in Firsts : selected[i].beam = b
    BY <1>1, <2>2 DEF LengthInv
  <2>. QED BY <2>1, <2>2
<1>3. LengthInv'
  BY <1>1, <1>2 DEF LengthInv
<1>4. RoundLength' = RoundLength
  BY <1>1 DEF RoundLength
<1>5. RoundLength \in 0 .. MaxLength /\ Place[phase'] < Place[phase]
  BY <1>1, RoundLengthType DEF Place
<1>. QED BY <1>1, <1>3, <1>4, <1>5, FuelOfStep DEF Phase

LEMMA ShareLength == ASSUME Inv, LengthInv, Share PROVE LengthInv' /\ Fuel' < Fuel
<1>. DEFINE takers == Live \ updated
<1>1. /\ phase = "share" /\ phase' = "displace" /\ Within /\ Within' /\ selected' = selected
      /\ beams' = [b \in Beam |-> IF b \in takers THEN Becomes(b, Match(candidates, takers, b))
                                                 ELSE beams[b]]
  BY DEF Share, Match, Within
<1>2. ASSUME NEW b \in takers PROVE b \in Beam /\ Match(candidates, takers, b) \in Beam
  <2>1. takers \subseteq 1 .. N /\ candidates \subseteq 1 .. N /\ N \in Nat
    BY Beams DEF Inv, TypeOK, Live
  <2>2. Cardinality(candidates) = Cardinality(takers)
    BY <1>1 DEF Inv, Sharing
  <2>. HIDE DEF takers
  <2>3. Match(candidates, takers, b) \in candidates
    BY <2>1, <2>2, MatchExists
  <2>. QED BY <2>1, <2>3, Beams
<1>3. ASSUME NEW b \in Beam PROVE Fits(beams'[b])
  BY <1>1, <1>2, BecomesFits DEF LengthInv
<1>4. LengthInv'
  BY <1>1, <1>3 DEF LengthInv
<1>5. RoundLength' = RoundLength
  BY <1>1 DEF RoundLength
<1>6. RoundLength \in 0 .. MaxLength /\ Place[phase'] < Place[phase]
  BY <1>1, RoundLengthType DEF Place
<1>. QED BY <1>1, <1>4, <1>5, <1>6, FuelOfStep DEF Phase

LEMMA DisplaceLength == ASSUME Inv, LengthInv, Displace PROVE LengthInv' /\ Fuel' < Fuel
<1>. DEFINE index(S, b) == Cardinality(updated) + Rank(S, b)
<1>1. PICK worse \in SUBSET (Beam \ updated) :
         beams' = [b \in Beam |-> IF b \in worse THEN Becomes(b, index(worse, b)) ELSE beams[b]]
  BY DEF Displace
<1>2. phase = "displace" /\ phase' = "run" /\ Within /\ ~Within'
  BY DEF Displace, Within
<1>3. PICK len \in Nat : OfLength(len)
  BY <1>2, RoundFacts
<1>4. updated \in SUBSET Beam /\ Live \subseteq updated
  BY <1>2 DEF Inv, TypeOK, Displacing
<1>5. ASSUME NEW b \in worse PROVE index(worse, b) \in Beam /\ b \in Beam
  BY <1>4, DisplaceIndex
<1>. HIDE DEF index
<1>6. ASSUME NEW b \in Beam PROVE Fits(beams'[b])
  BY <1>1, <1>2, <1>5, BecomesFits DEF LengthInv
<1>7. LengthInv'
  BY <1>2, <1>6 DEF LengthInv
<1>8. RoundLength = len /\ len < MaxLength /\ MaxLength \in Nat
  <2>1. 1 \in Beam
    BY Beams, BeamAssumption DEF Beam
  <2>. QED BY <1>2, <1>3, <2>1, BeamAssumption DEF RoundLength, OfLength, LengthInv
<1>9. ASSUME NEW b \in Live' PROVE Len(beams'[b].trace) = len + 1
  <2>1. b \in Beam
    BY DEF Live
  <2>2. CASE b \in worse
    <3>1. beams'[b].trace = Continuation(index(worse, b))
      BY <1>1, <1>2, <1>5, <2>1, <2>2, BecomesFacts
    <3>. QED BY <1>3, <1>5, <2>2, <3>1 DEF OfLength
  <2>3. CASE b \notin worse
    <3>1. beams'[b] = beams[b]
      BY <1>1, <2>1, <2>3
    <3>2. b \in updated
      BY <1>4, <3>1 DEF Live, Completed
    <3>3. PICK i \in 1 .. Cardinality(updated) : Says(b) = Continuation(i)
      BY <1>2, <3>2 DEF Inv, Displacing, Used
    <3>4. i \in Beam
      <4>1. Cardinality(updated) \in 0 .. N /\ N \in Nat
        BY <1>4, Beams, SubsetsOfRange
      <4>. QED BY <4>1, Beams
    <3>. QED BY <1>3, <3>1, <3>3, <3>4 DEF OfLength, Says
  <2>. QED BY <2>2, <2>3
<1>10. RoundLength' \in len + 1 .. MaxLength
  <2>1. CASE Live' = {}
    BY <1>2, <1>8, <2>1 DEF RoundLength
  <2>2. CASE Live' # {}
    <3>. DEFINE c == CHOOSE c \in Live' : TRUE
    <3>1. c \in Live'
      BY <2>2
    <3>2. RoundLength' = Len(beams'[c].trace)
      BY <1>2, <2>2 DEF RoundLength, Says
    <3>. HIDE DEF c
    <3>. QED BY <1>8, <1>9, <3>1, <3>2
  <2>. QED BY <2>1, <2>2
<1>. QED BY <1>2, <1>7, <1>8, <1>10, FuelOfStep DEF Phase

LEMMA DoneLength == ASSUME Inv, LengthInv, Done PROVE LengthInv' /\ Fuel' < Fuel
<1>1. phase = "run" /\ phase' = "done" /\ beams' = beams /\ Live = {} /\ ~Within /\ ~Within'
  BY DEF Done, Within
<1>2. LengthInv'
  BY <1>1 DEF LengthInv
<1>3. RoundLength = MaxLength /\ RoundLength' = MaxLength
  BY <1>1 DEF RoundLength, Live, Completed
<1>4. RoundLength \in 0 .. MaxLength /\ Place[phase'] < Place[phase]
  BY <1>1, RoundLengthType DEF Place
<1>. QED BY <1>1, <1>2, <1>3, <1>4, FuelOfStep DEF Phase

LEMMA StepLength == Inv /\ LengthInv /\ Next => LengthInv' /\ Fuel' < Fuel
  BY DoChat0Length, RunBeamsLength, SelectLength, ExtendLength, ShareLength, DisplaceLength,
     DoneLength DEF Next

LEMMA LengthHolds == Spec => []LengthInv
<1>1. LengthInv /\ UNCHANGED vars => LengthInv'
  BY DEF LengthInv, Within, vars
<1>. QED BY <1>1, InitLength, StepLength, InvHolds, PTL DEF Spec

\* However beams are extended, shared and displaced, no answer is longer than
\* max_length, and one of that length has ended.
THEOREM AnswersFit ==
    Spec => [](\A b \in Beam : /\ Len(beams[b].trace) <= MaxLength
                               /\ Len(beams[b].trace) = MaxLength => beams[b].completed)
<1>1. Inv /\ LengthInv => \A b \in Beam : /\ Len(beams[b].trace) <= MaxLength
                                          /\ Len(beams[b].trace) = MaxLength => beams[b].completed
  BY BeamAssumption DEF LengthInv, Fits
<1>. QED BY <1>1, LengthHolds, InvHolds, PTL

\* Every step uses fuel, of which there is six for a token, as many as a round
\* has steps: the search ends, though ended beams are made live again.
THEOREM FuelIsUsed == Spec => [](Fuel \in 0 .. 6 * MaxLength + 5) /\ [][Fuel' < Fuel]_vars
<1>1. ASSUME Inv, LengthInv PROVE Fuel \in 0 .. 6 * MaxLength + 5
  <2>1. RoundLength \in 0 .. MaxLength /\ MaxLength \in Nat
    BY <1>1, RoundLengthType, BeamAssumption
  <2>2. Place[phase] \in 0 .. 5
    BY <1>1 DEF Inv, TypeOK, Place
  <2>. QED BY <2>1, <2>2 DEF Fuel
<1>. QED BY <1>1, LengthHolds, InvHolds, StepLength, PTL DEF Spec
=============================================================================
