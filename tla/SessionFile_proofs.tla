------------------------- MODULE SessionFile_proofs -------------------------
(***************************************************************************)
(* Theorems about SessionFile, for every history, text, cache and model,   *)
(* and for a disk that is full at any byte.                                *)
(***************************************************************************)
EXTENDS SessionFile, WellFoundedInduction, NaturalsInduction, TLAPS

-----------------------------------------------------------------------------
(* Counting up to n, and functions that are defined so. *)

LEMMA CountingUp ==
    ASSUME NEW n \in Nat, NEW P, 0 \in P, \A i \in 1 .. n : i - 1 \in P => i \in P
    PROVE  \A i \in 0 .. n : i \in P
<1>. DEFINE T == {i \in 0 .. n : i \notin P}
            R == {ss \in Nat \X Nat : ss[1] < ss[2]}
<1>1. SUFFICES ASSUME T # {} PROVE FALSE
  OBVIOUS
<1>2. PICK x \in T : \A y \in T : ~(<<y, x>> \in R)
  <2>1. IsWellFoundedOn(R, Nat)
    BY NatLessThanWellFounded DEF OpToRel
  <2>2. T \subseteq Nat
    OBVIOUS
  <2>. HIDE DEF R, T
  <2>. QED BY <1>1, <2>1, <2>2, WFMin
<1>3. ASSUME NEW y \in T PROVE ~(y < x)
  <2>1. x \in Nat /\ y \in Nat /\ ~(<<y, x>> \in R)
    BY <1>2
  <2>. QED BY <2>1
<1>4. x \in 1 .. n /\ x - 1 \in 0 .. n /\ x - 1 < x
  OBVIOUS
<1>5. x - 1 \in P
  BY <1>3, <1>4
<1>. QED BY <1>4, <1>5

\* From x on, each value of r is what step makes of the one before it.
Repeats(r, x, step, n) ==
    r = [i \in 0 .. n |-> IF i = 0 THEN x ELSE step[i][r[i - 1]]]

LEMMA RepeatsExists ==
    ASSUME NEW S, NEW x \in S, NEW n \in Nat, NEW step \in [Nat -> [S -> S]]
    PROVE  \E r \in [0 .. n -> S] : Repeats(r, x, step, n)
<1>. DEFINE P == {m \in Nat : \E r \in [0 .. m -> S] : Repeats(r, x, step, m)}
<1>1. 0 \in P
  <2>. DEFINE r == [i \in 0 .. 0 |-> x]
  <2>1. r \in [0 .. 0 -> S] /\ Repeats(r, x, step, 0)
    BY DEF Repeats
  <2>. QED BY <2>1
<1>2. ASSUME NEW m \in 1 .. n, m - 1 \in P PROVE m \in P
  <2>1. PICK r \in [0 .. m - 1 -> S] : Repeats(r, x, step, m - 1)
    BY <1>2
  <2>. DEFINE last == step[m][r[m - 1]]
              q == [i \in 0 .. m |-> IF i = m THEN last ELSE r[i]]
  <2>2. last \in S
    BY <1>2
  <2>3. q \in [0 .. m -> S]
    <3>. HIDE DEF last
    <3>. QED BY <1>2, <2>2
  <2>4. \A i \in 0 .. m - 1 : r[i] = IF i = 0 THEN x ELSE step[i][r[i - 1]]
    BY <1>2, <2>1 DEF Repeats
  <2>5. \A i \in 0 .. m : q[i] = IF i = 0 THEN x ELSE step[i][q[i - 1]]
    BY <1>2, <2>4
  <2>6. Repeats(q, x, step, m)
    <3>1. q = [i \in 0 .. m |-> q[i]]
      OBVIOUS
    <3>. HIDE DEF q
    <3>. QED BY <2>5, <3>1 DEF Repeats
  <2>. QED BY <1>2, <2>3, <2>6
<1>3. n \in P
  <2>. HIDE DEF P
  <2>. QED BY <1>1, <1>2, CountingUp, SMTT(40)
<1>. QED BY <1>3

-----------------------------------------------------------------------------
(* What is written. *)

LEMMA BytesType ==
    ASSUME NEW v \in Int, NEW w \in Nat
    PROVE  /\ Bytes(v, w) \in Seq(Nat) /\ Len(Bytes(v, w)) = w
           /\ \A i \in 1 .. w : Bytes(v, w)[i] = IF v < 0 THEN 255 ELSE IF i = 1 THEN v ELSE 0
<1>1. \A i \in 1 .. w : (IF v < 0 THEN 255 ELSE IF i = 1 THEN v ELSE 0) \in Nat
  OBVIOUS
<1>. QED BY <1>1 DEF Bytes

LEMMA BytesSay ==
    ASSUME NEW v \in Int
    PROVE  /\ Bytes(v, 4) \in Seq(Nat) /\ Len(Bytes(v, 4)) = 4
           /\ Bytes(v, 8) \in Seq(Nat) /\ Len(Bytes(v, 8)) = 8
           /\ \A i \in 1 .. 8 : Bytes(v, 8)[i] = IF v < 0 THEN 255 ELSE IF i = 1 THEN v ELSE 0
<1>1. Bytes(v, 4) \in Seq(Nat) /\ Len(Bytes(v, 4)) = 4
  BY BytesType, 4 \in Nat
<1>2. Bytes(v, 8) \in Seq(Nat) /\ Len(Bytes(v, 8)) = 8
  BY BytesType, 8 \in Nat
<1>3. \A i \in 1 .. 8 : Bytes(v, 8)[i] = IF v < 0 THEN 255 ELSE IF i = 1 THEN v ELSE 0
  BY DEF Bytes
<1>. QED BY <1>1, <1>2, <1>3

LEMMA Joined ==
    ASSUME NEW S, NEW a \in Seq(S), NEW b \in Seq(S)
    PROVE  /\ a \o b \in Seq(S) /\ Len(a \o b) = Len(a) + Len(b)
           /\ Len(a) \in Nat /\ Len(b) \in Nat
OBVIOUS

LEMMA JoinedFirst ==
    ASSUME NEW S, NEW a \in Seq(S), NEW b \in Seq(S), NEW i \in 1 .. Len(a)
    PROVE  (a \o b)[i] = a[i]
OBVIOUS

LEMMA JoinedSecond ==
    ASSUME NEW S, NEW a \in Seq(S), NEW b \in Seq(S), NEW i \in 1 .. Len(b)
    PROVE  (a \o b)[Len(a) + i] = b[i]
OBVIOUS

\* Joining sequences gives a sequence that begins with the first of them.
LEMMA FlattenBegins ==
    ASSUME NEW S, NEW ss \in Seq(Seq(S))
    PROVE  /\ FlattenSeq(ss) \in Seq(S)
           /\ ss = <<>> => FlattenSeq(ss) = <<>>
           /\ ss # <<>> => /\ Len(ss[1]) <= Len(FlattenSeq(ss))
                           /\ \A i \in 1 .. Len(ss[1]) : FlattenSeq(ss)[i] = ss[1][i]
<1>1. CASE ss = <<>>
  BY <1>1 DEF FlattenSeq
<1>2. CASE ss # <<>>
  <2>. DEFINE n == Len(ss)
              Joins(q) == q = [i \in 1 .. n |-> IF i = 1 THEN ss[i] ELSE q[i - 1] \o ss[i]]
              flat == CHOOSE q : Joins(q)
              step == [i \in Nat |-> [t \in Seq(S) |-> IF i + 1 \in 1 .. n THEN t \o ss[i + 1] ELSE t]]
              P == {i \in 0 .. n - 1 : /\ flat[i + 1] \in Seq(S)
                                       /\ Len(ss[1]) <= Len(flat[i + 1])
                                       /\ \A k \in 1 .. Len(ss[1]) : flat[i + 1][k] = ss[1][k]}
  <2>1. n \in Nat /\ n > 0 /\ \A i \in 1 .. n : ss[i] \in Seq(S)
    BY <1>2
  <2>2. step \in [Nat -> [Seq(S) -> Seq(S)]]
    BY <2>1
  <2>3. PICK r \in [0 .. n - 1 -> Seq(S)] : Repeats(r, ss[1], step, n - 1)
    <3>1. n - 1 \in Nat /\ ss[1] \in Seq(S)
      BY <2>1
    <3>. HIDE DEF step, n
    <3>. QED BY <2>2, <3>1, RepeatsExists
  <2>4. \A i \in 0 .. n - 1 : r[i] = IF i = 0 THEN ss[1] ELSE r[i - 1] \o ss[i + 1]
    <3>1. \A i \in 0 .. n - 1 : r[i] = IF i = 0 THEN ss[1] ELSE step[i][r[i - 1]]
      BY <2>3 DEF Repeats
    <3>2. ASSUME NEW i \in 1 .. n - 1 PROVE step[i][r[i - 1]] = r[i - 1] \o ss[i + 1]
      <4>1. i \in Nat /\ r[i - 1] \in Seq(S) /\ i + 1 \in 1 .. n
        <5>1. r \in [0 .. n - 1 -> Seq(S)]
          BY <2>3
        <5>. HIDE DEF n
        <5>. QED BY <2>1, <5>1
      <4>. HIDE DEF n
      <4>. QED BY <4>1
    <3>3. ASSUME NEW i \in 0 .. n - 1
          PROVE  r[i] = IF i = 0 THEN ss[1] ELSE r[i - 1] \o ss[i + 1]
      <4>. HIDE DEF step
      <4>1. CASE i = 0
        BY <3>1, <4>1
      <4>2. CASE i # 0
        <5>1. i \in 1 .. n - 1
          BY <2>1, <4>2
        <5>. HIDE DEF n
        <5>. QED BY <3>1, <3>2, <4>2, <5>1
      <4>. QED BY <4>1, <4>2
    <3>. QED BY <3>3
  <2>5. \E q : Joins(q)
    <3>. DEFINE q == [i \in 1 .. n |-> r[i - 1]]
    <3>1. \A i \in 1 .. n : q[i] = IF i = 1 THEN ss[i] ELSE q[i - 1] \o ss[i]
      <4>1. ASSUME NEW i \in 1 .. n PROVE q[i] = IF i = 1 THEN ss[i] ELSE q[i - 1] \o ss[i]
        <5>1. i - 1 \in 0 .. n - 1 /\ (i - 1) + 1 = i /\ (i # 1 => i - 1 \in 1 .. n)
          BY <2>1
        <5>2. r[i - 1] = IF i - 1 = 0 THEN ss[1] ELSE r[(i - 1) - 1] \o ss[(i - 1) + 1]
          <6>. HIDE DEF n
          <6>. QED BY <2>4, <5>1
        <5>3. q[i] = r[i - 1] /\ (i # 1 => q[i - 1] = r[(i - 1) - 1])
          <6>. HIDE DEF n
          <6>. QED BY <5>1
        <5>4. i - 1 = 0 <=> i = 1
          BY <2>1
        <5>. HIDE DEF q
        <5>. QED BY <5>1, <5>2, <5>3, <5>4
      <4>. QED BY <4>1
    <3>2. q = [i \in 1 .. n |-> q[i]]
      OBVIOUS
    <3>3. Joins(q)
      <4>. HIDE DEF q
      <4>. QED BY <3>1, <3>2
    <3>. QED BY <3>3
  <2>6. Joins(flat)
    <3>. HIDE DEF Joins
    <3>. QED BY <2>5
  <2>7. \A i \in 1 .. n : flat[i] = IF i = 1 THEN ss[i] ELSE flat[i - 1] \o ss[i]
    <3>. HIDE DEF flat
    <3>. QED BY <2>6
  <2>8. FlattenSeq(ss) = flat[n]
    BY <2>1 DEF FlattenSeq
  <2>. HIDE DEF flat
  <2>9. 0 \in P
    BY <2>1, <2>7
  <2>10. ASSUME NEW i \in 1 .. n - 1, i - 1 \in P PROVE i \in P
    <3>1. /\ i \in 0 .. n - 1 /\ i + 1 \in 1 .. n /\ i + 1 # 1 /\ (i + 1) - 1 = i /\ (i - 1) + 1 = i
      BY <2>1
    <3>2. flat[i + 1] = flat[i] \o ss[i + 1]
      BY <2>7, <3>1
    <3>3. /\ flat[i] \in Seq(S) /\ Len(ss[1]) <= Len(flat[i])
          /\ \A k \in 1 .. Len(ss[1]) : flat[i][k] = ss[1][k]
      BY <2>10, <3>1
    <3>4. ss[1] \in Seq(S) /\ ss[i + 1] \in Seq(S)
      BY <2>1, <3>1
    <3>5. /\ flat[i + 1] \in Seq(S) /\ Len(ss[1]) <= Len(flat[i + 1])
          /\ \A k \in 1 .. Len(ss[1]) : flat[i + 1][k] = ss[1][k]
      <4>. DEFINE a == flat[i]
                  b == ss[i + 1]
                  c == ss[1]
      <4>1. a \in Seq(S) /\ b \in Seq(S) /\ c \in Seq(S) /\ flat[i + 1] = a \o b
        BY <3>2, <3>3, <3>4
      <4>2. Len(c) <= Len(a) /\ \A k \in 1 .. Len(c) : a[k] = c[k]
        BY <3>3
      <4>. HIDE DEF a, b, c
      <4>3. /\ a \o b \in Seq(S) /\ Len(c) <= Len(a \o b)
            /\ \A k \in 1 .. Len(c) : (a \o b)[k] = c[k]
        BY ONLY <4>1, <4>2
      <4>. QED BY <4>1, <4>3 DEF c
    <3>. QED BY <3>1, <3>5
  <2>11. n - 1 \in P
    <3>1. n - 1 \in Nat /\ n - 1 \in 0 .. n - 1
      BY <2>1
    <3>. HIDE DEF P, n
    <3>. QED BY <2>9, <2>10, <3>1, CountingUp
  <2>. QED BY <1>2, <2>1, <2>8, <2>11
<1>. QED BY <1>1, <1>2

LEMMA PieceSays ==
    ASSUME NEW p \in Piece
    PROVE  SavedPiece(p) \in Seq(Nat)
<1>1. p.type \in Int /\ p.data \in Seq(Nat) /\ Len(p.data) \in Int /\ 4 \in Nat /\ 8 \in Nat
  BY SessionAssumption
<1>2. Bytes(p.type, 4) \in Seq(Nat) /\ Bytes(Len(p.data), 8) \in Seq(Nat)
  BY <1>1, BytesType
<1>. QED BY <1>1, <1>2 DEF SavedPiece

\* Behind round, token position and role stands how many pieces there are.
LEMMA MessageSays ==
    ASSUME NEW m \in Message
    PROVE  /\ SavedMessage(m) \in Seq(Nat) /\ Len(SavedMessage(m)) >= 20
           /\ SavedMessage(m)[13] = Len(m.content)
<1>. DEFINE a == Bytes(m.round, 4)
            b == Bytes(m.tok_pos, 4)
            c == Bytes(RoleCode[m.role], 4)
            d == Bytes(Len(m.content), 8)
            ps == [i \in DOMAIN m.content |-> SavedPiece(m.content[i])]
            e == FlattenSeq(ps)
<1>1. /\ m.round \in Int /\ m.tok_pos \in Int /\ m.content \in Seq(Piece)
      /\ Len(m.content) \in Nat /\ RoleCode[m.role] \in Int
  BY DEF Message, Role, RoleCode
<1>2. a \in Seq(Nat) /\ Len(a) = 4
  BY <1>1, BytesSay
<1>3. b \in Seq(Nat) /\ Len(b) = 4
  BY <1>1, BytesSay
<1>9. c \in Seq(Nat) /\ Len(c) = 4
  BY <1>1, BytesSay
<1>10. d \in Seq(Nat) /\ Len(d) = 8 /\ d[1] = Len(m.content)
  <2>. DEFINE n == Len(m.content)
  <2>1. n \in Nat
    BY <1>1
  <2>. HIDE DEF n
  <2>2. Bytes(n, 8) \in Seq(Nat) /\ Len(Bytes(n, 8)) = 8 /\ Bytes(n, 8)[1] = n
    BY <2>1, BytesSay
  <2>. QED BY <2>2 DEF n
<1>4. e \in Seq(Nat)
  <2>1. \A i \in DOMAIN m.content : SavedPiece(m.content[i]) \in Seq(Nat)
    BY <1>1, PieceSays
  <2>2. ps \in Seq(Seq(Nat))
    <3>1. DOMAIN m.content = 1 .. Len(m.content)
      BY <1>1
    <3>. QED BY <1>1, <2>1, <3>1
  <2>. HIDE DEF ps
  <2>. QED BY <2>2, FlattenBegins
<1>5. SavedMessage(m) = a \o b \o c \o d \o e
  BY DEF SavedMessage
<1>. HIDE DEF a, b, c, d, e
<1>. DEFINE x == a \o b
            y == x \o c
            z == y \o d
<1>6. x \in Seq(Nat) /\ Len(x) = Len(a) + Len(b)
  BY <1>2, <1>3, Joined
<1>. HIDE DEF x
<1>7. y \in Seq(Nat) /\ Len(y) = Len(x) + Len(c)
  BY <1>6, <1>9, Joined
<1>. HIDE DEF y
<1>8. z \in Seq(Nat) /\ Len(z) = Len(y) + Len(d) /\ z[Len(y) + 1] = d[1]
  <2>1. z \in Seq(Nat) /\ Len(z) = Len(y) + Len(d)
    BY <1>7, <1>10, Joined
  <2>2. \A i \in 1 .. Len(d) : z[Len(y) + i] = d[i]
    <3>1. y \in Seq(Nat) /\ d \in Seq(Nat)
      BY <1>7, <1>10
    <3>. QED BY ONLY <3>1, JoinedSecond
  <2>3. 1 \in 1 .. Len(d)
    BY <1>10
  <2>. HIDE DEF z
  <2>. QED BY <2>1, <2>2, <2>3
<1>. HIDE DEF z
<1>12. Len(x) = 8 /\ Len(y) = 12 /\ Len(z) = 20
  BY ONLY <1>2, <1>3, <1>9, <1>10, <1>6, <1>7, <1>8
<1>13. z \o e \in Seq(Nat) /\ Len(z \o e) = Len(z) + Len(e) /\ (z \o e)[13] = z[13]
  <2>1. z \o e \in Seq(Nat) /\ Len(z \o e) = Len(z) + Len(e)
    BY <1>4, <1>8, Joined
  <2>2. \A i \in 1 .. Len(z) : (z \o e)[i] = z[i]
    BY <1>4, <1>8, JoinedFirst
  <2>. QED BY <1>12, <2>1, <2>2
<1>14. Len(e) \in Nat
  BY <1>4
<1>15. SavedMessage(m) = z \o e
  BY <1>5 DEF x, y, z, a, b, c, d, e
<1>. QED BY <1>8, <1>10, <1>12, <1>13, <1>14, <1>15

\* The beginning of a file, and what is behind it.
LEMMA SessionSays ==
    ASSUME NEW h \in Seq(Message), NEW c \in Seq(Nat)
    PROVE  LET f == SavedSession(h, c) IN
           /\ f \in Seq(Nat) /\ Len(f) >= HeaderLength
           /\ \A d \in Seq(Nat) : Len(d) = Len(c) => Len(SavedSession(h, d)) = Len(f)
           /\ \A i \in 1 .. Len(Magic) : f[i] = Magic[i]
           /\ \A i \in 1 .. 8 : f[Len(Magic) + i] = IF i = 1 THEN Len(h) ELSE 0
           /\ h # <<>> => /\ Len(f) >= HeaderLength + 20
                          /\ f[HeaderLength + 13] = Len(h[1].content)
           /\ h = <<>> =>
                /\ Len(f) = HeaderLength + Len(ModelType) + Len(c)
                /\ \A i \in 1 .. Len(ModelType) : f[HeaderLength + i] = ModelType[i]
                /\ \A i \in 1 .. Len(c) : f[HeaderLength + Len(ModelType) + i] = c[i]
<1>. DEFINE f == SavedSession(h, c)
            a == Magic
            b == Bytes(Len(h), 8)
            ms == [i \in DOMAIN h |-> SavedMessage(h[i])]
            e == FlattenSeq(ms)
            t == ModelType
<1>1. Len(h) \in Nat /\ a \in Seq(Nat) /\ t \in Seq(Nat)
  BY SessionAssumption
<1>2. /\ b \in Seq(Nat) /\ Len(b) = 8
      /\ \A i \in 1 .. 8 : b[i] = IF i = 1 THEN Len(h) ELSE 0
  <2>. DEFINE n == Len(h)
  <2>1. n \in Nat
    BY <1>1
  <2>. HIDE DEF n
  <2>2. /\ Bytes(n, 8) \in Seq(Nat) /\ Len(Bytes(n, 8)) = 8
        /\ \A i \in 1 .. 8 :
             Bytes(n, 8)[i] = IF n < 0 THEN 255 ELSE IF i = 1 THEN n ELSE 0
    BY <2>1, BytesSay, n \in Int
  <2>3. \A i \in 1 .. 8 : Bytes(n, 8)[i] = IF i = 1 THEN n ELSE 0
    BY <2>1, <2>2
  <2>. QED BY <2>2, <2>3 DEF n
<1>3. /\ ms \in Seq(Seq(Nat)) /\ (h = <<>> => ms = <<>>)
      /\ h # <<>> => ms # <<>> /\ ms[1] = SavedMessage(h[1]) /\ h[1] \in Message
  <2>1. \A i \in DOMAIN h : SavedMessage(h[i]) \in Seq(Nat)
    BY MessageSays
  <2>2. DOMAIN h = 1 .. Len(h)
    OBVIOUS
  <2>3. ms \in Seq(Seq(Nat)) /\ Len(ms) = Len(h)
    BY <1>1, <2>1, <2>2
  <2>. QED BY <2>2, <2>3
<1>4. /\ e \in Seq(Nat) /\ (h = <<>> => e = <<>>)
      /\ h # <<>> => Len(e) >= 20 /\ e[13] = Len(h[1].content)
  <2>1. /\ e \in Seq(Nat) /\ (h = <<>> => e = <<>>)
        /\ h # <<>> => /\ Len(ms[1]) <= Len(e)
                       /\ \A i \in 1 .. Len(ms[1]) : e[i] = ms[1][i]
    <3>. HIDE DEF ms
    <3>. QED BY <1>3, FlattenBegins
  <2>2. h # <<>> => ms[1] \in Seq(Nat) /\ Len(ms[1]) >= 20 /\ ms[1][13] = Len(h[1].content)
    <3>. HIDE DEF ms
    <3>. QED BY <1>3, MessageSays
  <2>. HIDE DEF ms, e
  <2>. QED BY <2>1, <2>2
<1>. DEFINE x == a \o b
            y == x \o e
            z == y \o t
<1>5. f = z \o c
  BY DEF SavedSession, Header
<1>5a. \A d : SavedSession(h, d) = z \o d
  BY DEF SavedSession, Header
<1>6. HeaderLength = Len(a) + 8
  BY DEF HeaderLength
<1>. HIDE DEF a, b, e, t, f
<1>7. /\ x \in Seq(Nat) /\ Len(x) = Len(a) + Len(b)
      /\ Len(a) \in Nat /\ Len(b) \in Nat
      /\ \A i \in 1 .. Len(a) : x[i] = a[i]
      /\ \A i \in 1 .. Len(b) : x[Len(a) + i] = b[i]
  <2>1. x \in Seq(Nat) /\ Len(x) = Len(a) + Len(b) /\ Len(a) \in Nat /\ Len(b) \in Nat
    BY <1>1, <1>2, Joined
  <2>2. \A i \in 1 .. Len(a) : x[i] = a[i]
    BY <1>1, <1>2, JoinedFirst
  <2>3. \A i \in 1 .. Len(b) : x[Len(a) + i] = b[i]
    <3>1. a \in Seq(Nat) /\ b \in Seq(Nat)
      BY <1>1, <1>2
    <3>. QED BY ONLY <3>1, JoinedSecond
  <2>. QED BY <2>1, <2>2, <2>3
<1>. HIDE DEF x
<1>8. /\ y \in Seq(Nat) /\ Len(y) = Len(x) + Len(e)
      /\ Len(x) \in Nat /\ Len(e) \in Nat
      /\ \A i \in 1 .. Len(x) : y[i] = x[i]
      /\ \A i \in 1 .. Len(e) : y[Len(x) + i] = e[i]
  <2>1. y \in Seq(Nat) /\ Len(y) = Len(x) + Len(e) /\ Len(x) \in Nat /\ Len(e) \in Nat
    BY <1>4, <1>7, Joined
  <2>2. \A i \in 1 .. Len(x) : y[i] = x[i]
    BY <1>4, <1>7, JoinedFirst
  <2>3. \A i \in 1 .. Len(e) : y[Len(x) + i] = e[i]
    BY <1>4, <1>7, JoinedSecond, SMTT(40)
  <2>. QED BY <2>1, <2>2, <2>3
<1>. HIDE DEF y
<1>9. /\ z \in Seq(Nat) /\ Len(z) = Len(y) + Len(t)
      /\ Len(y) \in Nat /\ Len(t) \in Nat
      /\ \A i \in 1 .. Len(y) : z[i] = y[i]
      /\ \A i \in 1 .. Len(t) : z[Len(y) + i] = t[i]
  <2>1. z \in Seq(Nat) /\ Len(z) = Len(y) + Len(t) /\ Len(y) \in Nat /\ Len(t) \in Nat
    BY <1>1, <1>8, Joined
  <2>2. \A i \in 1 .. Len(y) : z[i] = y[i]
    BY <1>1, <1>8, JoinedFirst
  <2>3. \A i \in 1 .. Len(t) : z[Len(y) + i] = t[i]
    BY <1>1, <1>8, JoinedSecond
  <2>. QED BY <2>1, <2>2, <2>3
<1>. HIDE DEF z
<1>10. /\ f \in Seq(Nat) /\ Len(f) = Len(z) + Len(c)
       /\ Len(z) \in Nat /\ Len(c) \in Nat
       /\ \A i \in 1 .. Len(z) : f[i] = z[i]
       /\ \A i \in 1 .. Len(c) : f[Len(z) + i] = c[i]
  <2>1. f \in Seq(Nat) /\ Len(f) = Len(z) + Len(c) /\ Len(z) \in Nat /\ Len(c) \in Nat
    BY <1>5, <1>9, Joined
  <2>2. \A i \in 1 .. Len(z) : f[i] = z[i]
    BY <1>5, <1>9, JoinedFirst
  <2>3. \A i \in 1 .. Len(c) : f[Len(z) + i] = c[i]
    BY <1>5, <1>9, JoinedSecond
  <2>. QED BY <2>1, <2>2, <2>3
<1>11. /\ Len(a) \in Nat /\ Len(e) \in Nat /\ Len(t) \in Nat /\ Len(c) \in Nat
       /\ Len(f) = Len(a) + 8 + Len(e) + Len(t) + Len(c)
  BY ONLY <1>2, <1>7, <1>8, <1>9, <1>10
<1>12. \A i \in 1 .. Len(a) : f[i] = a[i]
  BY ONLY <1>2, <1>7, <1>8, <1>9, <1>10, <1>11, SMTT(40)
<1>13. ASSUME NEW i \in 1 .. 8 PROVE f[Len(a) + i] = b[i]
  <2>. DEFINE k == Len(a) + i
  <2>1. i \in 1 .. Len(b)
    BY <1>2
  <2>4. k \in 1 .. Len(x) /\ k \in 1 .. Len(y) /\ k \in 1 .. Len(z)
    <3>1. Len(x) <= Len(y) /\ Len(y) <= Len(z) /\ Len(x) \in Nat /\ Len(y) \in Nat /\ Len(z) \in Nat
      BY ONLY <1>7, <1>8, <1>9
    <3>2. k \in 1 .. Len(x)
      BY ONLY <1>7, <2>1
    <3>. HIDE DEF k
    <3>. QED BY ONLY <3>1, <3>2
  <2>2. x[k] = b[i]
    BY <1>7, <2>1
  <2>. HIDE DEF k
  <2>3. f[k] = x[k]
    BY <1>8, <1>9, <1>10, <2>4
  <2>. QED BY <2>2, <2>3 DEF k
<1>14. ASSUME NEW i \in 1 .. Len(e) PROVE f[Len(a) + 8 + i] = e[i]
  <2>. DEFINE k == Len(x) + i
  <2>1. k = Len(a) + 8 + i /\ k \in 1 .. Len(y) /\ k \in 1 .. Len(z)
    BY <1>2, <1>7, <1>8, <1>9, <1>11, SMTT(40)
  <2>2. y[k] = e[i]
    BY <1>8
  <2>. HIDE DEF k
  <2>3. f[k] = y[k]
    BY <1>9, <1>10, <2>1
  <2>. QED BY <2>1, <2>2, <2>3
<1>15. h = <<>> => Len(e) = 0
  BY <1>4
<1>16. ASSUME h = <<>>, NEW i \in 1 .. Len(t) PROVE f[Len(a) + 8 + i] = t[i]
  <2>. DEFINE k == Len(y) + i
  <2>1. k = Len(a) + 8 + i /\ k \in 1 .. Len(z)
    BY <1>2, <1>7, <1>8, <1>9, <1>11, <1>15, <1>16
  <2>2. z[k] = t[i]
    BY <1>9
  <2>. HIDE DEF k
  <2>3. f[k] = z[k]
    BY <1>10, <2>1
  <2>. QED BY <2>1, <2>2, <2>3
<1>17. ASSUME h = <<>>, NEW i \in 1 .. Len(c) PROVE f[Len(a) + 8 + Len(t) + i] = c[i]
  <2>1. Len(z) + i = Len(a) + 8 + Len(t) + i
    BY <1>2, <1>7, <1>8, <1>9, <1>11, <1>15, <1>17
  <2>2. f[Len(z) + i] = c[i]
    <3>1. i \in 1 .. Len(c)
      OBVIOUS
    <3>2. \A q \in 1 .. Len(c) : f[Len(z) + q] = c[q]
      BY <1>10
    <3>. QED BY ONLY <3>1, <3>2
  <2>. QED BY <2>1, <2>2
<1>18. h # <<>> => Len(f) >= Len(a) + 28 /\ f[(Len(a) + 8) + 13] = Len(h[1].content)
  <2>. SUFFICES ASSUME h # <<>>
                PROVE  Len(f) >= Len(a) + 28 /\ f[(Len(a) + 8) + 13] = Len(h[1].content)
    OBVIOUS
  <2>1. Len(e) >= 20 /\ e[13] = Len(h[1].content) /\ 13 \in 1 .. Len(e)
    BY <1>4, <1>11
  <2>. QED BY <1>11, <1>14, <2>1
<1>. USE DEF a, t, f
<1>19. f \in Seq(Nat) /\ Len(f) >= HeaderLength
  BY <1>6, <1>10, <1>11
<1>20. \A i \in 1 .. 8 : f[Len(Magic) + i] = IF i = 1 THEN Len(h) ELSE 0
  BY <1>2, <1>13
<1>21. h # <<>> => Len(f) >= HeaderLength + 20 /\ f[HeaderLength + 13] = Len(h[1].content)
  BY <1>6, <1>11, <1>18
<1>22. h = <<>> =>
         /\ Len(f) = HeaderLength + Len(ModelType) + Len(c)
         /\ \A i \in 1 .. Len(ModelType) : f[HeaderLength + i] = ModelType[i]
         /\ \A i \in 1 .. Len(c) : f[HeaderLength + Len(ModelType) + i] = c[i]
  BY <1>6, <1>11, <1>15, <1>16, <1>17
<1>23. \A d \in Seq(Nat) : Len(d) = Len(c) => Len(SavedSession(h, d)) = Len(f)
  <2>. SUFFICES ASSUME NEW d \in Seq(Nat), Len(d) = Len(c)
                PROVE  Len(SavedSession(h, d)) = Len(f)
    OBVIOUS
  <2>1. Len(z \o d) = Len(z) + Len(d)
    BY <1>9, Joined
  <2>2. SavedSession(h, d) = z \o d
    BY <1>5a
  <2>3. Len(f) = Len(z) + Len(c)
    BY <1>10
  <2>. HIDE DEF f
  <2>. QED BY <2>1, <2>2, <2>3
<1>. QED BY <1>12, <1>19, <1>20, <1>21, <1>22, <1>23

-----------------------------------------------------------------------------
(* What is read. *)

LEMMA ValueType ==
    ASSUME NEW f \in Seq(Nat), NEW p \in Nat, NEW w \in Nat, w >= 2, p + w <= Len(f)
    PROVE  Value(f, p, w) \in Nat
<1>1. f[p + 1] \in Nat /\ f[p + 2] \in Nat
  <2>1. p + 1 \in 1 .. Len(f) /\ p + 2 \in 1 .. Len(f)
    OBVIOUS
  <2>. QED BY <2>1
<1>2. f[p + 1] + 256 * f[p + 2] \in Nat
  BY <1>1
<1>3. Huge \in Nat
  BY DEF Huge
<1>. QED BY <1>2, <1>3 DEF Value

ReadPieces == Seq([type : Nat, data : Seq(Nat)])
Reading(f) == [pos : 0 .. Len(f), pieces : ReadPieces, huge : BOOLEAN]

\* A piece that can be read takes some bytes, or the rest of the file.
LEMMA ReadPieceSays ==
    ASSUME NEW f \in Seq(Nat), NEW r \in Reading(f)
    PROVE  /\ ReadPiece(f, r) \in Reading(f)
           /\ ReadPiece(f, r).pos = Len(f) \/ ReadPiece(f, r).pos > r.pos
<1>. DEFINE size == Value(f, r.pos + 4, 8)
            end  == r.pos + 12 + size
            q    == ReadPiece(f, r)
<1>1. Len(f) \in Nat /\ r.pos \in Nat /\ r.pos <= Len(f) /\ r.pieces \in ReadPieces
      /\ r.huge \in BOOLEAN
  BY DEF Reading
<1>2. CASE r.pos + 12 > Len(f)
  <2>1. q = [r EXCEPT !.pos = Len(f)]
    BY <1>2 DEF ReadPiece
  <2>. QED BY <1>1, <2>1 DEF Reading
<1>3. CASE ~(r.pos + 12 > Len(f))
  <2>1. size \in Nat /\ Value(f, r.pos, 4) \in Nat
    <3>1. r.pos + 4 \in Nat /\ (r.pos + 4) + 8 <= Len(f) /\ r.pos + 4 <= Len(f) /\ 8 \in Nat
          /\ 4 \in Nat
      BY <1>1, <1>3
    <3>2. size \in Nat
      BY <3>1, ValueType
    <3>3. Value(f, r.pos, 4) \in Nat
      BY <1>1, <3>1, ValueType
    <3>. QED BY <3>2, <3>3
  <2>2. CASE end > Len(f)
    <3>1. q = [r EXCEPT !.pos = Len(f), !.huge = @ \/ size >= Huge]
      BY <1>3, <2>2 DEF ReadPiece
    <3>. HIDE DEF size, end, q
    <3>. DEFINE asks == r.huge \/ size >= Huge
    <3>2. asks \in BOOLEAN
      BY <1>1
    <3>3. q = [r EXCEPT !.pos = Len(f), !.huge = asks]
      BY <3>1
    <3>. HIDE DEF asks
    <3>4. q = [pos |-> Len(f), pieces |-> r.pieces, huge |-> asks]
      BY <3>3 DEF Reading
    <3>5. [pos |-> Len(f), pieces |-> r.pieces, huge |-> asks] \in Reading(f)
      <4>1. Len(f) \in 0 .. Len(f)
        BY <1>1
      <4>. QED BY <1>1, <3>2, <4>1, Zenon DEF Reading
    <3>6. q.pos = Len(f)
      BY <3>4
    <3>. QED BY <3>4, <3>5, <3>6 DEF q
  <2>3. CASE ~(end > Len(f))
    <3>. DEFINE piece == [type |-> Value(f, r.pos, 4), data |-> SubSeq(f, r.pos + 13, end)]
    <3>1. q = [r EXCEPT !.pos = end, !.pieces = Append(@, piece)]
      BY <1>3, <2>3 DEF ReadPiece
    <3>2. end \in 0 .. Len(f) /\ end > r.pos
      <4>. HIDE DEF size
      <4>. QED BY <1>1, <2>1, <2>3
    <3>3. SubSeq(f, r.pos + 13, end) \in Seq(Nat)
      <4>. HIDE DEF end
      <4>. QED BY <1>1, <3>2
    <3>4. piece \in [type : Nat, data : Seq(Nat)]
      BY <2>1, <3>3
    <3>. HIDE DEF piece, end, q
    <3>5. Append(r.pieces, piece) \in ReadPieces
      BY <1>1, <3>4 DEF ReadPieces
    <3>6. q \in Reading(f) /\ q.pos = end
      BY <1>1, <3>1, <3>2, <3>5 DEF Reading
    <3>. QED BY <3>2, <3>6 DEF q
  <2>. QED BY <2>2, <2>3
<1>. QED BY <1>2, <1>3

\* As many pieces as there are bytes: the whole file has been read.
LEMMA LoadPiecesSays ==
    ASSUME NEW f \in Seq(Nat), NEW p \in 0 .. Len(f), NEW n \in Nat
    PROVE  /\ LoadPieces(f, p, n) \in Reading(f)
           /\ n >= Len(f) => LoadPieces(f, p, n).pos = Len(f)
<1>. DEFINE times == IF n < Len(f) THEN n ELSE Len(f)
            x == [pos |-> p, pieces |-> <<>>, huge |-> FALSE]
            Reads(q) == q = [i \in 0 .. times |-> IF i = 0 THEN x ELSE ReadPiece(f, q[i - 1])]
            read == CHOOSE q : Reads(q)
            S == Reading(f)
            step == [i \in Nat |-> [t \in S |-> ReadPiece(f, t)]]
            P == {i \in 0 .. times : read[i] \in S /\ (read[i].pos = Len(f) \/ read[i].pos >= i)}
<1>1. times \in Nat /\ Len(f) \in Nat /\ p \in Nat
  OBVIOUS
<1>2. LoadPieces(f, p, n) = read[times]
  BY DEF LoadPieces
<1>3. x \in S
  <2>1. <<>> \in ReadPieces
    BY DEF ReadPieces
  <2>. QED BY <2>1 DEF Reading
<1>4. \A t \in S : ReadPiece(f, t) \in S
  BY ReadPieceSays
<1>. HIDE DEF S, x, times
<1>5. step \in [Nat -> [S -> S]]
  BY <1>4
<1>6. PICK r \in [0 .. times -> S] : Repeats(r, x, step, times)
  <2>. HIDE DEF step
  <2>. QED BY <1>1, <1>3, <1>5, RepeatsExists
<1>7. Reads(r)
  <2>1. \A i \in 0 .. times : r[i] = IF i = 0 THEN x ELSE step[i][r[i - 1]]
    <3>. HIDE DEF step
    <3>. QED BY <1>6 DEF Repeats
  <2>2. ASSUME NEW i \in 0 .. times
        PROVE  r[i] = IF i = 0 THEN x ELSE ReadPiece(f, r[i - 1])
    <3>1. CASE i = 0
      BY <2>1, <3>1
    <3>2. CASE i # 0
      <4>1. i \in Nat /\ i - 1 \in 0 .. times
        BY <1>1, <3>2
      <4>2. step[i][r[i - 1]] = ReadPiece(f, r[i - 1])
        BY <1>6, <4>1
      <4>. HIDE DEF step
      <4>. QED BY <2>1, <3>2, <4>2
    <3>. QED BY <3>1, <3>2
  <2>3. r = [i \in 0 .. times |-> r[i]]
    BY <1>6
  <2>. QED BY <2>2, <2>3
<1>8. Reads(read)
  <2>. HIDE DEF Reads
  <2>. QED BY <1>7
<1>9. \A i \in 0 .. times : read[i] = IF i = 0 THEN x ELSE ReadPiece(f, read[i - 1])
  <2>. HIDE DEF read
  <2>. QED BY <1>8
<1>. HIDE DEF read
<1>10. 0 \in P
  <2>1. read[0] = x
    BY <1>1, <1>9
  <2>2. x.pos >= 0
    BY DEF x
  <2>. QED BY <1>1, <1>3, <2>1, <2>2
<1>11. ASSUME NEW i \in 1 .. times, i - 1 \in P PROVE i \in P
  <2>. DEFINE t == read[i - 1]
  <2>1. read[i] = ReadPiece(f, t) /\ i \in Nat
    BY <1>1, <1>9
  <2>2. t \in S /\ (t.pos = Len(f) \/ t.pos >= i - 1)
    BY <1>11
  <2>. HIDE DEF t
  <2>3. ReadPiece(f, t) \in S /\ (ReadPiece(f, t).pos = Len(f) \/ ReadPiece(f, t).pos > t.pos)
    BY <2>2, ReadPieceSays DEF S
  <2>4. t.pos \in Nat /\ t.pos <= Len(f) /\ ReadPiece(f, t).pos \in 0 .. Len(f)
    BY <2>2, <2>3 DEF S, Reading
  <2>5. ReadPiece(f, t).pos = Len(f) \/ ReadPiece(f, t).pos >= i
    BY <1>1, <2>1, <2>2, <2>3, <2>4
  <2>. QED BY <1>1, <2>1, <2>3, <2>5
<1>12. times \in P
  <2>1. times \in 0 .. times
    BY <1>1
  <2>. HIDE DEF P
  <2>. QED BY <1>1, <1>10, <1>11, <2>1, CountingUp
<1>13. read[times] \in S /\ (read[times].pos = Len(f) \/ read[times].pos >= times)
  BY <1>12
<1>14. read[times].pos \in 0 .. Len(f)
  BY <1>13 DEF S, Reading
<1>15. n >= Len(f) => times = Len(f)
  BY <1>1 DEF times
<1>. QED BY <1>1, <1>2, <1>13, <1>14, <1>15 DEF S

ReadRole == Role \cup {"Auto", "none"}
ReadMessages(f) ==
    [pos : 0 .. Len(f), role : ReadRole, content : ReadPieces, huge : BOOLEAN]

LEMMA RoleOfCodeType == ASSUME NEW n PROVE RoleOfCode(n) \in ReadRole
<1>1. DOMAIN RoleCode = {"Auto", "User", "Assistant", "Tool"}
  BY DEF RoleCode
<1>2. DOMAIN RoleCode \subseteq ReadRole
  BY <1>1 DEF ReadRole, Role
<1>3. CASE \E r \in DOMAIN RoleCode : RoleCode[r] = n
  <2>1. RoleOfCode(n) \in DOMAIN RoleCode
    BY <1>3 DEF RoleOfCode
  <2>. QED BY <1>2, <2>1
<1>4. CASE ~ \E r \in DOMAIN RoleCode : RoleCode[r] = n
  BY <1>4 DEF RoleOfCode, ReadRole
<1>. QED BY <1>3, <1>4

\* Where the reader looks for the number of pieces, the upper half is the number the
\* writer has put there: a message that has pieces seems to have at least Huge of
\* them, and the rest of the file is read for pieces.
LEMMA LoadMessageSays ==
    ASSUME NEW f \in Seq(Nat), NEW p \in 0 .. Len(f)
    PROVE  /\ LoadMessage(f, p) \in ReadMessages(f)
           /\ p + 16 > Len(f) => LoadMessage(f, p).pos = Len(f)
           /\ Len(f) <= Huge /\ f[p + 13] # 0 => LoadMessage(f, p).pos = Len(f)
<1>1. Len(f) \in Nat /\ p \in Nat /\ p <= Len(f)
  OBVIOUS
<1>2. CASE p + 16 > Len(f)
  <2>. DEFINE m == [pos |-> Len(f), role |-> "User", content |-> <<EmptyText>>, huge |-> FALSE]
  <2>1. LoadMessage(f, p) = m
    BY <1>2 DEF LoadMessage
  <2>2. "User" \in ReadRole
    BY DEF ReadRole, Role
  <2>3. <<EmptyText>> \in ReadPieces
    <3>1. <<>> \in Seq(Nat)
      OBVIOUS
    <3>2. EmptyText \in [type : Nat, data : Seq(Nat)]
      BY <3>1 DEF EmptyText
    <3>. QED BY <3>2 DEF ReadPieces
  <2>4. Len(f) \in 0 .. Len(f) /\ FALSE \in BOOLEAN
    BY <1>1
  <2>5. m \in ReadMessages(f) /\ m.pos = Len(f)
    BY <2>2, <2>3, <2>4, Zenon DEF ReadMessages
  <2>. QED BY <2>1, <2>5
<1>3. CASE ~(p + 16 > Len(f))
  <2>. DEFINE n == Value(f, p + 8, 8)
              body == LoadPieces(f, p + 16, n)
              code == RoleOfCode(Value(f, p + 4, 4))
              m == [pos |-> body.pos, role |-> code, content |-> body.pieces,
                    huge |-> body.huge]
  <2>1. LoadMessage(f, p) = m
    BY <1>3 DEF LoadMessage
  <2>2. n \in Nat
    <3>1. p + 8 \in Nat /\ 8 \in Nat /\ (p + 8) + 8 <= Len(f)
      BY <1>1, <1>3
    <3>. QED BY <3>1, ValueType
  <2>3. p + 16 \in 0 .. Len(f)
    BY <1>1, <1>3
  <2>4. code \in ReadRole
    BY RoleOfCodeType
  <2>5. Len(f) <= Huge /\ f[p + 13] # 0 => n >= Len(f)
    <3>. SUFFICES ASSUME Len(f) <= Huge, f[p + 13] # 0 PROVE n = Huge
      BY <1>1 DEF Huge
    <3>1. 5 \in 3 .. 8 /\ (p + 8) + 5 = p + 13
      BY <1>1
    <3>2. f[(p + 8) + 5] # 0
      BY <3>1
    <3>. QED BY <3>1, <3>2 DEF Value
  <2>. HIDE DEF n, code
  <2>6. body \in Reading(f) /\ (n >= Len(f) => body.pos = Len(f))
    BY <2>2, <2>3, LoadPiecesSays
  <2>. HIDE DEF body
  <2>7. body.pos \in 0 .. Len(f) /\ body.pieces \in ReadPieces /\ body.huge \in BOOLEAN
    BY <2>6, Zenon DEF Reading
  <2>8. m \in ReadMessages(f)
    BY <2>4, <2>7, Zenon DEF ReadMessages
  <2>9. m.pos = body.pos
    OBVIOUS
  <2>. HIDE DEF m
  <2>. QED BY <1>3, <2>1, <2>5, <2>6, <2>8, <2>9
<1>. QED BY <1>2, <1>3

\* Histories that a file may seem to hold.
AnyMessage == [role : Role \cup {"none"}, content : ReadPieces, round : Int, tok_pos : Int]
ReadHistory(f) ==
    [pos : 0 .. Len(f), history : Seq(AnyMessage), round : Int, huge : BOOLEAN]

LEMMA PushedType ==
    ASSUME NEW h \in Seq(AnyMessage), NEW role \in Role \cup {"none"},
           NEW content \in ReadPieces, NEW rnd \in Int
    PROVE  Pushed(h, role, content, rnd) \in Seq(AnyMessage)
<1>1. Len(h) \in Nat
  OBVIOUS
<1>2. CASE Aggregates(h, role)
  <2>. DEFINE n == Len(h)
              m == [h[n] EXCEPT !.content = @ \o content]
  <2>1. n \in 1 .. Len(h) /\ h[n] \in AnyMessage
    BY <1>1, <1>2 DEF Aggregates
  <2>2. h[n].content \o content \in ReadPieces
    BY <2>1 DEF AnyMessage, ReadPieces
  <2>3. m \in AnyMessage
    <3>. DEFINE c == h[n].content \o content
    <3>1. m = [h[n] EXCEPT !.content = c]
      OBVIOUS
    <3>. HIDE DEF c, n
    <3>. QED BY <2>1, <2>2, <3>1 DEF AnyMessage, c
  <2>4. Pushed(h, role, content, rnd) = [h EXCEPT ![n] = m]
    BY <1>2 DEF Pushed
  <2>. HIDE DEF m
  <2>. QED BY <2>1, <2>3, <2>4
<1>3. CASE ~Aggregates(h, role)
  <2>. DEFINE k == RoundAfter(h, role, rnd)
              m == [role |-> role, content |-> content, round |-> k, tok_pos |-> -1]
  <2>1. k \in Int
    BY DEF RoundAfter
  <2>. HIDE DEF k
  <2>2. m \in AnyMessage
    BY <2>1 DEF AnyMessage
  <2>3. Pushed(h, role, content, rnd) = Append(h, m)
    BY <1>3 DEF Pushed, k
  <2>. HIDE DEF m
  <2>. QED BY <2>2, <2>3
<1>. QED BY <1>2, <1>3

\* The end of the file is never left, and the first message of a session reaches it.
LEMMA ReadMessageSays ==
    ASSUME NEW f \in Seq(Nat), NEW r \in ReadHistory(f)
    PROVE  /\ ReadMessage(f, r) \in ReadHistory(f)
           /\ r.pos + 16 > Len(f) => ReadMessage(f, r).pos = Len(f)
           /\ Len(f) <= Huge /\ f[r.pos + 13] # 0 => ReadMessage(f, r).pos = Len(f)
<1>. DEFINE m == LoadMessage(f, r.pos)
            role == RoleOf(r.history, m.role)
            h == Pushed(r.history, role, m.content, r.round)
            k == RoundAfter(r.history, role, r.round)
            asks == r.huge \/ m.huge
            q == [pos |-> m.pos, history |-> h, round |-> k, huge |-> asks]
<1>1. /\ r.pos \in 0 .. Len(f) /\ r.history \in Seq(AnyMessage)
      /\ r.round \in Int /\ r.huge \in BOOLEAN
  BY Zenon DEF ReadHistory
<1>2. ReadMessage(f, r) = q
  BY DEF ReadMessage
<1>3. /\ m \in ReadMessages(f)
      /\ r.pos + 16 > Len(f) => m.pos = Len(f)
      /\ Len(f) <= Huge /\ f[r.pos + 13] # 0 => m.pos = Len(f)
  BY <1>1, LoadMessageSays
<1>. HIDE DEF m
<1>4. m.pos \in 0 .. Len(f) /\ m.role \in ReadRole /\ m.content \in ReadPieces /\ m.huge \in BOOLEAN
  BY <1>3, Zenon DEF ReadMessages
<1>5. role \in Role \cup {"none"}
  BY <1>4 DEF ReadRole, Role, RoleOf, AutoRole
<1>. HIDE DEF role
<1>6. h \in Seq(AnyMessage)
  BY <1>1, <1>4, <1>5, PushedType
<1>7. k \in Int
  BY <1>1 DEF RoundAfter
<1>8. asks \in BOOLEAN
  BY <1>1, <1>4
<1>. HIDE DEF h, k, asks
<1>9. q \in ReadHistory(f)
  BY <1>4, <1>6, <1>7, <1>8, Zenon DEF ReadHistory
<1>10. q.pos = m.pos
  OBVIOUS
<1>. HIDE DEF q
<1>. QED BY <1>2, <1>3, <1>9, <1>10

Begun == [pos |-> HeaderLength, history |-> <<>>, round |-> -1, huge |-> FALSE]

LEMMA LoadMessagesSays ==
    ASSUME NEW f \in Seq(Nat), NEW n \in Nat, Len(f) >= HeaderLength
    PROVE  /\ LoadMessages(f, n) \in ReadHistory(f)
           /\ n = 0 => LoadMessages(f, n) = Begun
           /\ /\ n # 0
              /\ HeaderLength + 16 > Len(f) \/ (Len(f) <= Huge /\ f[HeaderLength + 13] # 0)
              => LoadMessages(f, n).pos = Len(f)
<1>. DEFINE Reads(q) == q = [i \in 0 .. n |-> IF i = 0 THEN Begun ELSE ReadMessage(f, q[i - 1])]
            read == CHOOSE q : Reads(q)
            S == ReadHistory(f)
            step == [i \in Nat |-> [t \in S |-> ReadMessage(f, t)]]
            Ends == HeaderLength + 16 > Len(f) \/ (Len(f) <= Huge /\ f[HeaderLength + 13] # 0)
            P == {i \in 0 .. n : read[i] \in S /\ (i # 0 /\ Ends => read[i].pos = Len(f))}
<1>1. Len(f) \in Nat /\ HeaderLength \in Nat /\ Len(Magic) \in Nat
  BY SessionAssumption DEF HeaderLength
<1>2. LoadMessages(f, n) = read[n]
  BY DEF LoadMessages, Begun
<1>3. Begun \in S
  <2>1. HeaderLength \in 0 .. Len(f) /\ <<>> \in Seq(AnyMessage) /\ -1 \in Int /\ FALSE \in BOOLEAN
    BY <1>1
  <2>. QED BY <2>1, Zenon DEF ReadHistory, Begun
<1>4. \A t \in S : ReadMessage(f, t) \in S
  BY ReadMessageSays
<1>. HIDE DEF S
<1>5. step \in [Nat -> [S -> S]]
  BY <1>4
<1>6. PICK r \in [0 .. n -> S] : Repeats(r, Begun, step, n)
  <2>. HIDE DEF step
  <2>. QED BY <1>3, <1>5, RepeatsExists
<1>7. Reads(r)
  <2>1. \A i \in 0 .. n : r[i] = IF i = 0 THEN Begun ELSE step[i][r[i - 1]]
    <3>. HIDE DEF step
    <3>. QED BY <1>6 DEF Repeats
  <2>2. ASSUME NEW i \in 0 .. n
        PROVE  r[i] = IF i = 0 THEN Begun ELSE ReadMessage(f, r[i - 1])
    <3>1. CASE i = 0
      BY <2>1, <3>1
    <3>2. CASE i # 0
      <4>1. i \in Nat /\ i - 1 \in 0 .. n
        BY <3>2
      <4>2. step[i][r[i - 1]] = ReadMessage(f, r[i - 1])
        BY <1>6, <4>1
      <4>. HIDE DEF step
      <4>. QED BY <2>1, <3>2, <4>2
    <3>. QED BY <3>1, <3>2
  <2>3. r = [i \in 0 .. n |-> r[i]]
    BY <1>6
  <2>. QED BY <2>2, <2>3
<1>8. Reads(read)
  <2>. HIDE DEF Reads
  <2>. QED BY <1>7
<1>9. \A i \in 0 .. n : read[i] = IF i = 0 THEN Begun ELSE ReadMessage(f, read[i - 1])
  <2>. HIDE DEF read
  <2>. QED BY <1>8
<1>. HIDE DEF read, Ends
<1>10. read[0] = Begun
  BY <1>9
<1>11. 0 \in P
  BY <1>3, <1>10
<1>12. ASSUME NEW i \in 1 .. n, i - 1 \in P PROVE i \in P
  <2>. DEFINE t == read[i - 1]
  <2>1. read[i] = ReadMessage(f, t) /\ i \in 0 .. n
    BY <1>9
  <2>2. t \in S /\ (i - 1 # 0 /\ Ends => t.pos = Len(f)) /\ (i = 1 => t = Begun)
    BY <1>10, <1>12
  <2>. HIDE DEF t
  <2>3. /\ ReadMessage(f, t) \in S
        /\ t.pos + 16 > Len(f) => ReadMessage(f, t).pos = Len(f)
        /\ Len(f) <= Huge /\ f[t.pos + 13] # 0 => ReadMessage(f, t).pos = Len(f)
    BY <2>2, ReadMessageSays DEF S
  <2>4. ASSUME Ends PROVE ReadMessage(f, t).pos = Len(f)
    <3>1. CASE i = 1
      BY <2>2, <2>3, <2>4, <3>1 DEF Ends, Begun
    <3>2. CASE i # 1
      BY <1>1, <2>2, <2>3, <2>4, <3>2
    <3>. QED BY <3>1, <3>2
  <2>. QED BY <2>1, <2>3, <2>4
<1>13. n \in P
  <2>1. n \in 0 .. n
    OBVIOUS
  <2>. HIDE DEF P
  <2>. QED BY <1>11, <1>12, <2>1, CountingUp
<1>. QED BY <1>2, <1>10, <1>13 DEF S, Ends

-----------------------------------------------------------------------------
(* What has been written is what is read. *)

Cached(c) == c \in Seq(Nat) /\ \E d \in Caches : Len(d) = Len(c)

\* f is as much of the session as reached the disk.
Written(h, c, f) ==
    /\ h \in Histories /\ Cached(c)
    /\ \E room \in 0 .. Len(SavedSession(h, c)) : f = SubSeq(SavedSession(h, c), 1, room)

LEMMA WrittenSays ==
    ASSUME NEW h, NEW c, NEW f, Written(h, c, f)
    PROVE  /\ f \in Seq(Nat) /\ Len(f) <= Len(SavedSession(h, c)) /\ Len(f) <= Huge
           /\ \A i \in 1 .. Len(f) : f[i] = SavedSession(h, c)[i]
<1>. DEFINE s == SavedSession(h, c)
<1>1. h \in Histories /\ h \in Seq(Message) /\ c \in Seq(Nat)
  BY SessionAssumption DEF Written, Cached
<1>2. s \in Seq(Nat)
  BY <1>1, SessionSays
<1>3. Len(s) <= Huge
  <2>1. PICK d \in Caches : Len(d) = Len(c)
    BY DEF Written, Cached
  <2>2. d \in Seq(Nat) /\ Len(SavedSession(h, d)) <= Huge
    BY <1>1, <2>1, SessionAssumption
  <2>3. Len(SavedSession(h, d)) = Len(s)
    BY <1>1, <2>1, <2>2, SessionSays
  <2>. QED BY <2>2, <2>3
<1>4. PICK room \in 0 .. Len(s) : f = SubSeq(s, 1, room)
  BY DEF Written
<1>. HIDE DEF s
<1>5. f \in Seq(Nat) /\ Len(f) = room /\ \A i \in 1 .. room : f[i] = s[i]
  BY <1>2, <1>4
<1>. QED BY <1>2, <1>3, <1>4, <1>5 DEF s, Huge

\* The number of messages survives, so that a session of the system prompt is read as
\* one, and any other is read to the end of the file.
LEMMA ReadBack ==
    ASSUME NEW h, NEW c, NEW f, Written(h, c, f), HasHeader(f)
    PROVE  /\ LoadedFrom(f) \in ReadHistory(f)
           /\ h = <<>> => LoadedFrom(f) = Begun
           /\ h # <<>> => LoadedFrom(f).pos = Len(f)
<1>. DEFINE s == SavedSession(h, c)
            n == Value(f, Len(Magic), 8)
<1>1. h \in Histories /\ h \in Seq(Message) /\ c \in Seq(Nat) /\ Len(h) \in Nat
  BY SessionAssumption DEF Written, Cached
<1>2. /\ f \in Seq(Nat) /\ Len(f) <= Huge /\ Len(f) \in Nat
      /\ \A i \in 1 .. Len(f) : f[i] = s[i]
  BY WrittenSays
<1>3. /\ \A i \in 1 .. 8 : s[Len(Magic) + i] = IF i = 1 THEN Len(h) ELSE 0
      /\ h # <<>> => s[HeaderLength + 13] = Len(h[1].content)
  BY <1>1, SessionSays
<1>. HIDE DEF s
<1>4. Len(Magic) \in Nat /\ HeaderLength = Len(Magic) + 8 /\ Len(f) >= HeaderLength
  BY SessionAssumption DEF HeaderLength, HasHeader
<1>5. n = Len(h)
  <2>1. ASSUME NEW i \in 1 .. 8 PROVE f[Len(Magic) + i] = IF i = 1 THEN Len(h) ELSE 0
    <3>1. Len(Magic) + i \in 1 .. Len(f)
      BY <1>2, <1>4
    <3>2. f[Len(Magic) + i] = s[Len(Magic) + i]
      BY <1>2, <3>1
    <3>. QED BY <1>3, <3>2
  <2>2. ~ \E i \in 3 .. 8 : f[Len(Magic) + i] # 0
    BY <2>1
  <2>3. f[Len(Magic) + 1] = Len(h) /\ f[Len(Magic) + 2] = 0
    BY <2>1
  <2>. QED BY <1>1, <2>2, <2>3 DEF Value
<1>6. h # <<>> => HeaderLength + 16 > Len(f) \/ f[HeaderLength + 13] # 0
  <2>. SUFFICES ASSUME h # <<>>, ~(HeaderLength + 16 > Len(f)) PROVE f[HeaderLength + 13] # 0
    OBVIOUS
  <2>1. HeaderLength + 13 \in 1 .. Len(f)
    BY <1>2, <1>4
  <2>2. f[HeaderLength + 13] = Len(h[1].content)
    BY <1>2, <1>3, <2>1
  <2>3. h[1] \in Message /\ h[1].content # <<>>
    BY <1>1, SessionAssumption
  <2>4. h[1].content \in Seq(Piece)
    BY <2>3 DEF Message
  <2>. QED BY <2>2, <2>3, <2>4
<1>7. (h = <<>> => n = 0) /\ (h # <<>> => n # 0)
  BY <1>1, <1>5
<1>8. LoadedFrom(f) = LoadMessages(f, n)
  BY DEF LoadedFrom
<1>9. n \in Nat
  BY <1>1, <1>5
<1>. HIDE DEF n
<1>. QED BY <1>2, <1>4, <1>6, <1>7, <1>8, <1>9, LoadMessagesSays

\* No session with messages is taken for one of the model: the end of the file, where
\* its type is looked for, holds no type.
LEMMA MessagesHideTheModel ==
    ASSUME NEW h, NEW c, NEW f, Written(h, c, f), HasHeader(f), h # <<>>
    PROVE  ~IsOfModel(f, LoadedFrom(f).pos)
<1>1. LoadedFrom(f).pos = Len(f) /\ f \in Seq(Nat) /\ Len(f) \in Nat
  BY ReadBack, WrittenSays
<1>2. ModelType \in Seq(Nat) /\ ModelType # <<>>
  BY SessionAssumption
<1>3. Len(ModelType) \in Nat /\ Len(ModelType) # 0
  BY <1>2
<1>. QED BY <1>1, <1>3 DEF IsOfModel

\* A session of the system prompt that is read to its end gives the cache back.
LEMMA PromptGivesTheCacheBack ==
    ASSUME NEW c, NEW f, Written(<<>>, c, f), HasHeader(f), Cached(cache)
    PROVE  /\ ModelLoads(f, HeaderLength) => CacheAt(f, HeaderLength) = c
           /\ f = SavedSession(<<>>, c) => ModelLoads(f, HeaderLength)
<1>. DEFINE s == SavedSession(<<>>, c)
            start == HeaderLength + Len(ModelType)
<1>1. <<>> \in Seq(Message) /\ c \in Seq(Nat) /\ Len(c) \in Nat
  BY DEF Written, Cached
<1>2. cache \in Seq(Nat) /\ Len(cache) = Len(c)
  BY SessionAssumption DEF Written, Cached
<1>3. /\ f \in Seq(Nat) /\ Len(f) \in Nat
      /\ \A i \in 1 .. Len(f) : f[i] = s[i]
  BY WrittenSays
<1>4. /\ Len(s) = start + Len(c)
      /\ \A i \in 1 .. Len(ModelType) : s[HeaderLength + i] = ModelType[i]
      /\ \A i \in 1 .. Len(c) : s[start + i] = c[i]
  BY <1>1, SessionSays
<1>. HIDE DEF s
<1>5. Len(ModelType) \in Nat /\ HeaderLength \in Nat /\ ModelType \in Seq(Nat)
  BY SessionAssumption DEF HeaderLength
<1>6. ASSUME ModelLoads(f, HeaderLength) PROVE CacheAt(f, HeaderLength) = c
  <2>1. IsOfModel(f, HeaderLength) /\ start + Len(c) <= Len(f)
    BY <1>2, <1>6 DEF ModelLoads, CacheLength
  <2>2. CacheAt(f, HeaderLength) = [i \in DOMAIN cache |-> IF start + i <= Len(f)
                                                           THEN f[start + i] ELSE cache[i]]
    BY <2>1 DEF CacheAt
  <2>3. DOMAIN cache = 1 .. Len(c) /\ c = [i \in 1 .. Len(c) |-> c[i]]
    BY <1>1, <1>2
  <2>4. \A i \in 1 .. Len(c) : start + i <= Len(f) /\ f[start + i] = c[i]
    BY <1>1, <1>3, <1>4, <1>5, <2>1
  <2>. HIDE DEF start
  <2>. QED BY <2>2, <2>3, <2>4
<1>7. ASSUME f = s PROVE ModelLoads(f, HeaderLength)
  <2>1. start <= Len(f) /\ start + Len(cache) <= Len(f)
    BY <1>1, <1>2, <1>4, <1>5, <1>7
  <2>2. SubSeq(f, HeaderLength + 1, start) = ModelType
    <3>. DEFINE t == SubSeq(f, HeaderLength + 1, start)
    <3>1. /\ t \in Seq(Nat) /\ Len(t) = Len(ModelType)
          /\ \A i \in 1 .. Len(ModelType) : t[i] = f[HeaderLength + i]
      BY <1>3, <1>5, <2>1
    <3>. HIDE DEF t
    <3>2. \A i \in 1 .. Len(ModelType) : t[i] = ModelType[i]
      BY <1>4, <1>7, <3>1
    <3>. QED BY <1>5, <3>1, <3>2 DEF t
  <2>. QED BY <1>2, <2>1, <2>2 DEF ModelLoads, IsOfModel, CacheLength
<1>. QED BY <1>6, <1>7 DEF s

-----------------------------------------------------------------------------
(* The inductive invariant. *)

LoadedAll ==
    result = "loaded" => /\ intended.history = <<>> /\ history = <<>>
                         /\ cache = intended.cache

SessionInv ==
    /\ Cached(cache)
    /\ file # NoFile => Written(intended.history, intended.cache, file)
    /\ LoadedAll

LEMMA InitInv == Init => SessionInv
<1>. SUFFICES ASSUME Init PROVE SessionInv
  OBVIOUS
<1>1. Cached(cache)
  BY SessionAssumption DEF Init, Cached
<1>. QED BY <1>1 DEF Init, SessionInv, LoadedAll

LEMMA SaveSessionInv == SessionInv /\ SaveSession => SessionInv'
<1>. SUFFICES ASSUME SessionInv, SaveSession PROVE SessionInv'
  OBVIOUS
<1>1. cache' = cache /\ intended' = [history |-> history, cache |-> cache]
  BY DEF SaveSession
<1>2. Cached(cache)'
  BY <1>1 DEF SessionInv, Cached
<1>3. PICK room \in 0 .. Len(SavedSession(history, cache)) :
           file' = SubSeq(SavedSession(history, cache), 1, room)
  BY DEF SaveSession
<1>4. Written(history, cache, file')
  BY <1>3 DEF Written, SessionInv, SaveSession
<1>5. Written(intended'.history, intended'.cache, file')
  BY <1>1, <1>4
<1>6. result' # "loaded"
  BY DEF SaveSession
<1>. QED BY <1>2, <1>5, <1>6 DEF SessionInv, LoadedAll

LEMMA LoadSessionInv == SessionInv /\ LoadSession => SessionInv'
<1>. SUFFICES ASSUME SessionInv, LoadSession PROVE SessionInv'
  OBVIOUS
<1>. DEFINE l == LoadedFrom(file)
            h == intended.history
            c == intended.cache
<1>1. /\ Written(h, c, file) /\ HasHeader(file) /\ Cached(cache)
      /\ file' = file /\ intended' = intended
      /\ history' = l.history /\ cache' = CacheAt(file, l.pos)
      /\ result' = "loaded" => ModelLoads(file, l.pos)
  BY DEF SessionInv, LoadSession
<1>2. l \in ReadHistory(file) /\ file \in Seq(Nat)
  BY <1>1, ReadBack, WrittenSays
<1>3. Cached(cache)'
  <2>1. cache \in Seq(Nat) /\ DOMAIN cache = 1 .. Len(cache) /\ Len(cache) \in Nat
    BY <1>1 DEF Cached
  <2>2. l.pos \in Nat /\ Len(ModelType) \in Nat /\ Len(file) \in Nat
    BY <1>2, SessionAssumption DEF ReadHistory
  <2>. DEFINE start == l.pos + Len(ModelType)
  <2>3. start \in Nat
    BY <2>2
  <2>. HIDE DEF l
  <2>4. cache' = [i \in 1 .. Len(cache) |->
                    IF IsOfModel(file, l.pos) /\ start + i <= Len(file)
                    THEN file[start + i] ELSE cache[i]]
    BY <1>1, <2>1 DEF CacheAt
  <2>. HIDE DEF start
  <2>5. \A i \in 1 .. Len(cache) :
           (IF IsOfModel(file, l.pos) /\ start + i <= Len(file)
            THEN file[start + i] ELSE cache[i]) \in Nat
    BY <1>2, <2>1, <2>2, <2>3
  <2>6. cache' \in Seq(Nat) /\ Len(cache') = Len(cache)
    BY <2>1, <2>4, <2>5
  <2>. QED BY <1>1, <2>6 DEF Cached
<1>4. LoadedAll'
  <2>. SUFFICES ASSUME result' = "loaded" PROVE h = <<>> /\ history' = <<>> /\ cache' = c
    BY <1>1 DEF LoadedAll
  <2>1. ModelLoads(file, l.pos)
    BY <1>1
  <2>2. h = <<>>
    BY <1>1, <2>1, MessagesHideTheModel DEF ModelLoads
  <2>3. l = Begun
    BY <1>1, <2>2, ReadBack
  <2>4. l.history = <<>> /\ l.pos = HeaderLength
    BY <2>3 DEF Begun
  <2>5. CacheAt(file, HeaderLength) = c
    BY <1>1, <2>1, <2>2, <2>4, PromptGivesTheCacheBack
  <2>. QED BY <1>1, <2>2, <2>4, <2>5
<1>. QED BY <1>1, <1>3, <1>4 DEF SessionInv

LEMMA NextInv == SessionInv /\ [Next]_vars => SessionInv'
<1>. SUFFICES ASSUME SessionInv, [Next]_vars PROVE SessionInv'
  OBVIOUS
<1>1. CASE SaveSession
  BY <1>1, SaveSessionInv
<1>2. CASE LoadNoSession
  BY <1>2 DEF LoadNoSession, SessionInv, LoadedAll
<1>3. CASE LoadSession
  BY <1>3, LoadSessionInv
<1>4. CASE LoadThrows
  BY <1>4 DEF LoadThrows, SessionInv, LoadedAll
<1>5. CASE Exec
  <2>1. Cached(cache)'
    BY <1>5, SessionAssumption DEF Exec, Cached
  <2>. QED BY <1>5, <2>1 DEF Exec, SessionInv, LoadedAll
<1>6. CASE UNCHANGED vars
  BY <1>6 DEF vars, messagesVars, SessionInv, LoadedAll
<1>. QED BY <1>1, <1>2, <1>3, <1>4, <1>5, <1>6 DEF Next

-----------------------------------------------------------------------------
(* Theorems. *)

\* What is on disk is the beginning of a session that was saved, and what a load has
\* given back is what it was saved for.
THEOREM SessionInvariance == Spec => []SessionInv
BY InitInv, NextInv, PTL DEF Spec

\* A load that reports success (Pipeline::load_session) has given back what was
\* saved, whatever part of the file had reached the disk.
THEOREM LoadsAreSound == Spec => []LoadIsSound
<1>1. SessionInv => LoadIsSound
  BY DEF SessionInv, LoadedAll, LoadIsSound
<1>. QED BY <1>1, SessionInvariance, PTL

\* No session with messages is ever loaded: Message::load reads a role where
\* Message::save has put it for the lower half of the number of pieces.
THEOREM SessionsWithMessagesAreLost == Spec => []NoMessagesAreLoaded
<1>1. SessionInv => NoMessagesAreLoaded
  BY DEF SessionInv, LoadedAll, NoMessagesAreLoaded
<1>. QED BY <1>1, SessionInvariance, PTL

\* A session of the system prompt that reached the disk whole is always loaded, and
\* gives the model's cache back.
THEOREM PromptSessionsAreLoaded == Spec => PromptSessionsLoad
<1>. DEFINE Loads == LoadNoSession \/ LoadSession \/ LoadThrows
            Whole == intended.history = <<>> /\ file = SavedSession(<<>>, intended.cache)
            Given == result' = "loaded" /\ history' = <<>> /\ cache' = intended.cache
<1>1. ASSUME SessionInv, Loads, Whole PROVE Given
  <2>. DEFINE c == intended.cache
  <2>1. /\ Written(<<>>, c, file) /\ Cached(cache)
    BY <1>1 DEF SessionInv, LoadNoSession, LoadSession, LoadThrows
  <2>2. <<>> \in Seq(Message) /\ c \in Seq(Nat)
    BY <2>1 DEF Written, Cached
  <2>3. /\ Len(file) >= HeaderLength /\ file \in Seq(Nat)
        /\ \A i \in 1 .. Len(Magic) : file[i] = Magic[i]
    BY <1>1, <2>2, SessionSays
  <2>4. HasHeader(file)
    BY <2>3 DEF HasHeader
  <2>5. Opens(file)
    <3>1. Magic \in Seq(Nat) /\ Len(Magic) <= Len(file)
      BY <2>3, SessionAssumption DEF HeaderLength
    <3>. DEFINE m == SubSeq(file, 1, Len(Magic))
    <3>2. m \in Seq(Nat) /\ Len(m) = Len(Magic) /\ \A i \in 1 .. Len(Magic) : m[i] = file[i]
      BY <2>3, <3>1
    <3>. HIDE DEF m
    <3>3. m = Magic
      BY <2>3, <3>1, <3>2
    <3>. QED BY <3>3 DEF Opens, m
  <2>6. LoadedFrom(file) = Begun
    BY <2>1, <2>4, ReadBack
  <2>7. ModelLoads(file, HeaderLength) /\ CacheAt(file, HeaderLength) = c
    BY <1>1, <2>1, <2>4, PromptGivesTheCacheBack
  <2>8. ~LoadNoSession /\ ~LoadThrows
    BY <2>4, <2>5, <2>6 DEF LoadNoSession, LoadThrows, Begun
  <2>9. LoadSession
    BY <1>1, <2>8
  <2>. QED BY <2>6, <2>7, <2>9 DEF LoadSession, Begun
<1>2. SessionInv /\ [Next]_vars => [Loads /\ Whole => Given]_vars
  BY <1>1
<1>. QED BY <1>2, SessionInvariance, PTL DEF Spec, PromptSessionsLoad
=============================================================================
