--------------------------- MODULE Streamer_proofs ---------------------------
(***************************************************************************)
(* Theorems about Streamer, for every vocabulary and every list of tags.   *)
(***************************************************************************)
EXTENDS Streamer, WellFoundedInduction, NaturalsInduction, TLAPS

-----------------------------------------------------------------------------
(* The inductive invariant. *)

\* The text that has not been passed on follows what has been passed on.
RestIsNext ==
    IF pc = "idle" THEN token_cache = <<>> /\ print_len = 0 /\ is_first = TRUE
    ELSE /\ text = passed \o SubSeq(token_cache, print_len + 1, Len(token_cache))
         /\ is_first <=> passed = <<>>

\* No part at the beginning of it is whole.
RestIsHeld ==
    \A m \in print_len + 1 .. Len(token_cache) :
        ~Whole(SubSeq(token_cache, print_len + 1, m))

\* An interceptor that has been given p has made thought t and answer a of it.
Body(p) == SubSeq(Begun(p), Len(Tags[TagFound(Begun(p))].opening) + 1, Len(Begun(p)))

Closings(p) == Occurrences(Tags[TagFound(Begun(p))].closing, Body(p))

Seeks(i, p, t, a) ==
    /\ i.raw_acc = p /\ i.cleaned_acc = Begun(p)
    /\ TagFound(Begun(p)) = 0 /\ Undecided(Begun(p))
    /\ t = <<>> /\ a = <<>>

Thinks(i, p, t, a) ==
    /\ i.tag = TagFound(Begun(p)) /\ TagFound(Begun(p)) # 0
    /\ Closings(p) = {}
    /\ t \o i.raw_acc = Body(p) /\ a = <<>>
    /\ i.chunk_lengths # <<>>
    /\ Total(Tail(i.chunk_lengths)) < Len(Tags[i.tag].closing)
    /\ t # <<>> => Len(i.raw_acc) >= Len(Tags[i.tag].closing)

Answers(p, t, a) ==
    \/ TagFound(Begun(p)) = 0 /\ ~Undecided(Begun(p)) /\ t = <<>> /\ a = p
    \/ /\ TagFound(Begun(p)) # 0 /\ Closings(p) # {}
       /\ t = Parts(p).thought /\ a = Parts(p).said

Heard(i, p, t, a) ==
    IF i.detecting THEN Seeks(i, p, t, a)
    ELSE IF i.is_thinking THEN Thinks(i, p, t, a)
    ELSE Answers(p, t, a)

PlainIsHeard ==
    plain /\ ~spaced =>
             IF passed = <<>> THEN thought = <<>> /\ said = <<>>
             ELSE IF Tags = <<>> THEN thought = <<>> /\ said = passed
             ELSE Heard(interceptor, passed, thought, said)

IsInk(byte) == byte # " "
Inked(s) == Len(s) > 0 /\ IsInk(s[Len(s)])

-----------------------------------------------------------------------------
(* Numbers and sequences.  Induction is made with the least number that has *)
(* not the property.                                                       *)

LEMMA NatMin ==
    ASSUME NEW T \in SUBSET Nat, T # {}
    PROVE  \E x \in T : \A y \in T : x <= y
<1>. DEFINE R == {ss \in Nat \X Nat : ss[1] < ss[2]}
<1>1. IsWellFoundedOn(R, Nat)
  BY NatLessThanWellFounded DEF OpToRel
<1>2. PICK x \in T : \A y \in T : ~(<<y, x>> \in R)
  <2>. HIDE DEF R
  <2>. QED BY <1>1, WFMin
<1>3. \A y \in T : ~(y < x)
  BY <1>2
<1>. QED BY <1>3

LEMMA NatMax ==
    ASSUME NEW n \in Nat, NEW T \in SUBSET (0 .. n), T # {}
    PROVE  \E x \in T : \A y \in T : y <= x
<1>. DEFINE U == {n - y : y \in T}
<1>1. U \in SUBSET Nat /\ U # {}
  <2>1. \A y \in T : y \in 0 .. n
    OBVIOUS
  <2>2. \A y \in T : n - y \in Nat
    BY <2>1
  <2>. QED BY <2>2
<1>2. PICK u \in U : \A v \in U : u <= v
  <2>. HIDE DEF U
  <2>. QED BY <1>1, NatMin
<1>3. PICK x \in T : u = n - x
  OBVIOUS
<1>4. \A y \in T : n - x <= n - y
  BY <1>2, <1>3
<1>. QED BY <1>4

LEMMA MinIs ==
    ASSUME NEW T \in SUBSET Nat, T # {}
    PROVE  Min(T) \in T /\ \A y \in T : Min(T) <= y
<1>1. \E x \in T : \A y \in T : x <= y
  BY NatMin
<1>. QED BY <1>1 DEF Min

LEMMA MaxIs ==
    ASSUME NEW n \in Nat, NEW T \in SUBSET (0 .. n), T # {}
    PROVE  Max(T) \in T /\ \A y \in T : y <= Max(T)
<1>1. \E x \in T : \A y \in T : x >= y
  <2>1. PICK x \in T : \A y \in T : y <= x
    BY NatMax
  <2>. QED BY <2>1
<1>. QED BY <1>1 DEF Max

LEMMA SameSeq ==
    ASSUME NEW S, NEW s \in Seq(S), NEW t \in Seq(S), Len(s) = Len(t),
           \A i \in 1 .. Len(s) : s[i] = t[i]
    PROVE  s = t
OBVIOUS

\* A part of a sequence.
LEMMA Part ==
    ASSUME NEW S, NEW s \in Seq(S), NEW m \in 1 .. Len(s) + 1, NEW n \in m - 1 .. Len(s)
    PROVE  /\ SubSeq(s, m, n) \in Seq(S)
           /\ Len(SubSeq(s, m, n)) = n - m + 1
           /\ \A i \in 1 .. n - m + 1 : SubSeq(s, m, n)[i] = s[m + i - 1]
OBVIOUS

LEMMA Joined ==
    ASSUME NEW S, NEW s \in Seq(S), NEW t \in Seq(S)
    PROVE  /\ s \o t \in Seq(S)
           /\ Len(s \o t) = Len(s) + Len(t)
           /\ \A i \in 1 .. Len(s) : (s \o t)[i] = s[i]
           /\ \A i \in 1 .. Len(t) : (s \o t)[Len(s) + i] = t[i]
OBVIOUS

LEMMA LastOfJoined ==
    ASSUME NEW S, NEW s \in Seq(S), NEW t \in Seq(S), Len(t) > 0
    PROVE  (s \o t)[Len(s \o t)] = t[Len(t)]
<1>1. Len(t) \in 1 .. Len(t)
  OBVIOUS
<1>2. (s \o t)[Len(s) + Len(t)] = t[Len(t)]
  BY <1>1, Joined
<1>. QED BY <1>2, Joined

\* A part cut in two, and the parts of two sequences that follow each other.
LEMMA CutJoins ==
    ASSUME NEW S, NEW s \in Seq(S), NEW m \in 1 .. Len(s) + 1, NEW n \in m - 1 .. Len(s),
           NEW k \in n .. Len(s)
    PROVE  SubSeq(s, m, k) = SubSeq(s, m, n) \o SubSeq(s, n + 1, k)
<1>. DEFINE a == SubSeq(s, m, n)
            b == SubSeq(s, n + 1, k)
            c == SubSeq(s, m, k)
<1>1. /\ a \in Seq(S) /\ Len(a) = n - m + 1
      /\ \A i \in 1 .. n - m + 1 : a[i] = s[m + i - 1]
  BY Part
<1>2. /\ b \in Seq(S) /\ Len(b) = k - n
      /\ \A i \in 1 .. k - n : b[i] = s[n + i]
  <2>1. n + 1 \in 1 .. Len(s) + 1 /\ k \in (n + 1) - 1 .. Len(s)
    OBVIOUS
  <2>. QED BY <2>1, Part
<1>3. /\ c \in Seq(S) /\ Len(c) = k - m + 1
      /\ \A i \in 1 .. k - m + 1 : c[i] = s[m + i - 1]
  <2>1. k \in m - 1 .. Len(s)
    OBVIOUS
  <2>. QED BY <2>1, Part
<1>. HIDE DEF a, b, c
<1>4. /\ a \o b \in Seq(S) /\ Len(a \o b) = Len(a) + Len(b)
      /\ \A i \in 1 .. Len(a) : (a \o b)[i] = a[i]
      /\ \A i \in 1 .. Len(b) : (a \o b)[Len(a) + i] = b[i]
  <2>1. a \in Seq(S) /\ b \in Seq(S)
    BY <1>1, <1>2
  <2>. QED BY ONLY <2>1, Joined
<1>. DEFINE d == a \o b
<1>. HIDE DEF d
<1>. DEFINE L == Len(s)
<1>5. L \in Nat /\ m \in 1 .. L + 1 /\ n \in m - 1 .. L /\ k \in n .. L
  OBVIOUS
<1>. HIDE DEF L
<1>7. \A i \in 1 .. k - m + 1 : d[i] = c[i]
  <2>. TAKE i \in 1 .. k - m + 1
  <2>0. i \in Int /\ n \in Int /\ m \in Int /\ k \in Int
    BY <1>5
  <2>1. CASE i <= n - m + 1
    <3>1. i \in 1 .. n - m + 1
      BY <2>0, <2>1
    <3>. QED BY <3>1, <1>1, <1>3, <1>4 DEF d
  <2>2. CASE i > n - m + 1
    <3>. DEFINE j == i - (n - m + 1)
    <3>1. j \in 1 .. k - n /\ i = Len(a) + j /\ n + j = m + i - 1
      BY <2>0, <2>2, <1>1, <1>5
    <3>2. d[i] = b[j]
      BY <3>1, <1>2, <1>4 DEF d
    <3>. QED BY <3>1, <3>2, <1>2, <1>3
  <2>. QED BY <2>0, <2>1, <2>2
<1>8. Len(d) = k - m + 1
  BY <1>1, <1>2, <1>4, <1>5 DEF d
<1>6. d = c
  BY <1>3, <1>4, <1>7, <1>8, SameSeq DEF d
<1>. QED BY <1>6 DEF a, b, c, d

LEMMA TailJoins ==
    ASSUME NEW S, NEW s \in Seq(S), NEW t \in Seq(S), NEW m \in 1 .. Len(s) + 1
    PROVE  SubSeq(s \o t, m, Len(s \o t)) = SubSeq(s, m, Len(s)) \o t
<1>. DEFINE u == s \o t
            a == SubSeq(s, m, Len(s))
            c == SubSeq(u, m, Len(u))
<1>1. /\ u \in Seq(S) /\ Len(u) = Len(s) + Len(t)
      /\ \A i \in 1 .. Len(s) : u[i] = s[i]
      /\ \A i \in 1 .. Len(t) : u[Len(s) + i] = t[i]
  BY Joined
<1>2. /\ a \in Seq(S) /\ Len(a) = Len(s) - m + 1
      /\ \A i \in 1 .. Len(s) - m + 1 : a[i] = s[m + i - 1]
  <2>1. Len(s) \in m - 1 .. Len(s)
    OBVIOUS
  <2>. QED BY <2>1, Part
<1>. HIDE DEF u
<1>3. /\ c \in Seq(S) /\ Len(c) = Len(u) - m + 1
      /\ \A i \in 1 .. Len(u) - m + 1 : c[i] = u[m + i - 1]
  <2>1. m \in 1 .. Len(u) + 1 /\ Len(u) \in m - 1 .. Len(u)
    BY <1>1
  <2>. QED BY <1>1, <2>1, Part
<1>. HIDE DEF a, c
<1>4. /\ a \o t \in Seq(S) /\ Len(a \o t) = Len(a) + Len(t)
      /\ \A i \in 1 .. Len(a) : (a \o t)[i] = a[i]
      /\ \A i \in 1 .. Len(t) : (a \o t)[Len(a) + i] = t[i]
  <2>1. a \in Seq(S)
    BY <1>2
  <2>. QED BY ONLY <2>1, t \in Seq(S), Joined
<1>. DEFINE d == a \o t
            L == Len(s)
            N == Len(t)
<1>5. L \in Nat /\ N \in Nat /\ m \in 1 .. L + 1
  OBVIOUS
<1>. HIDE DEF d, L, N
<1>7. /\ Len(u) = L + N /\ Len(a) = L - m + 1 /\ Len(d) = Len(a) + N
      /\ Len(c) = Len(u) - m + 1
  BY <1>1, <1>2, <1>3, <1>4 DEF d, L, N
<1>8. Len(d) = Len(c)
  BY <1>5, <1>7
<1>9. \A i \in 1 .. Len(c) : d[i] = c[i]
  <2>. TAKE i \in 1 .. Len(c)
  <2>0. i \in Int
    BY <1>5, <1>7
  <2>1. CASE i <= Len(a)
    <3>1. i \in 1 .. Len(a) /\ m + i - 1 \in 1 .. L
      BY <2>1, <2>0, <1>5, <1>7
    <3>2. d[i] = a[i] /\ a[i] = s[m + i - 1]
      BY <3>1, <1>2, <1>4, <1>7 DEF d, L
    <3>3. c[i] = u[m + i - 1] /\ u[m + i - 1] = s[m + i - 1]
      BY <3>1, <1>1, <1>3 DEF L
    <3>. QED BY <3>2, <3>3
  <2>2. CASE i > Len(a)
    <3>. DEFINE j == i - Len(a)
    <3>1. j \in 1 .. N /\ m + i - 1 = L + j /\ i = Len(a) + j
      BY <2>0, <2>2, <1>5, <1>7
    <3>2. d[i] = t[j]
      BY <3>1, <1>4 DEF d, N
    <3>3. c[i] = u[L + j] /\ u[L + j] = t[j]
      BY <3>1, <1>1, <1>3 DEF L, N
    <3>. QED BY <3>2, <3>3
  <2>. QED BY <2>0, <2>1, <2>2, <1>5, <1>7
<1>6. d = c
  BY <1>3, <1>4, <1>8, <1>9, SameSeq DEF d
<1>. QED BY <1>6 DEF a, c, d, u

LEMMA HeadStays ==
    ASSUME NEW S, NEW s \in Seq(S), NEW t \in Seq(S), NEW m \in 0 .. Len(s)
    PROVE  SubSeq(s \o t, 1, m) = SubSeq(s, 1, m)
<1>. DEFINE w == s \o t
<1>1. w \in Seq(S) /\ Len(w) = Len(s) + Len(t) /\ \A i \in 1 .. Len(s) : w[i] = s[i]
  BY Joined
<1>. HIDE DEF w
<1>2. /\ SubSeq(w, 1, m) \in Seq(S) /\ Len(SubSeq(w, 1, m)) = m - 1 + 1
      /\ \A i \in 1 .. m - 1 + 1 : SubSeq(w, 1, m)[i] = w[1 + i - 1]
  <2>1. 1 \in 1 .. Len(w) + 1 /\ m \in 1 - 1 .. Len(w)
    BY <1>1
  <2>. QED BY ONLY <1>1, <2>1, Part
<1>3. /\ SubSeq(s, 1, m) \in Seq(S) /\ Len(SubSeq(s, 1, m)) = m - 1 + 1
      /\ \A i \in 1 .. m - 1 + 1 : SubSeq(s, 1, m)[i] = s[1 + i - 1]
  <2>1. 1 \in 1 .. Len(s) + 1 /\ m \in 1 - 1 .. Len(s)
    OBVIOUS
  <2>. QED BY ONLY s \in Seq(S), <2>1, Part
<1>4. ASSUME NEW i \in 1 .. m - 1 + 1 PROVE SubSeq(w, 1, m)[i] = SubSeq(s, 1, m)[i]
  <2>1. 1 + i - 1 \in 1 .. Len(s)
    OBVIOUS
  <2>. QED BY <1>1, <1>2, <1>3, <2>1
<1>5. SubSeq(w, 1, m) = SubSeq(s, 1, m)
  <2>1. /\ Len(SubSeq(w, 1, m)) = Len(SubSeq(s, 1, m))
        /\ \A i \in 1 .. Len(SubSeq(w, 1, m)) : SubSeq(w, 1, m)[i] = SubSeq(s, 1, m)[i]
    BY <1>2, <1>3, <1>4
  <2>. QED BY ONLY <1>2, <1>3, <2>1, SameSeq
<1>. QED BY <1>5 DEF w

LEMMA JoinsAssociate ==
    ASSUME NEW S, NEW s \in Seq(S), NEW t \in Seq(S), NEW u \in Seq(S)
    PROVE  (s \o t) \o u = s \o (t \o u)
OBVIOUS

LEMMA WholePart ==
    ASSUME NEW S, NEW s \in Seq(S)
    PROVE  SubSeq(s, 1, Len(s)) = s /\ s \o <<>> = s /\ <<>> \o s = s
OBVIOUS

-----------------------------------------------------------------------------
(* Whole characters. *)

LEMMA NothingIsWhole == Whole(<<>>)
BY DEF Whole

LEMMA WholeSays ==
    ASSUME NEW S, NEW s \in Seq(S)
    PROVE  Whole(s) <=> \A i \in 1 .. Len(s) : /\ s[i] = Lead  => i < Len(s) /\ s[i + 1] = Trail
                                               /\ s[i] = Trail => i > 1 /\ s[i - 1] = Lead
<1>1. DOMAIN s = 1 .. Len(s)
  OBVIOUS
<1>. QED BY ONLY <1>1 DEF Whole

LEMMA WholesJoin ==
    ASSUME NEW S, NEW s \in Seq(S), NEW t \in Seq(S), Whole(s), Whole(t)
    PROVE  Whole(s \o t)
<1>. DEFINE u == s \o t
            L == Len(s)
            N == Len(t)
<1>1. /\ u \in Seq(S) /\ Len(u) = L + N
      /\ \A i \in 1 .. L : u[i] = s[i]
      /\ \A i \in 1 .. N : u[L + i] = t[i]
  BY Joined
<1>2. L \in Nat /\ N \in Nat
  OBVIOUS
<1>3. /\ \A i \in 1 .. L : /\ s[i] = Lead  => i < L /\ s[i + 1] = Trail
                           /\ s[i] = Trail => i > 1 /\ s[i - 1] = Lead
      /\ \A i \in 1 .. N : /\ t[i] = Lead  => i < N /\ t[i + 1] = Trail
                           /\ t[i] = Trail => i > 1 /\ t[i - 1] = Lead
  BY WholeSays
<1>. HIDE DEF u, L, N
<1>4. ASSUME NEW i \in 1 .. L + N
      PROVE  /\ u[i] = Lead  => i < L + N /\ u[i + 1] = Trail
             /\ u[i] = Trail => i > 1 /\ u[i - 1] = Lead
  <2>1. CASE i <= L
    <3>1. i \in 1 .. L /\ u[i] = s[i]
      BY <1>1, <1>2, <2>1
    <3>2. s[i] = Lead => i < L /\ u[i + 1] = Trail
      BY <1>1, <1>2, <1>3, <3>1
    <3>3. s[i] = Trail => i > 1 /\ u[i - 1] = Lead
      BY <1>1, <1>2, <1>3, <3>1
    <3>. QED BY <1>2, <3>1, <3>2, <3>3
  <2>2. CASE i > L
    <3>. DEFINE j == i - L
    <3>1. j \in 1 .. N /\ i = L + j
      BY <1>2, <2>2
    <3>. HIDE DEF j
    <3>2. u[i] = t[j]
      BY <1>1, <3>1
    <3>3. t[j] = Lead => i < L + N /\ u[i + 1] = Trail
      <4>. SUFFICES ASSUME t[j] = Lead PROVE i < L + N /\ u[i + 1] = Trail
        OBVIOUS
      <4>1. j < N /\ t[j + 1] = Trail
        BY <1>3, <3>1
      <4>2. j + 1 \in 1 .. N /\ i + 1 = L + (j + 1) /\ i < L + N
        BY <4>1, <3>1, <1>2
      <4>. QED BY <4>1, <4>2, <1>1
    <3>4. t[j] = Trail => i > 1 /\ u[i - 1] = Lead
      <4>. SUFFICES ASSUME t[j] = Trail PROVE i > 1 /\ u[i - 1] = Lead
        OBVIOUS
      <4>1. j > 1 /\ t[j - 1] = Lead
        BY <1>3, <3>1
      <4>2. j - 1 \in 1 .. N /\ i - 1 = L + (j - 1) /\ i > 1
        BY <4>1, <3>1, <1>2
      <4>. QED BY <4>1, <4>2, <1>1
    <3>. QED BY <3>2, <3>3, <3>4
  <2>. QED BY <1>2, <2>1, <2>2
<1>5. DOMAIN u = 1 .. L + N /\ Len(u) = L + N
  BY <1>1
<1>6. Whole(u)
  BY <1>4, <1>5 DEF Whole
<1>. QED BY <1>6 DEF u

LEMMA RestIsWhole ==
    ASSUME NEW S, NEW s \in Seq(S), NEW t \in Seq(S), Whole(s), Whole(s \o t)
    PROVE  Whole(t)
<1>. DEFINE u == s \o t
            L == Len(s)
            N == Len(t)
<1>1. /\ u \in Seq(S) /\ Len(u) = L + N
      /\ \A i \in 1 .. L : u[i] = s[i]
      /\ \A i \in 1 .. N : u[L + i] = t[i]
  BY Joined
<1>2. L \in Nat /\ N \in Nat
  OBVIOUS
<1>3. /\ \A i \in 1 .. L : /\ s[i] = Lead  => i < L /\ s[i + 1] = Trail
                           /\ s[i] = Trail => i > 1 /\ s[i - 1] = Lead
      /\ \A i \in 1 .. Len(u) : /\ u[i] = Lead  => i < Len(u) /\ u[i + 1] = Trail
                                /\ u[i] = Trail => i > 1 /\ u[i - 1] = Lead
  <2>1. u \in Seq(S) /\ Whole(u)
    BY <1>1
  <2>. HIDE DEF u
  <2>. QED BY <2>1, WholeSays
<1>. HIDE DEF u, L, N
<1>4. ASSUME NEW j \in 1 .. N
      PROVE  /\ t[j] = Lead  => j < N /\ t[j + 1] = Trail
             /\ t[j] = Trail => j > 1 /\ t[j - 1] = Lead
  <2>1. L + j \in 1 .. Len(u) /\ u[L + j] = t[j]
    BY <1>1, <1>2
  <2>2. ASSUME t[j] = Lead PROVE j < N /\ t[j + 1] = Trail
    <3>1. L + j < L + N /\ u[L + j + 1] = Trail
      BY <1>1, <1>3, <2>1, <2>2
    <3>2. j + 1 \in 1 .. N /\ L + j + 1 = L + (j + 1) /\ j < N
      BY <3>1, <1>2
    <3>. QED BY <3>1, <3>2, <1>1
  <2>3. ASSUME t[j] = Trail PROVE j > 1 /\ t[j - 1] = Lead
    <3>1. L + j > 1 /\ u[L + j - 1] = Lead
      <4>1. PICK k \in 1 .. Len(u) : k = L + j /\ u[k] = Trail
        BY <2>1, <2>3
      <4>2. k > 1 /\ u[k - 1] = Lead
        BY <1>3, <4>1
      <4>. QED BY <4>1, <4>2, <1>2
    <3>2. CASE j = 1
      <4>1. L \in 1 .. L /\ u[L] = Lead
        BY <3>1, <3>2, <1>2
      <4>2. s[L] = Lead
        BY <4>1, <1>1
      <4>3. L < L
        BY <4>1, <4>2, <1>3
      <4>. QED BY <4>3, <1>2
    <3>3. CASE j > 1
      <4>1. j - 1 \in 1 .. N /\ L + j - 1 = L + (j - 1)
        BY <3>3, <1>2
      <4>. QED BY <3>1, <3>3, <4>1, <1>1
    <3>. QED BY <3>2, <3>3
  <2>. QED BY <2>2, <2>3
<1>. QED BY <1>4 DEF Whole, N

\* A text that is whole, but for a character that has begun at its end.
AlmostWhole(s) == \E tail \in {<<>>, <<Trail>>} : Whole(s \o tail)

LEMMA BeginningIsAlmostWhole ==
    ASSUME NEW S, Trail \in S, NEW s \in Seq(S), NEW t \in Seq(S), Whole(s \o t)
    PROVE  AlmostWhole(s)
<1>. DEFINE u == s \o t
            v == s \o <<Trail>>
            L == Len(s)
            N == Len(t)
<1>1. /\ u \in Seq(S) /\ Len(u) = L + N
      /\ \A i \in 1 .. L : u[i] = s[i]
  BY Joined
<1>2. L \in Nat /\ N \in Nat
  OBVIOUS
<1>3. \A i \in 1 .. Len(u) : /\ u[i] = Lead  => i < Len(u) /\ u[i + 1] = Trail
                             /\ u[i] = Trail => i > 1 /\ u[i - 1] = Lead
  <2>1. u \in Seq(S) /\ Whole(u)
    BY <1>1
  <2>. HIDE DEF u
  <2>. QED BY <2>1, WholeSays
<1>4. /\ v \in Seq(S) /\ Len(v) = L + 1
      /\ \A i \in 1 .. L : v[i] = s[i]
      /\ v[L + 1] = Trail
  OBVIOUS
<1>. HIDE DEF u, v, L, N
<1>5. \A i \in 1 .. L : /\ s[i] = Lead /\ i < L => s[i + 1] = Trail
                        /\ s[i] = Trail => i > 1 /\ s[i - 1] = Lead
  <2>. TAKE i \in 1 .. L
  <2>1. i \in 1 .. Len(u) /\ u[i] = s[i]
    BY <1>1, <1>2
  <2>2. i < L => u[i + 1] = s[i + 1]
    BY <1>1, <1>2
  <2>3. i > 1 => u[i - 1] = s[i - 1]
    BY <1>1, <1>2
  <2>. QED BY <1>3, <2>1, <2>2, <2>3
<1>6. CASE L > 0 /\ s[L] = Lead
  <2>1. L \in 1 .. Len(u) /\ u[L] = Lead
    BY <1>1, <1>2, <1>6
  <2>2. u[L + 1] = Trail /\ L + 1 \in 1 .. Len(u)
    BY <1>1, <1>2, <1>3, <2>1
  <2>2a. Trail = Lead => \A i \in 1 .. L : s[i] # Lead
    <3>. SUFFICES ASSUME Trail = Lead, NEW i \in 1 .. L, s[i] = Lead PROVE FALSE
      OBVIOUS
    <3>. DEFINE T == {k \in Nat : k \in 1 .. Len(u) /\ u[k] = Lead}
    <3>1. T # {} /\ T \in SUBSET (0 .. Len(u)) /\ Len(u) \in Nat
      BY <1>1, <1>2, <2>1
    <3>2. PICK k \in T : \A y \in T : y <= k
      <4>. HIDE DEF T
      <4>. QED BY <3>1, NatMax
    <3>3. k < Len(u) /\ u[k + 1] = Lead
      BY <1>3, <3>2
    <3>4. k + 1 \in T
      BY <3>1, <3>2, <3>3
    <3>5. k + 1 <= k /\ k \in Nat
      <4>1. k \in Nat
        BY <3>2
      <4>. HIDE DEF T
      <4>. QED BY <3>2, <3>4, <4>1
    <3>. QED BY <3>5
  <2>3. ASSUME NEW i \in 1 .. L + 1
        PROVE  /\ v[i] = Lead  => i < L + 1 /\ v[i + 1] = Trail
               /\ v[i] = Trail => i > 1 /\ v[i - 1] = Lead
    <3>0. L \in 1 .. L /\ Trail # Lead
      BY <2>2a, <1>6, <1>2
    <3>1. CASE i = L + 1
      <4>1. v[i] = Trail /\ v[i - 1] = Lead /\ i > 1
        BY <1>4, <1>6, <1>2, <3>0, <3>1
      <4>. QED BY <4>1, <3>0
    <3>2. CASE i = L
      <4>1. v[i] = Lead /\ v[i + 1] = Trail /\ i < L + 1
        BY <1>4, <1>6, <1>2, <3>0, <3>2
      <4>. QED BY <4>1, <3>0
    <3>3. CASE i < L
      <4>1. i \in 1 .. L /\ i + 1 \in 1 .. L /\ v[i] = s[i] /\ v[i + 1] = s[i + 1]
        BY <3>3, <1>2, <1>4
      <4>2. i > 1 => v[i - 1] = s[i - 1]
        BY <4>1, <1>2, <1>4
      <4>. QED BY <4>1, <4>2, <1>5, <3>3, <1>2
    <3>. QED BY <1>2, <3>1, <3>2, <3>3
  <2>4. Whole(v)
    BY <2>3, <1>4 DEF Whole
  <2>. QED BY <2>4 DEF AlmostWhole, v
<1>7. CASE ~(L > 0 /\ s[L] = Lead)
  <2>1. \A i \in 1 .. L : /\ s[i] = Lead  => i < L /\ s[i + 1] = Trail
                          /\ s[i] = Trail => i > 1 /\ s[i - 1] = Lead
    BY <1>2, <1>5, <1>7
  <2>2. Whole(s)
    BY <2>1 DEF Whole, L
  <2>3. s \o <<>> = s
    OBVIOUS
  <2>. QED BY <2>2, <2>3 DEF AlmostWhole
<1>. QED BY <1>6, <1>7

LEMMA RestIsAlmostWhole ==
    ASSUME NEW S, Trail \in S, NEW s \in Seq(S), NEW t \in Seq(S),
           Whole(s), AlmostWhole(s \o t)
    PROVE  AlmostWhole(t)
<1>1. PICK tail \in {<<>>, <<Trail>>} : Whole((s \o t) \o tail)
  BY DEF AlmostWhole
<1>2. tail \in Seq(S)
  <2>1. <<>> \in Seq(S) /\ <<Trail>> \in Seq(S)
    OBVIOUS
  <2>. QED BY <2>1
<1>3. Whole(s \o (t \o tail))
  <2>1. (s \o t) \o tail = s \o (t \o tail)
    BY ONLY s \in Seq(S), t \in Seq(S), <1>2, JoinsAssociate
  <2>. QED BY <1>1, <2>1
<1>4. t \o tail \in Seq(S)
  BY <1>2
<1>5. Whole(t \o tail)
  BY <1>3, <1>4, RestIsWhole
<1>. QED BY <1>5 DEF AlmostWhole

LEMMA BeginningOfAlmostWhole ==
    ASSUME NEW S, Trail \in S, NEW s \in Seq(S), NEW t \in Seq(S), AlmostWhole(s \o t)
    PROVE  AlmostWhole(s)
<1>1. PICK tail \in {<<>>, <<Trail>>} : Whole((s \o t) \o tail)
  BY DEF AlmostWhole
<1>2. tail \in Seq(S)
  <2>1. <<>> \in Seq(S) /\ <<Trail>> \in Seq(S)
    OBVIOUS
  <2>. QED BY <2>1
<1>3. Whole(s \o (t \o tail))
  <2>1. (s \o t) \o tail = s \o (t \o tail)
    BY ONLY s \in Seq(S), t \in Seq(S), <1>2, JoinsAssociate
  <2>. QED BY <1>1, <2>1
<1>4. t \o tail \in Seq(S)
  BY <1>2
<1>. QED BY <1>3, <1>4, BeginningIsAlmostWhole

\* What a text that is almost whole lacks is the end of its last character.
LEMMA AlmostWholeEnds ==
    ASSUME NEW S, Trail \in S, NEW s \in Seq(S), AlmostWhole(s), ~Whole(s)
    PROVE  /\ Len(s) > 0 /\ s[Len(s)] = Lead
           /\ Whole(SubSeq(s, 1, Len(s) - 1))
<1>. DEFINE v == s \o <<Trail>>
            L == Len(s)
            w == SubSeq(s, 1, L - 1)
<1>1. Whole(v)
  <2>1. s \o <<>> = s
    OBVIOUS
  <2>. QED BY <2>1 DEF AlmostWhole
<1>2. /\ v \in Seq(S) /\ Len(v) = L + 1 /\ L \in Nat
      /\ \A i \in 1 .. L : v[i] = s[i]
      /\ v[L + 1] = Trail
  OBVIOUS
<1>3. \A i \in 1 .. L + 1 : /\ v[i] = Lead  => i < L + 1 /\ v[i + 1] = Trail
                            /\ v[i] = Trail => i > 1 /\ v[i - 1] = Lead
  <2>. HIDE DEF v, L
  <2>. QED BY <1>1, <1>2, WholeSays
<1>4. ~(\A i \in 1 .. L : /\ s[i] = Lead  => i < L /\ s[i + 1] = Trail
                          /\ s[i] = Trail => i > 1 /\ s[i - 1] = Lead)
  BY WholeSays
<1>. HIDE DEF v, L
<1>5. Trail # Lead
  BY <1>2, <1>3
<1>6. \A i \in 1 .. L : /\ s[i] = Lead /\ i < L => s[i + 1] = Trail
                        /\ s[i] = Trail => i > 1 /\ s[i - 1] = Lead
  <2>. TAKE i \in 1 .. L
  <2>1. i \in 1 .. L + 1 /\ v[i] = s[i] /\ L \in Nat
    BY <1>2
  <2>2. i < L => v[i + 1] = s[i + 1]
    BY <1>2
  <2>3. i > 1 => v[i - 1] = s[i - 1]
    BY <1>2
  <2>. QED BY <1>3, <2>1, <2>2, <2>3
<1>7. L > 0 /\ s[L] = Lead
  BY <1>2, <1>4, <1>6
<1>8. /\ w \in Seq(S) /\ Len(w) = L - 1
      /\ \A i \in 1 .. L - 1 : w[i] = s[i]
  <2>1. 1 \in 1 .. Len(s) + 1 /\ L - 1 \in 1 - 1 .. Len(s) /\ (L - 1) - 1 + 1 = L - 1
    BY <1>2, <1>7 DEF L
  <2>2. /\ w \in Seq(S) /\ Len(w) = (L - 1) - 1 + 1
        /\ \A i \in 1 .. (L - 1) - 1 + 1 : w[i] = s[1 + i - 1]
    BY <2>1, Part
  <2>3. \A i \in 1 .. L - 1 : 1 + i - 1 = i
    BY <1>2
  <2>. HIDE DEF w
  <2>. QED BY <2>1, <2>2, <2>3
<1>. HIDE DEF w
<1>9. ASSUME NEW i \in 1 .. L - 1
      PROVE  /\ w[i] = Lead  => i < L - 1 /\ w[i + 1] = Trail
             /\ w[i] = Trail => i > 1 /\ w[i - 1] = Lead
  <2>1. i \in 1 .. L /\ w[i] = s[i] /\ L \in Nat /\ i < L
    BY <1>2, <1>8
  <2>2. i < L - 1 => w[i + 1] = s[i + 1]
    BY <1>2, <1>8
  <2>3. i > 1 => w[i - 1] = s[i - 1]
    BY <1>2, <1>8
  <2>4. i = L - 1 => s[i + 1] = Lead
    BY <2>1, <1>7
  <2>5. i = L - 1 \/ i < L - 1
    BY <2>1
  <2>. QED BY <1>5, <1>6, <2>1, <2>2, <2>3, <2>4, <2>5
<1>10. Whole(w)
  BY <1>8, <1>9, WholeSays
<1>. QED BY <1>7, <1>10 DEF w, L

\* The valid end is the last one up to which the text from offset on is whole.
LEMMA EndOfValidIs ==
    ASSUME NEW S, NEW s \in Seq(S), NEW offset \in 0 .. Len(s)
    PROVE  /\ EndOfValid(s, offset) \in offset .. Len(s)
           /\ Whole(SubSeq(s, offset + 1, EndOfValid(s, offset)))
           /\ \A m \in EndOfValid(s, offset) + 1 .. Len(s) :
                  ~Whole(SubSeq(s, offset + 1, m))
<1>. DEFINE T == {n \in offset .. Len(s) : Whole(SubSeq(s, offset + 1, n))}
<1>0. Len(s) \in Nat /\ offset \in Nat
  OBVIOUS
<1>1. offset \in T
  <2>1. SubSeq(s, offset + 1, offset) = <<>>
    OBVIOUS
  <2>2. Whole(SubSeq(s, offset + 1, offset))
    BY <2>1, NothingIsWhole
  <2>3. offset \in offset .. Len(s)
    BY <1>0
  <2>. QED BY <2>2, <2>3
<1>2. Max(T) \in T /\ \A m \in T : m <= Max(T)
  <2>1. T \in SUBSET (0 .. Len(s)) /\ T # {}
    BY <1>0, <1>1
  <2>. HIDE DEF T
  <2>. QED BY <1>0, <2>1, MaxIs
<1>3. PICK n : n = Max(T)
  OBVIOUS
<1>4. n \in offset .. Len(s) /\ Whole(SubSeq(s, offset + 1, n))
  BY <1>2, <1>3
<1>5. ASSUME NEW m \in n + 1 .. Len(s), Whole(SubSeq(s, offset + 1, m)) PROVE FALSE
  <2>1. m \in T /\ m \in Int /\ n \in Int /\ m > n
    BY <1>0, <1>4, <1>5
  <2>2. m <= n
    <3>. HIDE DEF T
    <3>. QED BY <1>2, <1>3, <2>1
  <2>. QED BY <2>1, <2>2
<1>6. EndOfValid(s, offset) = n
  BY <1>3 DEF EndOfValid
<1>. QED BY <1>4, <1>5, <1>6

\* Behind it nothing is whole, as far as the text is known.
LEMMA NothingWholeBehind ==
    ASSUME NEW S, NEW s \in Seq(S), NEW offset \in 0 .. Len(s)
    PROVE  \A m \in EndOfValid(s, offset) + 1 .. Len(s) :
               ~Whole(SubSeq(s, EndOfValid(s, offset) + 1, m))
<1>. DEFINE e == EndOfValid(s, offset)
<1>1. /\ e \in offset .. Len(s) /\ Whole(SubSeq(s, offset + 1, e))
      /\ \A m \in e + 1 .. Len(s) : ~Whole(SubSeq(s, offset + 1, m))
  BY EndOfValidIs
<1>. HIDE DEF e
<1>2. ASSUME NEW m \in e + 1 .. Len(s), Whole(SubSeq(s, e + 1, m)) PROVE FALSE
  <2>1. offset + 1 \in 1 .. Len(s) + 1 /\ e \in (offset + 1) - 1 .. Len(s) /\ m \in e .. Len(s)
    BY <1>1
  <2>2. SubSeq(s, offset + 1, m) = SubSeq(s, offset + 1, e) \o SubSeq(s, e + 1, m)
    BY <2>1, CutJoins
  <2>3. e + 1 \in 1 .. Len(s) + 1 /\ m \in (e + 1) - 1 .. Len(s)
    BY <1>1
  <2>4. SubSeq(s, offset + 1, e) \in Seq(S) /\ SubSeq(s, e + 1, m) \in Seq(S)
    BY <2>1, <2>3, Part
  <2>5. Whole(SubSeq(s, offset + 1, m))
    BY <1>1, <1>2, <2>2, <2>4, WholesJoin
  <2>. QED BY <1>1, <2>5
<1>. QED BY <1>2 DEF e

-----------------------------------------------------------------------------
(* The lengths of chunks. *)

\* f has the sums of the first numbers of lengths, as Total makes them.
Sums(f, lengths) ==
    f = [n \in 0 .. Len(lengths) |-> IF n = 0 THEN 0 ELSE f[n - 1] + lengths[n]]

LEMMA SumsAt ==
    ASSUME NEW f, NEW lengths, Sums(f, lengths), NEW n \in 0 .. Len(lengths)
    PROVE  f[n] = IF n = 0 THEN 0 ELSE f[n - 1] + lengths[n]
BY DEF Sums

\* They are sums up to m.
SumsUpTo(f, lengths, m) ==
    /\ \A n \in 0 .. m : f[n] \in Nat
    /\ \A n \in 0 .. m : f[n] = IF n = 0 THEN 0 ELSE f[n - 1] + lengths[n]

LEMMA SumsExist ==
    ASSUME NEW lengths \in Seq(Nat)
    PROVE  \E f : Sums(f, lengths) /\ SumsUpTo(f, lengths, Len(lengths))
<1>. DEFINE L == Len(lengths)
            Holds(m) == \E f : SumsUpTo(f, lengths, m)
            T == {m \in Nat : m <= L /\ ~Holds(m)}
<1>0. L \in Nat /\ \A n \in 1 .. L : lengths[n] \in Nat
  OBVIOUS
<1>. HIDE DEF L
<1>1. ASSUME T # {} PROVE FALSE
  <2>1. PICK m \in T : \A y \in T : m <= y
    <3>1. T \in SUBSET Nat
      OBVIOUS
    <3>. HIDE DEF T
    <3>. QED BY <1>1, <3>1, NatMin
  <2>2. m \in Nat /\ m <= L /\ ~Holds(m)
    OBVIOUS
  <2>3. CASE m = 0
    <3>. DEFINE f == [n \in 0 .. 0 |-> 0]
    <3>1. f[0] = 0
      OBVIOUS
    <3>. HIDE DEF f
    <3>2. SumsUpTo(f, lengths, 0)
      BY <3>1 DEF SumsUpTo
    <3>. QED BY <2>2, <2>3, <3>2
  <2>4. CASE m # 0
    <3>1. m - 1 \in Nat /\ m - 1 <= L /\ ~(m <= m - 1) /\ m \in 1 .. L
      BY <1>0, <2>2, <2>4
    <3>2. m - 1 \notin T
      <4>. HIDE DEF T
      <4>. QED BY <2>1, <3>1
    <3>3. PICK f : SumsUpTo(f, lengths, m - 1)
      BY <3>1, <3>2
    <3>. DEFINE g == [n \in 0 .. m |-> IF n = m THEN f[m - 1] + lengths[m] ELSE f[n]]
    <3>4. /\ g[m] = f[m - 1] + lengths[m]
          /\ \A n \in 0 .. m - 1 : g[n] = f[n]
      BY <3>1
    <3>5. /\ \A n \in 0 .. m - 1 : f[n] \in Nat
          /\ \A n \in 0 .. m - 1 : f[n] = IF n = 0 THEN 0 ELSE f[n - 1] + lengths[n]
      BY <3>3 DEF SumsUpTo
    <3>. HIDE DEF g
    <3>6. g[m - 1] = f[m - 1] /\ f[m - 1] \in Nat /\ lengths[m] \in Nat
      BY <3>1, <3>4, <3>5, <1>0
    <3>7. ASSUME NEW n \in 0 .. m
          PROVE  g[n] \in Nat /\ g[n] = IF n = 0 THEN 0 ELSE g[n - 1] + lengths[n]
      <4>1. CASE n = m
        BY <3>1, <3>4, <3>6, <4>1
      <4>2. CASE n < m /\ n # 0
        <5>1. n \in 0 .. m - 1 /\ n - 1 \in 0 .. m - 1
          BY <3>1, <4>2
        <5>. QED BY <3>4, <3>5, <5>1, <4>2
      <4>3. CASE n < m /\ n = 0
        <5>1. n \in 0 .. m - 1
          BY <3>1, <4>3
        <5>. QED BY <3>4, <3>5, <5>1, <4>3
      <4>. QED BY <3>1, <4>1, <4>2, <4>3
    <3>8. SumsUpTo(g, lengths, m)
      BY <3>7 DEF SumsUpTo
    <3>. QED BY <2>2, <3>8
  <2>. QED BY <2>3, <2>4
<1>2. Holds(L)
  <2>1. L \in Nat /\ L <= L
    BY <1>0
  <2>2. L \notin T
    <3>. HIDE DEF T
    <3>. QED BY <1>1
  <2>. QED BY <2>1, <2>2
<1>3. PICK f : SumsUpTo(f, lengths, L)
  BY <1>2
<1>. DEFINE g == [n \in 0 .. L |-> f[n]]
<1>4. \A n \in 0 .. L : g[n] = f[n]
  OBVIOUS
<1>5. \A n \in 0 .. L : n # 0 => n - 1 \in 0 .. L
  BY <1>0
<1>6. g = [n \in 0 .. L |-> g[n]]
  OBVIOUS
<1>. HIDE DEF g
<1>7. SumsUpTo(g, lengths, L)
  BY <1>3, <1>4, <1>5 DEF SumsUpTo
<1>8. g = [n \in 0 .. L |-> IF n = 0 THEN 0 ELSE g[n - 1] + lengths[n]]
  <2>1. \A n \in 0 .. L : g[n] = IF n = 0 THEN 0 ELSE g[n - 1] + lengths[n]
    BY <1>7 DEF SumsUpTo
  <2>. QED BY ONLY <1>6, <2>1
<1>9. Sums(g, lengths)
  BY <1>8 DEF Sums, L
<1>. QED BY <1>7, <1>9 DEF L

LEMMA SumsAgree ==
    ASSUME NEW f, NEW g, NEW lengths, NEW m \in Nat,
           SumsUpTo(f, lengths, m), SumsUpTo(g, lengths, m)
    PROVE  f[m] = g[m]
<1>. DEFINE T == {n \in Nat : n <= m /\ f[n] # g[n]}
<1>1. ASSUME T # {} PROVE FALSE
  <2>1. PICK n \in T : \A y \in T : n <= y
    <3>1. T \in SUBSET Nat
      OBVIOUS
    <3>. HIDE DEF T
    <3>. QED BY <1>1, <3>1, NatMin
  <2>2. n \in Nat /\ n <= m /\ f[n] # g[n]
    OBVIOUS
  <2>3. n \in 0 .. m
    BY <2>2
  <2>4. /\ f[n] = IF n = 0 THEN 0 ELSE f[n - 1] + lengths[n]
        /\ g[n] = IF n = 0 THEN 0 ELSE g[n - 1] + lengths[n]
    BY <2>3 DEF SumsUpTo
  <2>5. CASE n = 0
    BY <2>2, <2>4, <2>5
  <2>6. CASE n # 0
    <3>1. n - 1 \in Nat /\ n - 1 <= m /\ ~(n <= n - 1)
      BY <2>2, <2>6
    <3>2. n - 1 \notin T
      <4>. HIDE DEF T
      <4>. QED BY <2>1, <3>1
    <3>3. f[n - 1] = g[n - 1]
      BY <3>1, <3>2
    <3>. QED BY <2>2, <2>4, <2>6, <3>3
  <2>. QED BY <2>5, <2>6
<1>. QED BY <1>1

LEMMA TotalIs ==
    ASSUME NEW lengths \in Seq(Nat)
    PROVE  /\ Total(lengths) \in Nat
           /\ \E f : SumsUpTo(f, lengths, Len(lengths)) /\ Total(lengths) = f[Len(lengths)]
<1>. DEFINE F == CHOOSE f : Sums(f, lengths)
            L == Len(lengths)
<1>1. PICK f : Sums(f, lengths) /\ SumsUpTo(f, lengths, L)
  BY SumsExist
<1>2. Sums(F, lengths)
  BY <1>1
<1>3. Total(lengths) = F[L]
  BY DEF Total, Sums
<1>4. L \in Nat
  OBVIOUS
<1>. HIDE DEF F, L
<1>5. F = f
  <2>. DEFINE T == {n \in Nat : n <= L /\ f[n] # F[n]}
  <2>1. \A n \in 0 .. L : /\ f[n] = IF n = 0 THEN 0 ELSE f[n - 1] + lengths[n]
                          /\ F[n] = IF n = 0 THEN 0 ELSE F[n - 1] + lengths[n]
    BY <1>1, <1>2, SumsAt DEF L
  <2>2. ASSUME T # {} PROVE FALSE
    <3>1. PICK n \in T : \A y \in T : n <= y
      <4>1. T \in SUBSET Nat
        OBVIOUS
      <4>. HIDE DEF T
      <4>. QED BY <2>2, <4>1, NatMin
    <3>2. n \in Nat /\ n <= L /\ f[n] # F[n] /\ n \in 0 .. L
      BY <1>4
    <3>3. CASE n = 0
      BY <2>1, <3>2, <3>3
    <3>4. CASE n # 0
      <4>1. n - 1 \in Nat /\ n - 1 <= L /\ ~(n <= n - 1)
        BY <1>4, <3>2, <3>4
      <4>2. n - 1 \notin T
        <5>. HIDE DEF T
        <5>. QED BY <3>1, <4>1
      <4>3. f[n - 1] = F[n - 1]
        BY <4>1, <4>2
      <4>. QED BY <2>1, <3>2, <3>4, <4>3
    <3>. QED BY <3>3, <3>4
  <2>3. \A n \in 0 .. L : f[n] = F[n]
    BY <1>4, <2>2
  <2>4. f = [n \in 0 .. L |-> f[n]] /\ F = [n \in 0 .. L |-> F[n]]
    BY <1>1, <1>2 DEF Sums, L
  <2>. HIDE DEF T
  <2>. QED BY <2>3, <2>4
<1>6. L \in 0 .. L /\ f[L] \in Nat
  BY <1>1, <1>4 DEF SumsUpTo
<1>. QED BY <1>1, <1>3, <1>5, <1>6 DEF L

LEMMA TotalOfFew ==
    /\ Total(<<>>) = 0
    /\ \A n \in Nat : Total(<<n>>) = n
<1>1. Total(<<>>) = 0
  <2>1. <<>> \in Seq(Nat) /\ Len(<<>>) = 0
    OBVIOUS
  <2>2. PICK f : SumsUpTo(f, <<>>, 0) /\ Total(<<>>) = f[0]
    BY <2>1, TotalIs
  <2>. QED BY <2>2 DEF SumsUpTo
<1>2. ASSUME NEW n \in Nat PROVE Total(<<n>>) = n
  <2>1. <<n>> \in Seq(Nat) /\ Len(<<n>>) = 1 /\ <<n>>[1] = n
    OBVIOUS
  <2>2. PICK f : SumsUpTo(f, <<n>>, 1) /\ Total(<<n>>) = f[1]
    BY <2>1, TotalIs
  <2>3. f[0] = 0 /\ f[1] = f[0] + <<n>>[1]
    BY <2>2 DEF SumsUpTo
  <2>. QED BY <2>1, <2>2, <2>3
<1>. QED BY <1>1, <1>2

LEMMA TotalsAdd ==
    ASSUME NEW a \in Seq(Nat), NEW b \in Seq(Nat)
    PROVE  Total(a \o b) = Total(a) + Total(b)
<1>. DEFINE c == a \o b
            A == Len(a)
            B == Len(b)
<1>1. /\ c \in Seq(Nat) /\ Len(c) = A + B
      /\ \A i \in 1 .. A : c[i] = a[i]
      /\ \A i \in 1 .. B : c[A + i] = b[i]
  BY Joined
<1>2. A \in Nat /\ B \in Nat
  OBVIOUS
<1>. HIDE DEF c
<1>3. PICK f : SumsUpTo(f, a, A) /\ Total(a) = f[A]
  BY TotalIs
<1>4. PICK g : SumsUpTo(g, b, B) /\ Total(b) = g[B]
  BY TotalIs
<1>5. PICK k : SumsUpTo(k, c, A + B) /\ Total(c) = k[A + B]
  BY <1>1, TotalIs
<1>. HIDE DEF A, B
<1>. DEFINE h == [n \in 0 .. A + B |-> IF n <= A THEN f[n] ELSE f[A] + g[n - A]]
<1>6. /\ \A n \in 0 .. A : h[n] = f[n]
      /\ \A n \in 1 .. B : h[A + n] = f[A] + g[n]
  <2>1. \A n \in 0 .. A : n \in 0 .. A + B /\ n <= A
    BY <1>2
  <2>2. \A n \in 1 .. B : A + n \in 0 .. A + B /\ ~(A + n <= A) /\ (A + n) - A = n
    BY <1>2
  <2>. QED BY <2>1, <2>2
<1>7. /\ \A n \in 0 .. A : f[n] \in Nat
      /\ \A n \in 0 .. A : f[n] = IF n = 0 THEN 0 ELSE f[n - 1] + a[n]
      /\ \A n \in 0 .. B : g[n] \in Nat
      /\ \A n \in 0 .. B : g[n] = IF n = 0 THEN 0 ELSE g[n - 1] + b[n]
  BY <1>3, <1>4 DEF SumsUpTo
<1>. HIDE DEF h
<1>8. ASSUME NEW n \in 0 .. A + B
      PROVE  h[n] \in Nat /\ h[n] = IF n = 0 THEN 0 ELSE h[n - 1] + c[n]
  <2>1. CASE n <= A /\ n = 0
    <3>1. n \in 0 .. A
      BY <1>2, <2>1
    <3>. QED BY <3>1, <2>1, <1>6, <1>7
  <2>2. CASE n <= A /\ n # 0
    <3>1. n \in 0 .. A /\ n - 1 \in 0 .. A /\ n \in 1 .. A
      BY <1>2, <2>2
    <3>. QED BY <3>1, <2>2, <1>1, <1>6, <1>7
  <2>3. CASE n > A
    <3>1. PICK j \in 1 .. B : n = A + j
      <4>1. n - A \in 1 .. B /\ n = A + (n - A)
        BY <1>2, <2>3
      <4>. QED BY <4>1
    <3>2. j \in 0 .. B /\ j - 1 \in 0 .. B /\ j # 0 /\ n # 0 /\ j \in Nat /\ A \in 0 .. A
      BY <1>2, <3>1
    <3>3. h[n] = f[A] + g[j] /\ c[n] = b[j] /\ g[j] = g[j - 1] + b[j]
      BY <3>1, <3>2, <1>1, <1>6, <1>7
    <3>4. f[A] \in Nat /\ g[j] \in Nat /\ g[j - 1] \in Nat
      BY <3>2, <1>7
    <3>5. b[j] \in Nat
      BY <3>1 DEF B
    <3>6. h[n - 1] = f[A] + g[j - 1]
      <4>1. CASE j = 1
        <5>1. n - 1 = A /\ g[j - 1] = 0
          BY <4>1, <3>1, <3>2, <1>2, <1>7
        <5>. QED BY <5>1, <3>2, <3>4, <1>6
      <4>2. CASE j # 1
        <5>1. j - 1 \in 1 .. B /\ n - 1 = A + (j - 1)
          BY <4>2, <3>1, <3>2, <1>2
        <5>. QED BY <5>1, <1>6
      <4>. QED BY <4>1, <4>2
    <3>7. h[n - 1] + c[n] = f[A] + g[j]
      BY ONLY <3>3, <3>4, <3>5, <3>6
    <3>8. f[A] + g[j] \in Nat
      BY ONLY <3>4
    <3>. QED BY ONLY <3>2, <3>3, <3>7, <3>8
  <2>. QED BY <1>2, <2>1, <2>2, <2>3
<1>9. SumsUpTo(h, c, A + B)
  BY <1>8 DEF SumsUpTo
<1>10. h[A + B] = k[A + B] /\ A + B \in Nat
  BY <1>2, <1>5, <1>9, SumsAgree
<1>11. h[A + B] = f[A] + g[B]
  <2>1. CASE B = 0
    <3>1. h[A] = f[A] /\ g[0] = 0 /\ f[A] \in Nat /\ A + B = A
      BY <1>2, <1>6, <1>7, <2>1
    <3>. QED BY <3>1, <2>1
  <2>2. CASE B # 0
    BY <1>2, <1>6, <2>2
  <2>. QED BY <2>1, <2>2
<1>. QED BY <1>3, <1>4, <1>5, <1>10, <1>11 DEF c

\* The first n of some lengths and the others.
LEMMA TotalsOfParts ==
    ASSUME NEW lengths \in Seq(Nat), NEW n \in 0 .. Len(lengths)
    PROVE  /\ SubSeq(lengths, 1, n) \in Seq(Nat)
           /\ SubSeq(lengths, n + 1, Len(lengths)) \in Seq(Nat)
           /\ Total(SubSeq(lengths, 1, n)) \in Nat
           /\ Total(SubSeq(lengths, n + 1, Len(lengths))) \in Nat
           /\ Total(lengths) = Total(SubSeq(lengths, 1, n))
                               + Total(SubSeq(lengths, n + 1, Len(lengths)))
<1>1. /\ 1 \in 1 .. Len(lengths) + 1 /\ n \in 1 - 1 .. Len(lengths)
      /\ Len(lengths) \in n .. Len(lengths)
      /\ n + 1 \in 1 .. Len(lengths) + 1 /\ Len(lengths) \in (n + 1) - 1 .. Len(lengths)
  OBVIOUS
<1>2. SubSeq(lengths, 1, n) \in Seq(Nat) /\ SubSeq(lengths, n + 1, Len(lengths)) \in Seq(Nat)
  BY <1>1, Part
<1>3. SubSeq(lengths, 1, Len(lengths))
        = SubSeq(lengths, 1, n) \o SubSeq(lengths, n + 1, Len(lengths))
  BY <1>1, CutJoins
<1>4. lengths = SubSeq(lengths, 1, n) \o SubSeq(lengths, n + 1, Len(lengths))
  BY <1>3, WholePart
<1>5. Total(lengths) = Total(SubSeq(lengths, 1, n))
                       + Total(SubSeq(lengths, n + 1, Len(lengths)))
  BY <1>2, <1>4, TotalsAdd
<1>. QED BY <1>2, <1>5, TotalIs

\* What is released leaves a closing tag behind it, and not one chunk more.
LEMMA ReleasableIs ==
    ASSUME NEW lengths \in Seq(Nat), NEW size \in Nat \ {0}
    PROVE  LET n == Releasable(lengths, size) IN
           /\ n \in 0 .. Len(lengths)
           /\ lengths # <<>> => n < Len(lengths)
           /\ n > 0 => Total(SubSeq(lengths, n + 1, Len(lengths))) >= size
           /\ \A i \in n + 2 .. Len(lengths) : Total(SubSeq(lengths, i, Len(lengths))) < size
<1>. DEFINE L == Len(lengths)
            T(i) == Total(SubSeq(lengths, i, L))
            Enough == {i \in 1 .. L : T(i) >= size}
            n == Releasable(lengths, size)
<1>0. L \in Nat
  OBVIOUS
<1>1. \A i \in 1 .. L : T(i) \in Nat
  <2>. TAKE i \in 1 .. L
  <2>1. i - 1 \in 0 .. L /\ (i - 1) + 1 = i
    BY <1>0
  <2>. QED BY <2>1, TotalsOfParts
<1>2. n = IF Enough = {} THEN 0 ELSE Max(Enough) - 1
  BY DEF Releasable
<1>3. lengths # <<>> => L > 0
  OBVIOUS
<1>. HIDE DEF L, T, n
<1>4. CASE Enough = {}
  <2>1. n = 0
    BY <1>2, <1>4
  <2>2. \A i \in 2 .. L : T(i) < size
    <3>. TAKE i \in 2 .. L
    <3>1. i \in 1 .. L /\ i \notin Enough
      BY <1>0, <1>4
    <3>. QED BY <1>1, <3>1
  <2>. QED BY <1>0, <1>3, <2>1, <2>2 DEF L, T, n
<1>5. CASE Enough # {}
  <2>1. Max(Enough) \in Enough /\ \A y \in Enough : y <= Max(Enough)
    <3>1. Enough \in SUBSET (0 .. L)
      BY <1>0
    <3>. HIDE DEF Enough
    <3>. QED BY <1>0, <1>5, <3>1, MaxIs
  <2>2. PICK m : m = Max(Enough)
    OBVIOUS
  <2>3. m \in 1 .. L /\ T(m) >= size /\ n = m - 1
    BY <1>2, <1>5, <2>1, <2>2
  <2>4. \A i \in m + 1 .. L : T(i) < size
    <3>. TAKE i \in m + 1 .. L
    <3>1. i \in 1 .. L /\ ~(i <= m)
      BY <1>0, <2>3
    <3>2. i \notin Enough
      <4>. HIDE DEF Enough
      <4>. QED BY <2>1, <2>2, <3>1
    <3>. QED BY <1>1, <3>1, <3>2
  <2>. HIDE DEF Enough
  <2>5. n \in 0 .. L /\ n < L /\ n + 1 = m /\ n + 2 = m + 1
    BY <1>0, <2>3
  <2>. QED BY <2>3, <2>4, <2>5 DEF L, T, n
<1>. QED BY <1>4, <1>5

-----------------------------------------------------------------------------
(* Bytes, tags and where they occur. *)

LEMMA ElementOf ==
    ASSUME NEW S, NEW s \in Seq(S), NEW i \in 1 .. Len(s)
    PROVE  s[i] \in S
OBVIOUS

LEMMA MoreElements ==
    ASSUME NEW S, NEW U, S \subseteq U, NEW s \in Seq(S)
    PROVE  s \in Seq(U)
OBVIOUS

LEMMA BytesAre ==
    /\ Bytes \subseteq STRING
    /\ \A t \in Token \cup Externals : t \in Seq(Bytes)
<1>1. \A t \in Token \cup Externals : t \in Seq(STRING)
  BY TextsAssumption
<1>2. \A t \in Token \cup Externals : \A i \in DOMAIN t : t[i] \in STRING /\ t[i] \in Bytes
  BY <1>1 DEF Bytes
<1>3. ASSUME NEW t \in Token \cup Externals PROVE t \in Seq(Bytes)
  <2>1. t \in Seq(STRING) /\ \A i \in 1 .. Len(t) : t[i] \in Bytes
    BY <1>1, <1>2
  <2>. QED BY ONLY <2>1
<1>4. Bytes \subseteq STRING
  BY <1>2 DEF Bytes
<1>. QED BY <1>3, <1>4

LEMMA TagsAre ==
    ASSUME NEW t \in 1 .. Len(Tags)
    PROVE  /\ Tags[t].opening \in Seq(STRING) /\ Len(Tags[t].opening) > 0
           /\ Tags[t].closing \in Seq(STRING) /\ Len(Tags[t].closing) > 0
<1>1. Tags[t] \in [opening : Seq(STRING), closing : Seq(STRING)]
  <2>1. Tags \in Seq([opening : Seq(STRING), closing : Seq(STRING)])
    BY TagsAssumption
  <2>. QED BY ONLY <2>1, t \in 1 .. Len(Tags), ElementOf
<1>2. Tags[t].opening # <<>> /\ Tags[t].closing # <<>>
  BY TagsAssumption
<1>. QED BY <1>1, <1>2

LEMMA PrefixSays ==
    ASSUME NEW S, NEW s \in Seq(S), NEW t \in Seq(S)
    PROVE  IsPrefix(s, t) <=> Len(s) <= Len(t) /\ \A k \in 1 .. Len(s) : s[k] = t[k]
<1>1. CASE Len(s) <= Len(t)
  <2>1. /\ SubSeq(s, 1, Len(s)) \in Seq(S) /\ Len(SubSeq(s, 1, Len(s))) = Len(s)
        /\ SubSeq(t, 1, Len(s)) \in Seq(S) /\ Len(SubSeq(t, 1, Len(s))) = Len(s)
        /\ \A k \in 1 .. Len(s) : SubSeq(s, 1, Len(s))[k] = s[k]
        /\ \A k \in 1 .. Len(s) : SubSeq(t, 1, Len(s))[k] = t[k]
    BY <1>1
  <2>2. (\A k \in 1 .. Len(s) : s[k] = t[k])
          => SubSeq(s, 1, Len(s)) = SubSeq(t, 1, Len(s))
    BY <2>1, SameSeq
  <2>3. SubSeq(s, 1, Len(s)) = SubSeq(t, 1, Len(s))
          => \A k \in 1 .. Len(s) : s[k] = t[k]
    BY <2>1
  <2>. QED BY <1>1, <2>2, <2>3 DEF IsPrefix
<1>2. CASE ~(Len(s) <= Len(t))
  BY <1>2 DEF IsPrefix
<1>. QED BY <1>1, <1>2

LEMMA OccursSays ==
    ASSUME NEW S, NEW tag \in Seq(S), NEW s \in Seq(S), Len(tag) > 0, NEW p
    PROVE  p \in Occurrences(tag, s)
             <=> /\ p \in 1 .. Len(s) /\ p + Len(tag) - 1 <= Len(s)
                 /\ \A k \in 1 .. Len(tag) : tag[k] = s[p + k - 1]
<1>1. p \in Occurrences(tag, s)
        <=> p \in 1 .. Len(s) /\ IsPrefix(tag, SubSeq(s, p, Len(s)))
  <2>1. DOMAIN s = 1 .. Len(s)
    OBVIOUS
  <2>. QED BY <2>1 DEF Occurrences
<1>2. ASSUME p \in 1 .. Len(s)
      PROVE  IsPrefix(tag, SubSeq(s, p, Len(s)))
               <=> /\ p + Len(tag) - 1 <= Len(s)
                   /\ \A k \in 1 .. Len(tag) : tag[k] = s[p + k - 1]
  <2>. DEFINE u == SubSeq(s, p, Len(s))
  <2>1. p \in 1 .. Len(s) + 1 /\ Len(s) \in p - 1 .. Len(s)
    BY <1>2
  <2>2. /\ u \in Seq(S) /\ Len(u) = Len(s) - p + 1
        /\ \A i \in 1 .. Len(s) - p + 1 : u[i] = s[p + i - 1]
    BY <2>1, Part
  <2>. HIDE DEF u
  <2>3. IsPrefix(tag, u) <=> Len(tag) <= Len(u) /\ \A k \in 1 .. Len(tag) : tag[k] = u[k]
    BY <2>2, PrefixSays
  <2>4. Len(tag) <= Len(u) <=> p + Len(tag) - 1 <= Len(s)
    BY <1>2, <2>2
  <2>5. ASSUME Len(tag) <= Len(u)
        PROVE  \A k \in 1 .. Len(tag) : u[k] = s[p + k - 1]
    BY <2>2, <2>5
  <2>. QED BY <2>3, <2>4, <2>5 DEF u
<1>. QED BY <1>1, <1>2

-----------------------------------------------------------------------------
(* The interceptor keeps its types. *)

Sound(i) ==
    /\ i \in Interceptors
    /\ ~(i.detecting /\ i.is_thinking)
    /\ i.detecting => i.chunk_lengths = <<>>
    /\ i.is_thinking => i.tag # 0 /\ Total(i.chunk_lengths) = Len(i.raw_acc)

SoundResult(r) == Sound(r.state) /\ r.thought \in Seq(Bytes) /\ r.said \in Seq(Bytes)

LEMMA OccurringSays ==
    ASSUME NEW tag \in Seq(STRING), NEW s \in Seq(STRING), Len(tag) > 0
    PROVE  \A p : p \in Occurrences(tag, s)
                    <=> /\ p \in 1 .. Len(s) /\ p + Len(tag) - 1 <= Len(s)
                        /\ \A k \in 1 .. Len(tag) : tag[k] = s[p + k - 1]
<1>. TAKE p
<1>. QED BY OccursSays

LEMMA PassesSound ==
    ASSUME NEW i, Sound(i), NEW t \in Seq(Bytes), NEW a \in Seq(Bytes)
    PROVE  SoundResult(Passes(i, t, a))
<1>1. /\ Passes(i, t, a).state = i /\ Passes(i, t, a).thought = t
      /\ Passes(i, t, a).said = a
  BY DEF Passes
<1>. QED BY <1>1 DEF SoundResult

LEMMA FirstClosing ==
    ASSUME NEW t \in 1 .. Len(Tags), NEW s \in Seq(STRING),
           Occurrences(Tags[t].closing, s) # {}
    PROVE  LET pos == Min(Occurrences(Tags[t].closing, s))
               n   == Len(Tags[t].closing)
           IN  /\ pos \in Occurrences(Tags[t].closing, s)
               /\ \A q \in Occurrences(Tags[t].closing, s) : pos <= q
               /\ pos \in 1 .. Len(s) /\ n \in Nat /\ pos + n \in 1 .. Len(s) + 1
<1>. DEFINE c == Tags[t].closing
            C == Occurrences(c, s)
<1>1. c \in Seq(STRING) /\ Len(c) > 0 /\ Len(c) \in Nat /\ Len(s) \in Nat
  BY TagsAre
<1>. HIDE DEF c
<1>2. \A p \in C : p \in 1 .. Len(s) /\ p + Len(c) - 1 <= Len(s)
  BY <1>1, OccursSays
<1>3. C \in SUBSET Nat /\ C # {}
  BY <1>2 DEF c
<1>. HIDE DEF C
<1>4. Min(C) \in C /\ \A y \in C : Min(C) <= y
  BY <1>3, MinIs
<1>5. Min(C) \in 1 .. Len(s) /\ Min(C) + Len(c) - 1 <= Len(s)
  BY <1>2, <1>4
<1>. QED BY <1>1, <1>4, <1>5 DEF C, c

\* What is released of what is held back has the lengths of its chunks.
LEMMA ReleasedIs ==
    ASSUME NEW raw \in Seq(Bytes), NEW lengths \in Seq(Nat), Total(lengths) = Len(raw),
           NEW n \in 0 .. Len(lengths)
    PROVE  LET size == Total(SubSeq(lengths, 1, n))
               kept == SubSeq(lengths, n + 1, Len(lengths))
           IN  /\ size \in 0 .. Len(raw)
               /\ kept \in Seq(Nat)
               /\ SubSeq(raw, 1, size) \in Seq(Bytes)
               /\ SubSeq(raw, size + 1, Len(raw)) \in Seq(Bytes)
               /\ Total(kept) = Len(SubSeq(raw, size + 1, Len(raw)))
               /\ raw = SubSeq(raw, 1, size) \o SubSeq(raw, size + 1, Len(raw))
<1>. DEFINE size == Total(SubSeq(lengths, 1, n))
            kept == SubSeq(lengths, n + 1, Len(lengths))
            L == Len(raw)
<1>1. /\ kept \in Seq(Nat) /\ size \in Nat /\ Total(kept) \in Nat
      /\ L = size + Total(kept) /\ L \in Nat
  BY TotalsOfParts
<1>. HIDE DEF size, kept
<1>2. size \in 0 .. L /\ Total(kept) = L - size
  BY <1>1
<1>3. /\ 1 \in 1 .. L + 1 /\ size \in 1 - 1 .. L /\ L \in size .. L
      /\ size + 1 \in 1 .. L + 1 /\ L \in (size + 1) - 1 .. L
      /\ L - (size + 1) + 1 = L - size
  BY <1>1, <1>2
<1>4. SubSeq(raw, 1, size) \in Seq(Bytes)
  BY <1>3, Part
<1>5. /\ SubSeq(raw, size + 1, L) \in Seq(Bytes)
      /\ Len(SubSeq(raw, size + 1, L)) = L - (size + 1) + 1
  BY <1>3, Part
<1>6. SubSeq(raw, 1, L) = SubSeq(raw, 1, size) \o SubSeq(raw, size + 1, L)
  BY <1>3, CutJoins
<1>7. SubSeq(raw, 1, L) = raw
  BY WholePart
<1>. QED BY <1>1, <1>2, <1>3, <1>4, <1>5, <1>6, <1>7 DEF size, kept

LEMMA ThoughtChunkSound ==
    ASSUME NEW i \in Interceptors, i.tag # 0, ~i.detecting, i.is_thinking,
           Total(i.chunk_lengths) = Len(i.raw_acc), NEW chunk \in Seq(Bytes)
    PROVE  SoundResult(ThoughtChunk(i, chunk))
<1>. DEFINE raw     == i.raw_acc \o chunk
            lengths == Append(i.chunk_lengths, Len(chunk))
            closing == Tags[i.tag].closing
            Closed  == Occurrences(closing, raw)
            pos     == Min(Closed)
            n       == Releasable(lengths, Len(closing))
            size    == Total(SubSeq(lengths, 1, n))
            ended   == [i EXCEPT !.is_thinking = FALSE, !.raw_acc = raw, !.chunk_lengths = lengths]
            kept    == [i EXCEPT !.raw_acc = SubSeq(raw, size + 1, Len(raw)),
                                 !.chunk_lengths = SubSeq(lengths, n + 1, Len(lengths))]
<1>1. /\ i.detecting \in BOOLEAN /\ i.is_thinking \in BOOLEAN /\ i.tag \in 1 .. Len(Tags)
      /\ i.raw_acc \in Seq(Bytes) /\ i.cleaned_acc \in Seq(Bytes) /\ i.chunk_lengths \in Seq(Nat)
  BY DEF Interceptors
<1>2. raw \in Seq(Bytes) /\ lengths \in Seq(Nat) /\ Len(lengths) > 0
  BY <1>1
<1>3. Total(lengths) = Len(raw)
  <2>1. lengths = i.chunk_lengths \o <<Len(chunk)>> /\ <<Len(chunk)>> \in Seq(Nat)
    BY <1>1
  <2>2. Total(lengths) = Total(i.chunk_lengths) + Total(<<Len(chunk)>>)
    BY <1>1, <2>1, TotalsAdd
  <2>3. Total(<<Len(chunk)>>) = Len(chunk)
    BY TotalOfFew
  <2>4. Len(raw) = Len(i.raw_acc) + Len(chunk)
    BY <1>1
  <2>. QED BY <2>2, <2>3, <2>4
<1>4. /\ ended \in Interceptors /\ ~ended.is_thinking /\ ~ended.detecting
  BY <1>1, <1>2 DEF Interceptors
<1>5. CASE Closed # {}
  <2>1. ThoughtChunk(i, chunk) = Passes(ended, SubSeq(raw, 1, pos - 1),
                                        SubSeq(raw, pos + Len(closing), Len(raw)))
    BY <1>5 DEF ThoughtChunk
  <2>2. pos \in 1 .. Len(raw) /\ Len(closing) \in Nat /\ pos + Len(closing) \in 1 .. Len(raw) + 1
    <3>1. raw \in Seq(STRING)
      BY <1>2, BytesAre, MoreElements
    <3>. HIDE DEF raw
    <3>. QED BY <1>1, <1>5, <3>1, FirstClosing
  <2>3. SubSeq(raw, 1, pos - 1) \in Seq(Bytes)
    <3>1. 1 \in 1 .. Len(raw) + 1 /\ pos - 1 \in 1 - 1 .. Len(raw)
      BY <1>2, <2>2
    <3>. HIDE DEF raw, pos
    <3>. QED BY <1>2, <3>1, Part
  <2>4. SubSeq(raw, pos + Len(closing), Len(raw)) \in Seq(Bytes)
    <3>1. pos + Len(closing) \in 1 .. Len(raw) + 1
          /\ Len(raw) \in (pos + Len(closing)) - 1 .. Len(raw)
      BY <1>2, <2>2
    <3>. HIDE DEF raw, pos, closing
    <3>. QED BY <1>2, <3>1, Part
  <2>. HIDE DEF ended, raw, pos, closing
  <2>5. Sound(ended)
    BY <1>4 DEF Sound
  <2>. QED BY <2>1, <2>3, <2>4, <2>5, PassesSound
<1>6. CASE Closed = {}
  <2>1. ThoughtChunk(i, chunk) = Passes(kept, SubSeq(raw, 1, size), <<>>)
    BY <1>6 DEF ThoughtChunk
  <2>2. n \in 0 .. Len(lengths)
    <3>1. Len(closing) \in Nat \ {0}
      BY <1>1, TagsAre
    <3>. HIDE DEF lengths, closing
    <3>. QED BY <1>2, <3>1, ReleasableIs
  <2>. HIDE DEF n, lengths, raw
  <2>3. /\ SubSeq(lengths, n + 1, Len(lengths)) \in Seq(Nat)
        /\ SubSeq(raw, 1, size) \in Seq(Bytes)
        /\ SubSeq(raw, size + 1, Len(raw)) \in Seq(Bytes)
        /\ Total(SubSeq(lengths, n + 1, Len(lengths))) = Len(SubSeq(raw, size + 1, Len(raw)))
    BY <1>2, <1>3, <2>2, ReleasedIs
  <2>. HIDE DEF size
  <2>4. /\ kept \in Interceptors
        /\ kept.raw_acc = SubSeq(raw, size + 1, Len(raw))
        /\ kept.chunk_lengths = SubSeq(lengths, n + 1, Len(lengths))
        /\ kept.tag = i.tag
    BY <1>1, <2>3 DEF Interceptors
  <2>5. ~kept.detecting
    BY <1>1
  <2>. HIDE DEF kept
  <2>6. Sound(kept)
    BY <1>1, <2>3, <2>4, <2>5 DEF Sound
  <2>7. <<>> \in Seq(Bytes)
    OBVIOUS
  <2>. QED BY <2>1, <2>3, <2>6, <2>7, PassesSound
<1>. QED BY <1>5, <1>6

LEMMA InkOf ==
    ASSUME NEW S, NEW s \in Seq(S), \E i \in 1 .. Len(s) : IsInk(s[i])
    PROVE  \E m \in 1 .. Len(s) : \E n \in m .. Len(s) :
               /\ Trimmed(s) = SubSeq(s, m, n)
               /\ IsInk(s[m]) /\ IsInk(s[n])
               /\ \A i \in 1 .. Len(s) : IsInk(s[i]) => m <= i /\ i <= n
<1>. DEFINE Ink == {i \in DOMAIN s : IsInk(s[i])}
<1>0. DOMAIN s = 1 .. Len(s) /\ Len(s) \in Nat
  BY ONLY s \in Seq(S)
<1>3. \A i : i \in Ink <=> i \in 1 .. Len(s) /\ IsInk(s[i])
  BY ONLY <1>0
<1>1. Ink # {} /\ Ink \in SUBSET Nat /\ Ink \in SUBSET (0 .. Len(s)) /\ Len(s) \in Nat
  <2>1. PICK i \in 1 .. Len(s) : IsInk(s[i])
    OBVIOUS
  <2>2. Ink # {}
    BY <1>3, <2>1
  <2>3. \A x \in Ink : x \in 1 .. Len(s)
    BY <1>3
  <2>. HIDE DEF Ink
  <2>4. Ink \in SUBSET Nat /\ Ink \in SUBSET (0 .. Len(s))
    BY ONLY <1>0, <2>3
  <2>. QED BY <1>0, <2>2, <2>4
<1>2. Trimmed(s) = SubSeq(s, Min(Ink), Max(Ink))
  BY <1>1 DEF Trimmed, IsInk
<1>. HIDE DEF Ink
<1>4. Min(Ink) \in Ink /\ \A i \in Ink : Min(Ink) <= i
  BY <1>1, MinIs
<1>5. Max(Ink) \in Ink /\ \A i \in Ink : i <= Max(Ink)
  BY <1>1, MaxIs
<1>6. Min(Ink) \in 1 .. Len(s) /\ Max(Ink) \in Min(Ink) .. Len(s)
  <2>1. Min(Ink) \in 1 .. Len(s) /\ Max(Ink) \in 1 .. Len(s)
    BY <1>3, <1>4, <1>5
  <2>2. Min(Ink) <= Max(Ink)
    BY <1>4, <1>5
  <2>. QED BY ONLY <1>0, <2>1, <2>2
<1>. QED BY <1>2, <1>3, <1>4, <1>5, <1>6

LEMMA TrimmedType ==
    ASSUME NEW S, NEW s \in Seq(S)
    PROVE  Trimmed(s) \in Seq(S)
<1>1. CASE \E i \in 1 .. Len(s) : IsInk(s[i])
  <2>0. PICK m \in 1 .. Len(s) : \E n \in m .. Len(s) : Trimmed(s) = SubSeq(s, m, n)
    BY <1>1, InkOf
  <2>1. PICK n \in m .. Len(s) : Trimmed(s) = SubSeq(s, m, n)
    BY <2>0
  <2>2. m \in 1 .. Len(s) + 1 /\ n \in m - 1 .. Len(s)
    OBVIOUS
  <2>. QED BY <2>1, <2>2, Part
<1>2. CASE ~(\E i \in 1 .. Len(s) : IsInk(s[i]))
  <2>0. DOMAIN s = 1 .. Len(s)
    OBVIOUS
  <2>1. {i \in DOMAIN s : IsInk(s[i])} = {}
    BY <1>2, <2>0
  <2>2. Trimmed(s) = <<>>
    BY <2>1 DEF Trimmed, IsInk
  <2>. QED BY <2>2
<1>. QED BY <1>1, <1>2

\* The tag that is found is the first of those whose opening begins the text.
LEMMA TagFoundIs ==
    ASSUME NEW s \in Seq(STRING)
    PROVE  /\ TagFound(s) \in 0 .. Len(Tags)
           /\ TagFound(s) # 0 => /\ IsPrefix(Tags[TagFound(s)].opening, s)
                                 /\ \A t \in 1 .. TagFound(s) - 1 : ~IsPrefix(Tags[t].opening, s)
           /\ TagFound(s) = 0 => \A t \in 1 .. Len(Tags) : ~IsPrefix(Tags[t].opening, s)
<1>. DEFINE Found == {t \in DOMAIN Tags : IsPrefix(Tags[t].opening, s)}
<1>1. Len(Tags) \in Nat /\ DOMAIN Tags = 1 .. Len(Tags)
  BY TagsAssumption
<1>2. TagFound(s) = IF Found = {} THEN 0 ELSE Min(Found)
  BY DEF TagFound
<1>3. \A t : t \in Found <=> t \in 1 .. Len(Tags) /\ IsPrefix(Tags[t].opening, s)
  BY <1>1
<1>. HIDE DEF Found
<1>4. CASE Found = {}
  BY <1>1, <1>2, <1>3, <1>4
<1>5. CASE Found # {}
  <2>1. Found \in SUBSET Nat
    BY <1>3
  <2>2. Min(Found) \in Found /\ \A t \in Found : Min(Found) <= t
    BY <1>5, <2>1, MinIs
  <2>3. Min(Found) \in 1 .. Len(Tags) /\ IsPrefix(Tags[Min(Found)].opening, s)
    BY <1>3, <2>2
  <2>4. ASSUME NEW t \in 1 .. Min(Found) - 1 PROVE ~IsPrefix(Tags[t].opening, s)
    <3>1. t \in 1 .. Len(Tags) /\ ~(Min(Found) <= t)
      BY <1>1, <2>3
    <3>. QED BY <1>3, <2>2, <3>1
  <2>. QED BY <1>1, <1>2, <1>5, <2>3, <2>4
<1>. QED BY <1>4, <1>5

LEMMA DetectSound ==
    ASSUME NEW i \in Interceptors, i.detecting, ~i.is_thinking,
           i.chunk_lengths = <<>>, NEW chunk \in Seq(Bytes)
    PROVE  SoundResult(Detect(i, chunk))
<1>. DEFINE raw     == i.raw_acc \o chunk
            cleaned == Trimmed(i.cleaned_acc \o chunk)
            tag     == TagFound(cleaned)
            heard   == [i EXCEPT !.raw_acc = raw, !.cleaned_acc = cleaned]
            thinks  == [heard EXCEPT !.detecting = FALSE, !.is_thinking = TRUE,
                                     !.tag = tag, !.raw_acc = <<>>]
            answers == [heard EXCEPT !.detecting = FALSE]
            body    == SubSeq(cleaned, Len(Tags[tag].opening) + 1, Len(cleaned))
<1>1. /\ i.detecting \in BOOLEAN /\ i.is_thinking \in BOOLEAN /\ i.tag \in 0 .. Len(Tags)
      /\ i.raw_acc \in Seq(Bytes) /\ i.cleaned_acc \in Seq(Bytes) /\ i.chunk_lengths \in Seq(Nat)
  BY DEF Interceptors
<1>2. raw \in Seq(Bytes) /\ cleaned \in Seq(Bytes)
  <2>1. i.cleaned_acc \o chunk \in Seq(Bytes)
    BY <1>1
  <2>2. cleaned \in Seq(Bytes)
    BY <2>1, TrimmedType
  <2>. QED BY <1>1, <2>2
<1>3. cleaned \in Seq(STRING)
  BY <1>2, BytesAre, MoreElements
<1>. HIDE DEF cleaned, raw
<1>4. tag \in 0 .. Len(Tags)
  BY <1>3, TagFoundIs
<1>5. /\ heard \in Interceptors /\ heard.chunk_lengths = <<>> /\ heard.detecting = i.detecting
      /\ heard.is_thinking = i.is_thinking
  BY <1>1, <1>2 DEF Interceptors
<1>. HIDE DEF heard, tag
<1>6. CASE tag # 0
  <2>1. Detect(i, chunk) = ThoughtChunk(thinks, body)
    BY <1>6 DEF Detect, heard, tag, raw, cleaned
  <2>0. <<>> \in Seq(Bytes) /\ <<>> \in Seq(Nat)
    OBVIOUS
  <2>2. /\ thinks \in Interceptors /\ thinks.tag = tag /\ thinks.chunk_lengths = <<>>
        /\ thinks.raw_acc = <<>>
    BY <1>4, <1>5, <2>0 DEF Interceptors
  <2>2a. ~thinks.detecting /\ thinks.is_thinking
    BY <1>5 DEF Interceptors
  <2>3. body \in Seq(Bytes)
    <3>. DEFINE m == Len(Tags[tag].opening)
    <3>1. tag \in 1 .. Len(Tags)
      BY <1>4, <1>6
    <3>2. Tags[tag].opening \in Seq(STRING)
      BY <3>1, TagsAre
    <3>3. IsPrefix(Tags[tag].opening, cleaned)
      BY <1>3, <1>6, TagFoundIs DEF tag
    <3>4. m \in 0 .. Len(cleaned)
      BY <1>3, <3>2, <3>3, PrefixSays
    <3>. HIDE DEF m
    <3>5. m + 1 \in 1 .. Len(cleaned) + 1 /\ Len(cleaned) \in (m + 1) - 1 .. Len(cleaned)
      BY <1>2, <3>4
    <3>. QED BY <1>2, <3>5, Part DEF m
  <2>4. Total(thinks.chunk_lengths) = Len(thinks.raw_acc)
    <3>1. Len(<<>>) = 0
      OBVIOUS
    <3>. QED BY <2>2, <3>1, TotalOfFew
  <2>. HIDE DEF thinks, body
  <2>. QED BY <1>6, <2>1, <2>2, <2>2a, <2>3, <2>4, ThoughtChunkSound
<1>7. CASE tag = 0 /\ Undecided(cleaned)
  <2>1. Detect(i, chunk) = Passes(heard, <<>>, <<>>)
    BY <1>7 DEF Detect, Keeps, heard, tag, raw, cleaned
  <2>2. ~heard.is_thinking
    BY <1>5
  <2>3. Sound(heard)
    BY <1>5, <2>2 DEF Sound
  <2>4. <<>> \in Seq(Bytes)
    OBVIOUS
  <2>. QED BY <2>1, <2>3, <2>4, PassesSound
<1>8. CASE tag = 0 /\ ~Undecided(cleaned)
  <2>1. Detect(i, chunk) = Passes(answers, <<>>, raw)
    BY <1>8 DEF Detect, heard, tag, raw, cleaned
  <2>2. /\ answers \in Interceptors /\ answers.is_thinking = i.is_thinking
        /\ answers.chunk_lengths = <<>>
    BY <1>5 DEF Interceptors
  <2>. HIDE DEF answers
  <2>3. ~answers.is_thinking
    BY <2>2
  <2>4. Sound(answers)
    BY <2>2, <2>3 DEF Sound
  <2>5. <<>> \in Seq(Bytes)
    OBVIOUS
  <2>. QED BY <1>2, <2>1, <2>4, <2>5, PassesSound
<1>. QED BY <1>6, <1>7, <1>8

LEMMA PutChunkSound ==
    ASSUME Sound(interceptor), NEW first \in BOOLEAN, NEW chunk \in Seq(Bytes)
    PROVE  SoundResult(PutChunk(first, chunk))
<1>. DEFINE i == StateFor(first)
<1>1. Sound(i)
  <2>1. Sound(Fresh)
    <3>1. <<>> \in Seq(Bytes) /\ <<>> \in Seq(Nat) /\ Len(Tags) \in Nat
      BY TagsAssumption
    <3>2. Fresh \in Interceptors /\ Fresh.chunk_lengths = <<>>
      BY <3>1 DEF Fresh, Interceptors
    <3>3. ~Fresh.is_thinking
      BY DEF Fresh
    <3>. QED BY <3>2, <3>3 DEF Sound
  <2>2. i = Fresh \/ i = interceptor
    BY DEF StateFor
  <2>. QED BY <2>1, <2>2
<1>2. <<>> \in Seq(Bytes)
  OBVIOUS
<1>. HIDE DEF i
<1>3. CASE Tags = <<>>
  <2>1. PutChunk(first, chunk) = Passes(interceptor, <<>>, chunk)
    BY <1>3 DEF PutChunk
  <2>. QED BY <1>2, <2>1, PassesSound
<1>4. CASE Tags # <<>> /\ i.is_thinking
  <2>1. PutChunk(first, chunk) = ThoughtChunk(i, chunk)
    BY <1>4 DEF PutChunk, i
  <2>2. /\ i \in Interceptors /\ i.tag # 0 /\ ~i.detecting
        /\ Total(i.chunk_lengths) = Len(i.raw_acc)
    BY <1>1, <1>4 DEF Sound
  <2>. QED BY <1>4, <2>1, <2>2, ThoughtChunkSound
<1>5. CASE Tags # <<>> /\ ~i.is_thinking /\ i.detecting
  <2>1. PutChunk(first, chunk) = Detect(i, chunk)
    BY <1>5 DEF PutChunk, i
  <2>2. i \in Interceptors /\ i.chunk_lengths = <<>>
    BY <1>1, <1>5 DEF Sound
  <2>. QED BY <1>5, <2>1, <2>2, DetectSound
<1>6. CASE Tags # <<>> /\ ~i.is_thinking /\ ~i.detecting
  <2>1. PutChunk(first, chunk) = Passes(i, <<>>, chunk)
    BY <1>6 DEF PutChunk, i
  <2>. QED BY <1>1, <1>2, <2>1, PassesSound
<1>. QED BY <1>3, <1>4, <1>5, <1>6

-----------------------------------------------------------------------------
(* What a token makes of the text that is held back. *)

LEMMA TokenIs ==
    ASSUME NEW token \in Token
    PROVE  token \in Seq(Bytes) /\ Len(token) > 0 /\ Len(token) \in Nat
<1>1. token \in Seq(Bytes) /\ token # <<>>
  BY BytesAre, TextsAssumption
<1>. QED BY <1>1

\* The end in the cached text up to which a token lets it out.
EndIn(s, from) == IF EndsLine(s) THEN Len(s) ELSE EndOfValid(s, from)

LEMMA TokenCuts ==
    ASSUME TypeOK, NEW token \in Token
    PROVE  LET s == token_cache \o token
               e == EndIn(s, print_len)
           IN  /\ s \in Seq(Bytes) /\ Len(s) = Len(token_cache) + Len(token) /\ Len(s) > 0
               /\ print_len \in 0 .. Len(s) /\ e \in print_len .. Len(s)
               /\ SubSeq(s, print_len + 1, e) \in Seq(Bytes)
               /\ SubSeq(s, e + 1, Len(s)) \in Seq(Bytes)
               /\ Len(SubSeq(s, print_len + 1, e)) = e - print_len
               /\ Len(SubSeq(s, e + 1, Len(s))) = Len(s) - e
               /\ SubSeq(token_cache, print_len + 1, Len(token_cache)) \in Seq(Bytes)
               /\ SubSeq(token_cache, print_len + 1, Len(token_cache)) \o token
                    = SubSeq(s, print_len + 1, e) \o SubSeq(s, e + 1, Len(s))
<1>. DEFINE s == token_cache \o token
            e == EndIn(s, print_len)
<1>1. token_cache \in Seq(Bytes) /\ print_len \in 0 .. Len(token_cache)
  BY DEF TypeOK
<1>2. token \in Seq(Bytes) /\ Len(token) > 0 /\ Len(token) \in Nat
  BY TokenIs
<1>3. s \in Seq(Bytes) /\ Len(s) = Len(token_cache) + Len(token)
  BY <1>1, <1>2, Joined
<1>4. Len(s) > 0 /\ print_len \in 0 .. Len(s) /\ Len(s) \in Nat /\ print_len \in Nat
  BY <1>1, <1>2, <1>3
<1>5. e \in print_len .. Len(s)
  <2>1. EndOfValid(s, print_len) \in print_len .. Len(s)
    <3>. HIDE DEF s
    <3>. QED BY <1>3, <1>4, EndOfValidIs
  <2>. QED BY <1>4, <2>1 DEF EndIn
<1>6. SubSeq(s, print_len + 1, Len(s))
        = SubSeq(token_cache, print_len + 1, Len(token_cache)) \o token
  <2>1. print_len + 1 \in 1 .. Len(token_cache) + 1
    BY <1>1
  <2>. QED BY <1>1, <1>2, <2>1, TailJoins
<1>. HIDE DEF s, e
<1>7. /\ print_len + 1 \in 1 .. Len(s) + 1 /\ e \in (print_len + 1) - 1 .. Len(s)
      /\ Len(s) \in e .. Len(s) /\ e + 1 \in 1 .. Len(s) + 1
      /\ Len(s) \in (e + 1) - 1 .. Len(s)
      /\ e - (print_len + 1) + 1 = e - print_len /\ Len(s) - (e + 1) + 1 = Len(s) - e
  BY <1>4, <1>5
<1>8. SubSeq(s, print_len + 1, Len(s))
        = SubSeq(s, print_len + 1, e) \o SubSeq(s, e + 1, Len(s))
  BY <1>3, <1>7, CutJoins
<1>9. /\ SubSeq(s, print_len + 1, e) \in Seq(Bytes)
      /\ SubSeq(s, e + 1, Len(s)) \in Seq(Bytes)
      /\ Len(SubSeq(s, print_len + 1, e)) = e - print_len
      /\ Len(SubSeq(s, e + 1, Len(s))) = Len(s) - e
  <2>1. /\ SubSeq(s, print_len + 1, e) \in Seq(Bytes)
        /\ Len(SubSeq(s, print_len + 1, e)) = e - (print_len + 1) + 1
    BY <1>3, <1>7, Part
  <2>2. /\ SubSeq(s, e + 1, Len(s)) \in Seq(Bytes)
        /\ Len(SubSeq(s, e + 1, Len(s))) = Len(s) - (e + 1) + 1
    BY <1>3, <1>7, Part
  <2>. QED BY <1>7, <2>1, <2>2
<1>10. SubSeq(token_cache, print_len + 1, Len(token_cache)) \in Seq(Bytes)
  <2>1. print_len + 1 \in 1 .. Len(token_cache) + 1
        /\ Len(token_cache) \in (print_len + 1) - 1 .. Len(token_cache)
    BY <1>1
  <2>. QED BY <1>1, <2>1, Part
<1>. QED BY <1>3, <1>4, <1>5, <1>6, <1>8, <1>9, <1>10 DEF s, e

\* What Put does, in these terms.
LEMMA PutIs ==
    ASSUME NEW token \in Token, Put(token)
    PROVE  LET s == token_cache \o token
               e == EndIn(s, print_len)
           IN  /\ PassOn(SubSeq(s, print_len + 1, e))
               /\ is_first' = (is_first /\ e = print_len)
               /\ text' = text \o token /\ pc = "streaming"
               /\ EndsLine(s) => token_cache' = <<>> /\ print_len' = 0
               /\ ~EndsLine(s) => token_cache' = s /\ print_len' = e
BY DEF Put, EndIn, PrintLen

\* The end of an answer: nothing is flushed.
LEMMA NothingIsFlushed ==
    ASSUME TypeOK, RestIsHeld
    PROVE  Flush = <<>>
<1>1. token_cache \in Seq(Bytes) /\ print_len \in 0 .. Len(token_cache)
  BY DEF TypeOK
<1>2. PICK n : n = EndOfValid(token_cache, print_len)
  OBVIOUS
<1>3. n \in print_len .. Len(token_cache) /\ Whole(SubSeq(token_cache, print_len + 1, n))
  BY <1>1, <1>2, EndOfValidIs
<1>4. ~(n > print_len)
  <2>1. n > print_len => n \in print_len + 1 .. Len(token_cache)
    BY <1>1, <1>3
  <2>. QED BY <1>3, <2>1 DEF RestIsHeld
<1>. QED BY <1>2, <1>4 DEF Flush

-----------------------------------------------------------------------------
(* Type correctness. *)

LEMMA TypesSay ==
    TypeOK => /\ Sound(interceptor) /\ is_first \in BOOLEAN
              /\ thought \in Seq(Bytes) /\ said \in Seq(Bytes)
              /\ text \in Seq(Bytes) /\ passed \in Seq(Bytes)
<1>1. TypeOK => Sound(interceptor) /\ is_first \in BOOLEAN
  BY DEF TypeOK, Sound
<1>2. TypeOK => /\ thought \in Seq(Bytes) /\ said \in Seq(Bytes)
                /\ text \in Seq(Bytes) /\ passed \in Seq(Bytes)
  BY DEF TypeOK
<1>. QED BY <1>1, <1>2

LEMMA ReportedTypes ==
    ASSUME TypeOK, NEW r, SoundResult(r), Reported(r)
    PROVE  Sound(interceptor') /\ thought' \in Seq(Bytes) /\ said' \in Seq(Bytes)
<1>1. /\ thought \in Seq(Bytes) /\ said \in Seq(Bytes)
      /\ r.thought \in Seq(Bytes) /\ r.said \in Seq(Bytes) /\ Sound(r.state)
  BY TypesSay DEF SoundResult
<1>2. /\ interceptor' = r.state /\ thought' = thought \o r.thought
      /\ said' = said \o r.said
  BY DEF Reported
<1>3. Sound(interceptor')
  BY <1>1, <1>2
<1>. QED BY <1>1, <1>2, <1>3

LEMMA PassOnTypes ==
    ASSUME TypeOK, NEW chunk \in Seq(Bytes), PassOn(chunk)
    PROVE  /\ Sound(interceptor') /\ thought' \in Seq(Bytes) /\ said' \in Seq(Bytes)
           /\ passed' \in Seq(Bytes) /\ spaced' \in BOOLEAN
<1>0. spaced' \in BOOLEAN
  BY DEF PassOn, TypeOK
<1>1. passed' \in Seq(Bytes)
  BY TypesSay DEF PassOn
<1>2. CASE chunk = <<>>
  <2>1. UNCHANGED <<interceptor, thought, said>>
    BY <1>2 DEF PassOn
  <2>2. Sound(interceptor) /\ interceptor' = interceptor
    BY <2>1, TypesSay
  <2>3. Sound(interceptor')
    BY <2>2
  <2>4. thought' \in Seq(Bytes) /\ said' \in Seq(Bytes)
    BY <2>1, TypesSay
  <2>. QED BY <1>0, <1>1, <2>3, <2>4
<1>3. CASE chunk # <<>>
  <2>1. Reported(PutChunk(is_first, chunk))
    BY <1>3 DEF PassOn
  <2>2. SoundResult(PutChunk(is_first, chunk))
    BY TypesSay, PutChunkSound
  <2>. QED BY <1>0, <1>1, <2>1, <2>2, ReportedTypes
<1>. QED BY <1>2, <1>3

LEMMA TypesInit == Init => TypeOK
<1>. SUFFICES ASSUME Init PROVE TypeOK
  OBVIOUS
<1>. DEFINE i == [Fresh EXCEPT !.detecting = FALSE]
<1>1. <<>> \in Seq(Bytes) /\ <<>> \in Seq(Nat) /\ Len(Tags) \in Nat /\ Len(<<>>) = 0
  <2>1. Len(Tags) \in Nat
    BY TagsAssumption
  <2>. QED BY ONLY <2>1
<1>2. i \in Interceptors
  <2>1. Fresh \in Interceptors
    BY <1>1 DEF Fresh, Interceptors
  <2>. QED BY <2>1 DEF Interceptors
<1>3. ~i.is_thinking /\ ~i.detecting
  BY DEF Fresh
<1>4. interceptor = i
  BY DEF Init
<1>. HIDE DEF i
<1>5. /\ interceptor \in Interceptors /\ ~interceptor.is_thinking /\ ~interceptor.detecting
  BY <1>2, <1>3, <1>4
<1>6. is_first \in BOOLEAN /\ plain \in BOOLEAN /\ spaced \in BOOLEAN
  BY DEF Init
<1>7. 0 \in 0 .. Len(<<>>) /\ 0 \in 0 .. MaxText
  BY <1>1, TextsAssumption
<1>8. /\ pc = "idle" /\ token_cache = <<>> /\ print_len = 0 /\ thought = <<>> /\ said = <<>>
      /\ text = <<>> /\ passed = <<>> /\ spent = 0
  BY DEF Init
<1>. QED BY <1>1, <1>5, <1>6, <1>7, <1>8 DEF TypeOK

LEMMA TypesNext == TypeOK /\ [Next]_vars => TypeOK'
<1>. SUFFICES ASSUME TypeOK, [Next]_vars PROVE TypeOK'
  OBVIOUS
<1>0. /\ pc \in {"idle", "streaming"} /\ is_first \in BOOLEAN /\ plain \in BOOLEAN
      /\ spaced \in BOOLEAN
      /\ print_len \in 0 .. Len(token_cache) /\ spent \in 0 .. MaxText
      /\ token_cache \in Seq(Bytes) /\ thought \in Seq(Bytes) /\ said \in Seq(Bytes)
      /\ text \in Seq(Bytes) /\ passed \in Seq(Bytes) /\ Sound(interceptor)
  BY DEF TypeOK, Sound
<1>1. MaxText \in Nat /\ <<>> \in Seq(Bytes) /\ Len(<<>>) = 0
  BY TextsAssumption
<1>2. ASSUME NEW i, Sound(i), interceptor' = i,
             pc' \in {"idle", "streaming"}, is_first' \in BOOLEAN, plain' \in BOOLEAN,
             spaced' \in BOOLEAN,
             print_len' \in 0 .. Len(token_cache'), spent' \in 0 .. MaxText,
             token_cache' \in Seq(Bytes), thought' \in Seq(Bytes), said' \in Seq(Bytes),
             text' \in Seq(Bytes), passed' \in Seq(Bytes)
      PROVE  TypeOK'
  <2>1. \A s \in {token_cache', thought', said', text', passed'} : s \in Seq(Bytes)
    BY <1>2
  <2>2. Sound(interceptor')
    BY <1>2
  <2>3. /\ interceptor' \in Interceptors
        /\ ~(interceptor'.detecting /\ interceptor'.is_thinking)
        /\ interceptor'.detecting => interceptor'.chunk_lengths = <<>>
        /\ interceptor'.is_thinking =>
              interceptor'.tag # 0
              /\ Total(interceptor'.chunk_lengths) = Len(interceptor'.raw_acc)
    BY <2>2 DEF Sound
  <2>. QED BY <1>2, <2>1, <2>3 DEF TypeOK
<1>3. CASE Begin
  <2>1. pc' = "streaming" /\ spent' \in 0 .. MaxText
    BY <1>0, <1>1, <1>3 DEF Begin, NewTurn
  <2>2. plain' \in BOOLEAN /\ spaced' \in BOOLEAN
    BY <1>3 DEF Begin
  <2>3. /\ thought' = <<>> /\ said' = <<>> /\ text' = <<>> /\ passed' = <<>>
        /\ UNCHANGED <<token_cache, print_len, is_first, interceptor>>
    BY <1>3 DEF Begin
  <2>. QED BY <1>0, <1>1, <1>2, <2>1, <2>2, <2>3
<1>4. ASSUME NEW e \in Externals, NEW first \in BOOLEAN, BeginWith(e, first) PROVE TypeOK'
  <2>1. pc' = "streaming" /\ spent' \in 0 .. MaxText
    BY <1>0, <1>1, <1>4 DEF BeginWith, NewTurn
  <2>2. plain' \in BOOLEAN /\ spaced' \in BOOLEAN
    BY <1>4 DEF BeginWith
  <2>3. PICK r : r = PutChunk(first, e)
    OBVIOUS
  <2>4. e \in Seq(Bytes)
    BY BytesAre
  <2>5. SoundResult(r)
    BY <1>0, <2>3, <2>4, PutChunkSound
  <2>6. /\ interceptor' = r.state /\ thought' = r.thought /\ said' = r.said
        /\ text' = <<>> /\ passed' = <<>> /\ UNCHANGED <<token_cache, print_len, is_first>>
    BY <1>4, <2>3 DEF BeginWith
  <2>7. Sound(r.state) /\ r.thought \in Seq(Bytes) /\ r.said \in Seq(Bytes)
    BY <2>5 DEF SoundResult
  <2>. QED BY <1>0, <1>1, <1>2, <2>1, <2>2, <2>6, <2>7
<1>5. ASSUME NEW token \in Token, Put(token) PROVE TypeOK'
  <2>. DEFINE s == token_cache \o token
              e == EndIn(s, print_len)
  <2>1. /\ s \in Seq(Bytes) /\ e \in print_len .. Len(s) /\ Len(s) \in Nat
        /\ SubSeq(s, print_len + 1, e) \in Seq(Bytes)
    BY TokenCuts
  <2>2. /\ PassOn(SubSeq(s, print_len + 1, e))
        /\ is_first' = (is_first /\ e = print_len)
        /\ text' = text \o token
        /\ EndsLine(s) => token_cache' = <<>> /\ print_len' = 0
        /\ ~EndsLine(s) => token_cache' = s /\ print_len' = e
    BY <1>5, PutIs
  <2>. HIDE DEF s, e
  <2>3. /\ Sound(interceptor') /\ thought' \in Seq(Bytes) /\ said' \in Seq(Bytes)
        /\ passed' \in Seq(Bytes) /\ spaced' \in BOOLEAN
    BY <2>1, <2>2, PassOnTypes
  <2>4. token_cache' \in Seq(Bytes) /\ print_len' \in 0 .. Len(token_cache')
    <3>1. CASE EndsLine(s)
      BY <1>1, <2>2, <3>1
    <3>2. CASE ~EndsLine(s)
      BY <1>0, <2>1, <2>2, <3>2
    <3>. QED BY <3>1, <3>2
  <2>5. text' \in Seq(Bytes)
    BY <1>0, <2>2, TokenIs
  <2>6. is_first' \in BOOLEAN
    BY <2>2
  <2>7. /\ pc' = pc /\ plain' = plain /\ spent' = spent + Len(token)
        /\ spent + Len(token) <= MaxText
    BY <1>5 DEF Put
  <2>8. spent' \in 0 .. MaxText
    BY <1>0, <1>1, <2>7, TokenIs
  <2>. QED BY <1>0, <1>2, <2>3, <2>4, <2>5, <2>6, <2>7, <2>8
<1>6. CASE Retry
  <2>1. plain' \in BOOLEAN
    BY <1>6 DEF Retry
  <2>2. UNCHANGED <<pc, token_cache, print_len, is_first, interceptor, thought, said,
                    text, passed, spaced, spent>>
    BY <1>6 DEF Retry
  <2>. QED BY <1>0, <1>2, <2>1, <2>2
<1>7. CASE End
  <2>1. Flush \in Seq(Bytes)
    <3>1. print_len + 1 \in 1 .. Len(token_cache) + 1
          /\ Len(token_cache) \in (print_len + 1) - 1 .. Len(token_cache)
      BY <1>0
    <3>2. SubSeq(token_cache, print_len + 1, Len(token_cache)) \in Seq(Bytes)
      BY <1>0, <3>1, Part
    <3>. QED BY <1>1, <3>2 DEF Flush
  <2>2. PassOn(Flush)
    BY <1>7 DEF End, PassOn
  <2>3. /\ Sound(interceptor') /\ thought' \in Seq(Bytes) /\ said' \in Seq(Bytes)
        /\ passed' \in Seq(Bytes) /\ spaced' \in BOOLEAN
    BY <2>1, <2>2, PassOnTypes
  <2>4. is_first' \in BOOLEAN
    BY <1>7 DEF End
  <2>5. token_cache' = <<>> /\ print_len' = 0 /\ pc' = "idle" /\ UNCHANGED <<text, plain, spent>>
    BY <1>7 DEF End
  <2>6. print_len' \in 0 .. Len(token_cache')
    BY <1>1, <2>5
  <2>. QED BY <1>0, <1>1, <1>2, <2>3, <2>4, <2>5, <2>6
<1>8. CASE UNCHANGED vars
  BY <1>8, <1>0, <1>2 DEF vars
<1>. QED BY <1>3, <1>4, <1>5, <1>6, <1>7, <1>8 DEF Next

\* The cached text, what has been passed on of it and the state of the
\* interceptor keep their types, and the interceptor knows the length of what it
\* holds back, for every vocabulary and every list of tags.
THEOREM TypesHold == Spec => []TypeOK
<1>. QED BY TypesInit, TypesNext, PTL DEF Spec

-----------------------------------------------------------------------------
(* The text that is held back. *)

LEMMA RestInit == Init => RestIsNext /\ RestIsHeld
<1>. SUFFICES ASSUME Init PROVE RestIsNext /\ RestIsHeld
  OBVIOUS
<1>1. Len(<<>>) = 0
  OBVIOUS
<1>2. pc = "idle" /\ token_cache = <<>> /\ print_len = 0 /\ passed = <<>>
  BY DEF Init
<1>3. is_first = TRUE
  BY DEF Init
<1>4. RestIsNext
  BY <1>2, <1>3 DEF RestIsNext
<1>5. RestIsHeld
  BY <1>1, <1>2 DEF RestIsHeld
<1>. QED BY <1>4, <1>5

LEMMA RestNext ==
    TypeOK /\ TypeOK' /\ RestIsNext /\ RestIsHeld /\ [Next]_vars
        => (RestIsNext /\ RestIsHeld)'
<1>. SUFFICES ASSUME TypeOK, TypeOK', RestIsNext, RestIsHeld, [Next]_vars
              PROVE  (RestIsNext /\ RestIsHeld)'
  OBVIOUS
<1>1. Len(<<>>) = 0 /\ <<>> \o SubSeq(<<>>, 0 + 1, 0) = <<>>
  OBVIOUS
<1>2. /\ passed \in Seq(Bytes) /\ text \in Seq(Bytes) /\ is_first \in BOOLEAN
  BY TypesSay
<1>3. ASSUME NewTurn, UNCHANGED <<token_cache, print_len, is_first>>, text' = <<>>, passed' = <<>>
      PROVE  (RestIsNext /\ RestIsHeld)'
  <2>1. /\ pc' = "streaming" /\ token_cache' = <<>> /\ print_len' = 0
    BY <1>3 DEF NewTurn, RestIsNext
  <2>2. is_first'
    BY <1>3 DEF NewTurn, RestIsNext
  <2>3. RestIsNext'
    BY <1>1, <1>3, <2>1, <2>2 DEF RestIsNext
  <2>4. RestIsHeld'
    BY <1>1, <2>1 DEF RestIsHeld
  <2>. QED BY <2>3, <2>4
<1>4. CASE Begin
  BY <1>3, <1>4 DEF Begin
<1>5. ASSUME NEW e \in Externals, NEW first \in BOOLEAN, BeginWith(e, first)
      PROVE  (RestIsNext /\ RestIsHeld)'
  BY <1>3, <1>5 DEF BeginWith
<1>6. ASSUME NEW token \in Token, Put(token)
      PROVE  (RestIsNext /\ RestIsHeld)'
  <2>. DEFINE s == token_cache \o token
              e == EndIn(s, print_len)
              chunk == SubSeq(s, print_len + 1, e)
              more == SubSeq(s, e + 1, Len(s))
              rest == SubSeq(token_cache, print_len + 1, Len(token_cache))
  <2>1. /\ s \in Seq(Bytes) /\ Len(s) = Len(token_cache) + Len(token) /\ Len(s) > 0
        /\ print_len \in 0 .. Len(s) /\ e \in print_len .. Len(s)
        /\ chunk \in Seq(Bytes) /\ more \in Seq(Bytes)
        /\ Len(chunk) = e - print_len /\ Len(more) = Len(s) - e
        /\ rest \in Seq(Bytes) /\ rest \o token = chunk \o more
    BY TokenCuts
  <2>2. /\ PassOn(chunk)
        /\ is_first' = (is_first /\ e = print_len)
        /\ text' = text \o token /\ pc = "streaming"
        /\ EndsLine(s) => token_cache' = <<>> /\ print_len' = 0
        /\ ~EndsLine(s) => token_cache' = s /\ print_len' = e
    BY <1>6, PutIs
  <2>5. EndsLine(s) => e = Len(s)
    BY DEF EndIn
  <2>6. ~EndsLine(s) => \A m \in e + 1 .. Len(s) : ~Whole(SubSeq(s, e + 1, m))
    <3>. SUFFICES ASSUME ~EndsLine(s)
                  PROVE  \A m \in e + 1 .. Len(s) : ~Whole(SubSeq(s, e + 1, m))
      OBVIOUS
    <3>1. e = EndOfValid(s, print_len)
      BY DEF EndIn
    <3>. HIDE DEF s, e
    <3>. QED BY <2>1, <3>1, NothingWholeBehind
  <2>7. text = passed \o rest /\ (is_first <=> passed = <<>>)
    BY <2>2 DEF RestIsNext
  <2>8. /\ EndsLine(s) => RestIsHeld'
        /\ ~EndsLine(s) => RestIsHeld'
    <3>. HIDE DEF s, e
    <3>. QED BY <1>1, <2>2, <2>6 DEF RestIsHeld
  <2>9. token \in Seq(Bytes)
    BY TokenIs
  <2>10. more = SubSeq(token_cache', print_len' + 1, Len(token_cache'))
    <3>1. CASE EndsLine(s)
      <4>1. Len(more) = 0
        BY <2>1, <2>5, <3>1
      <4>2. more = <<>>
        <5>. HIDE DEF more
        <5>. QED BY <2>1, <4>1
      <4>3. SubSeq(<<>>, 0 + 1, 0) = <<>>
        OBVIOUS
      <4>. HIDE DEF s, e, more
      <4>. QED BY <1>1, <2>2, <3>1, <4>2, <4>3
    <3>2. CASE ~EndsLine(s)
      <4>. HIDE DEF s, e
      <4>. QED BY <2>2, <3>2
    <3>. QED BY <3>1, <3>2
  <2>11. passed' = passed \o chunk
    BY <2>2 DEF PassOn
  <2>12. chunk = <<>> <=> e = print_len
    <3>. HIDE DEF s, e, chunk
    <3>. QED BY <2>1
  <2>. HIDE DEF s, e, chunk, more, rest
  <2>13. text' = passed' \o more
    <3>0. /\ passed \in Seq(Bytes) /\ rest \in Seq(Bytes) /\ chunk \in Seq(Bytes)
          /\ more \in Seq(Bytes)
      BY <1>2, <2>1
    <3>1. text' = passed \o (rest \o token)
      <4>1. (passed \o rest) \o token = passed \o (rest \o token)
        BY ONLY <3>0, <2>9, JoinsAssociate
      <4>. QED BY <2>2, <2>7, <4>1
    <3>2. (passed \o chunk) \o more = passed \o (chunk \o more)
      BY ONLY <3>0, JoinsAssociate
    <3>. QED BY <2>1, <2>11, <3>1, <3>2
  <2>14. passed' = <<>> <=> passed = <<>> /\ chunk = <<>>
    BY <1>2, <2>1, <2>11
  <2>15. is_first' <=> passed' = <<>>
    BY <2>2, <2>7, <2>12, <2>14
  <2>16. pc' = "streaming"
    BY <1>6, <2>2 DEF Put
  <2>17. RestIsNext'
    BY <2>10, <2>13, <2>15, <2>16 DEF RestIsNext
  <2>. QED BY <2>8, <2>17
<1>7. CASE Retry
  <2>1. UNCHANGED <<pc, token_cache, print_len, is_first, text, passed>>
    BY <1>7 DEF Retry
  <2>. QED BY <2>1 DEF RestIsNext, RestIsHeld
<1>8. CASE End
  <2>1. pc' = "idle" /\ token_cache' = <<>> /\ print_len' = 0 /\ passed' = passed \o Flush
    BY <1>8 DEF End, PassOn
  <2>2. is_first' = TRUE
    BY <1>8 DEF End
  <2>3. passed' = passed
    BY <1>2, <2>1, NothingIsFlushed, WholePart
  <2>4. RestIsNext'
    BY <2>1, <2>2 DEF RestIsNext
  <2>5. RestIsHeld'
    BY <1>1, <2>1 DEF RestIsHeld
  <2>. QED BY <2>4, <2>5
<1>9. CASE UNCHANGED vars
  BY <1>9 DEF vars, RestIsNext, RestIsHeld
<1>. QED BY <1>4, <1>5, <1>6, <1>7, <1>8, <1>9 DEF Next

-----------------------------------------------------------------------------
(* Characters are passed on whole. *)

LEMMA PrefixOfJoined ==
    ASSUME NEW S, NEW s \in Seq(S), NEW t \in Seq(S)
    PROVE  IsPrefix(s, s \o t)
<1>1. s \o t \in Seq(S) /\ Len(s) <= Len(s \o t) /\ \A k \in 1 .. Len(s) : s[k] = (s \o t)[k]
  BY Joined
<1>. QED BY <1>1, PrefixSays

LEMMA CharactersInit == Init => CharactersAreWhole
<1>. SUFFICES ASSUME Init PROVE CharactersAreWhole
  OBVIOUS
<1>1. text = <<>> /\ passed = <<>> /\ Len(<<>>) = 0 /\ <<>> \in Seq(Bytes)
  BY DEF Init
<1>2. IsPrefix(<<>>, <<>>)
  BY DEF IsPrefix
<1>. QED BY <1>1, <1>2, NothingIsWhole DEF CharactersAreWhole

LEMMA CharactersNext ==
    TypeOK /\ TypeOK' /\ RestIsNext /\ RestIsNext' /\ RestIsHeld
           /\ CharactersAreWhole /\ [Next]_vars
        => CharactersAreWhole'
<1>. SUFFICES ASSUME TypeOK, TypeOK', RestIsNext, RestIsNext', RestIsHeld,
                     CharactersAreWhole, [Next]_vars
              PROVE  CharactersAreWhole'
  OBVIOUS
<1>. DEFINE B == Bytes \cup {Trail}
<1>0. Trail \in B /\ \A u \in Seq(Bytes) : u \in Seq(B)
  BY MoreElements
<1>1. /\ passed \in Seq(Bytes) /\ text \in Seq(Bytes)
      /\ passed' \in Seq(Bytes) /\ text' \in Seq(Bytes)
  <2>1. passed \in Seq(Bytes) /\ text \in Seq(Bytes)
    BY TypesSay
  <2>2. passed' \in Seq(Bytes) /\ text' \in Seq(Bytes)
    BY DEF TypeOK
  <2>. QED BY <2>1, <2>2
<1>. HIDE DEF B
<1>2. ASSUME text' = <<>>, passed' = <<>> PROVE CharactersAreWhole'
  <2>1. IsPrefix(<<>>, <<>>) /\ Len(<<>>) = 0
    BY DEF IsPrefix
  <2>. QED BY <1>2, <2>1, NothingIsWhole DEF CharactersAreWhole
<1>3. ASSUME text' = text, passed' = passed PROVE CharactersAreWhole'
  BY <1>3 DEF CharactersAreWhole
<1>4. CASE Begin
  BY <1>2, <1>4 DEF Begin
<1>5. ASSUME NEW e \in Externals, NEW first \in BOOLEAN, BeginWith(e, first)
      PROVE  CharactersAreWhole'
  BY <1>2, <1>5 DEF BeginWith
<1>6. ASSUME NEW token \in Token, Put(token) PROVE CharactersAreWhole'
  <2>. DEFINE s == token_cache \o token
              e == EndIn(s, print_len)
              chunk == SubSeq(s, print_len + 1, e)
              more == SubSeq(s, e + 1, Len(s))
              rest == SubSeq(token_cache, print_len + 1, Len(token_cache))
  <2>1. /\ s \in Seq(Bytes) /\ Len(s) = Len(token_cache) + Len(token) /\ Len(s) > 0
        /\ print_len \in 0 .. Len(s) /\ e \in print_len .. Len(s)
        /\ chunk \in Seq(Bytes) /\ more \in Seq(Bytes)
        /\ Len(chunk) = e - print_len /\ Len(more) = Len(s) - e
        /\ rest \in Seq(Bytes) /\ rest \o token = chunk \o more
    BY TokenCuts
  <2>2. /\ PassOn(chunk)
        /\ text' = text \o token /\ pc = "streaming"
    BY <1>6, PutIs
  <2>3. token \in Seq(Bytes) /\ Len(token) > 0 /\ Len(token) \in Nat
    BY TokenIs
  <2>4. text = passed \o rest
    BY <2>2 DEF RestIsNext
  <2>5. EndsLine(s) => e = Len(s) /\ s[Len(s)] = "\n"
    BY DEF EndIn, EndsLine
  <2>6. ~EndsLine(s) => /\ Whole(chunk)
                        /\ \A m \in e + 1 .. Len(s) : ~Whole(SubSeq(s, print_len + 1, m))
    <3>. SUFFICES ASSUME ~EndsLine(s)
                  PROVE  /\ Whole(chunk)
                         /\ \A m \in e + 1 .. Len(s) : ~Whole(SubSeq(s, print_len + 1, m))
      OBVIOUS
    <3>1. e = EndOfValid(s, print_len)
      BY DEF EndIn
    <3>. HIDE DEF s, e
    <3>. QED BY <2>1, <3>1, EndOfValidIs
  <2>. DEFINE u == SubSeq(s, print_len + 1, Len(s))
  <2>7. /\ u \in Seq(Bytes) /\ Len(u) = Len(s) - print_len /\ u = chunk \o more
        /\ \A i \in 1 .. Len(s) - print_len : u[i] = s[print_len + i]
    <3>. HIDE DEF s, e
    <3>1. /\ print_len + 1 \in 1 .. Len(s) + 1 /\ Len(s) \in (print_len + 1) - 1 .. Len(s)
          /\ e \in (print_len + 1) - 1 .. Len(s) /\ Len(s) \in e .. Len(s)
          /\ Len(s) - (print_len + 1) + 1 = Len(s) - print_len
          /\ \A i \in 1 .. Len(s) - print_len : (print_len + 1) + i - 1 = print_len + i
      BY <2>1
    <3>2. /\ u \in Seq(Bytes) /\ Len(u) = Len(s) - (print_len + 1) + 1
          /\ \A i \in 1 .. Len(s) - (print_len + 1) + 1 : u[i] = s[(print_len + 1) + i - 1]
      BY <2>1, <3>1, Part
    <3>3. u = chunk \o more
      BY <2>1, <3>1, CutJoins
    <3>. HIDE DEF u
    <3>. QED BY <3>1, <3>2, <3>3
  <2>8. Len(s) > print_len
    <3>. HIDE DEF s
    <3>1. token_cache \in Seq(Bytes) /\ print_len \in 0 .. Len(token_cache)
      BY DEF TypeOK
    <3>. QED BY <2>1, <2>3, <3>1
  <2>9. ASSUME NEW n \in print_len .. Len(s) - 1
        PROVE  SubSeq(u, 1, n - print_len) = SubSeq(s, print_len + 1, n)
    <3>. HIDE DEF s, u
    <3>. DEFINE a == SubSeq(u, 1, n - print_len)
                b == SubSeq(s, print_len + 1, n)
    <3>1. /\ 1 \in 1 .. Len(u) + 1 /\ n - print_len \in 1 - 1 .. Len(u)
          /\ print_len + 1 \in 1 .. Len(s) + 1 /\ n \in (print_len + 1) - 1 .. Len(s)
          /\ (n - print_len) - 1 + 1 = n - print_len /\ n - (print_len + 1) + 1 = n - print_len
      BY <2>1, <2>7
    <3>2. /\ a \in Seq(Bytes) /\ Len(a) = (n - print_len) - 1 + 1
          /\ \A i \in 1 .. (n - print_len) - 1 + 1 : a[i] = u[1 + i - 1]
      <4>1. u \in Seq(Bytes)
        BY <2>7
      <4>. QED BY ONLY <3>1, <4>1, Part DEF a
    <3>3. /\ b \in Seq(Bytes) /\ Len(b) = n - (print_len + 1) + 1
          /\ \A i \in 1 .. n - (print_len + 1) + 1 : b[i] = s[(print_len + 1) + i - 1]
      BY <2>1, <3>1, Part
    <3>. HIDE DEF a, b
    <3>4. \A i \in 1 .. n - print_len : /\ 1 + i - 1 \in 1 .. Len(s) - print_len
                                        /\ (print_len + 1) + i - 1 = print_len + (1 + i - 1)
      BY <2>1
    <3>5. \A i \in 1 .. n - print_len : a[i] = b[i]
      BY <2>7, <3>1, <3>2, <3>3, <3>4
    <3>6. Len(a) = n - print_len /\ Len(b) = n - print_len
      BY <3>1, <3>2, <3>3
    <3>7. a = b
      BY <3>2, <3>3, <3>5, <3>6, SameSeq
    <3>. QED BY <3>7 DEF a, b
  <2>10. u[Len(u)] = s[Len(s)] /\ Len(u) > 0
    <3>. HIDE DEF s, u
    <3>1. Len(u) \in 1 .. Len(s) - print_len /\ print_len + Len(u) = Len(s)
      BY <2>1, <2>7, <2>8
    <3>2. u[Len(u)] = s[print_len + Len(u)]
      BY <2>7, <3>1
    <3>3. Len(u) > 0
      BY <2>1, <3>1
    <3>. QED BY <3>1, <3>2, <3>3
  <2>11. passed' = passed \o chunk
    BY <2>2 DEF PassOn
  <2>. HIDE DEF s, e, chunk, more, rest, u
  <2>12. /\ passed \in Seq(B) /\ chunk \in Seq(B) /\ more \in Seq(B) /\ u \in Seq(B)
         /\ text \in Seq(B) /\ token \in Seq(B)
    BY <1>0, <1>1, <2>1, <2>3, <2>7
  <2>13. text' = passed \o u /\ text' = passed' \o more
    <3>0. /\ passed \in Seq(Bytes) /\ rest \in Seq(Bytes) /\ chunk \in Seq(Bytes)
          /\ more \in Seq(Bytes)
      BY <1>1, <2>1
    <3>1. (passed \o rest) \o token = passed \o (rest \o token)
      BY ONLY <3>0, <2>3, JoinsAssociate
    <3>2. (passed \o chunk) \o more = passed \o (chunk \o more)
      BY ONLY <3>0, JoinsAssociate
    <3>. QED BY <2>1, <2>2, <2>4, <2>7, <2>11, <3>1, <3>2
  <2>14. SUFFICES ASSUME AlmostWhole(text')
                  PROVE  /\ Whole(passed') /\ IsPrefix(passed', text')
                         /\ Len(text') - Len(passed') <= 1
    BY DEF CharactersAreWhole, AlmostWhole
  <2>15. AlmostWhole(text)
    BY <1>0, <2>2, <2>12, <2>14, BeginningOfAlmostWhole
  <2>16. Whole(passed)
    BY <2>15 DEF CharactersAreWhole, AlmostWhole
  <2>17. AlmostWhole(u)
    BY <1>0, <2>12, <2>13, <2>14, <2>16, RestIsAlmostWhole
  <2>18. ~Whole(u) => /\ u[Len(u)] = Lead
                      /\ Whole(SubSeq(u, 1, Len(u) - 1))
    BY <1>0, <2>12, <2>17, AlmostWholeEnds
  <2>19. Whole(chunk) /\ Len(more) <= 1
    <3>1. CASE EndsLine(s)
      <4>1. Whole(u)
        BY <2>5, <2>10, <2>18, <3>1, TextsAssumption
      <4>2. Len(more) = 0
        BY <2>1, <2>5, <3>1
      <4>3. u = chunk
        <5>1. more = <<>>
          BY <2>1, <4>2
        <5>. QED BY <2>1, <2>7, <5>1
      <4>. QED BY <4>1, <4>2, <4>3
    <3>2. CASE ~EndsLine(s) /\ Whole(u)
      <4>1. Len(s) \notin e + 1 .. Len(s)
        BY <2>6, <3>2 DEF u
      <4>2. e = Len(s)
        BY <2>1, <4>1
      <4>. QED BY <2>1, <2>6, <3>2, <4>2
    <3>3. CASE ~EndsLine(s) /\ ~Whole(u)
      <4>. DEFINE n == Len(s) - 1
      <4>1. n \in print_len .. Len(s) - 1 /\ n - print_len = Len(u) - 1 /\ n \in Nat
        BY <2>1, <2>7, <2>8
      <4>2. Whole(SubSeq(s, print_len + 1, n))
        BY <2>9, <2>18, <3>3, <4>1
      <4>3. n \notin e + 1 .. Len(s)
        BY <2>6, <3>3, <4>2
      <4>4. Len(s) - e <= 1
        BY <2>1, <4>1, <4>3
      <4>. QED BY <2>1, <2>6, <3>3, <4>4
    <3>. QED BY <3>1, <3>2, <3>3
  <2>20. Whole(passed')
    BY <2>11, <2>12, <2>16, <2>19, WholesJoin
  <2>21. IsPrefix(passed', text')
    BY <1>1, <2>1, <2>13, PrefixOfJoined
  <2>22. Len(text') = Len(passed') + Len(more) /\ Len(more) \in Nat /\ Len(passed') \in Nat
    <3>1. passed' \in Seq(Bytes) /\ more \in Seq(Bytes)
      BY <1>1, <2>1
    <3>2. Len(passed' \o more) = Len(passed') + Len(more)
      BY ONLY <3>1, Joined
    <3>. QED BY <2>13, <3>1, <3>2
  <2>. QED BY <2>19, <2>20, <2>21, <2>22
<1>7. CASE Retry
  BY <1>3, <1>7 DEF Retry
<1>8. CASE End
  <2>1. passed' = passed \o Flush /\ text' = text
    BY <1>8 DEF End, PassOn
  <2>2. passed' = passed
    BY <1>1, <2>1, NothingIsFlushed, WholePart
  <2>. QED BY <1>3, <2>1, <2>2
<1>9. CASE UNCHANGED vars
  BY <1>3, <1>9 DEF vars
<1>. QED BY <1>4, <1>5, <1>6, <1>7, <1>8, <1>9 DEF Next

LEMMA RestHolds == Spec => [](RestIsNext /\ RestIsHeld)
<1>. QED BY RestInit, RestNext, TypesHold, PTL DEF Spec

\* Wherever the tokens and the newlines cut the characters of a text, what
\* BaseStreamer has passed on are whole characters, all of the text but one that
\* has only begun, in order and each once.
THEOREM CharactersStayWhole == Spec => []CharactersAreWhole
<1>. QED BY CharactersInit, CharactersNext, RestHolds, TypesHold, PTL DEF Spec

-----------------------------------------------------------------------------
(* The text without the spaces it begins with and the tags, when text is added. *)

LEMMA BegunHead ==
    ASSUME NEW S, NEW p \in Seq(S), \E i \in 1 .. Len(p) : IsInk(p[i])
    PROVE  \E m \in 1 .. Len(p) :
               /\ Begun(p) = SubSeq(p, m, Len(p)) /\ IsInk(p[m])
               /\ \A i \in 1 .. m - 1 : ~IsInk(p[i])
<1>. DEFINE Ink == {i \in DOMAIN p : IsInk(p[i])}
<1>0. DOMAIN p = 1 .. Len(p) /\ Len(p) \in Nat
  BY ONLY p \in Seq(S)
<1>1. \A i : i \in Ink <=> i \in 1 .. Len(p) /\ IsInk(p[i])
  BY ONLY <1>0
<1>2. Ink # {} /\ Ink \in SUBSET Nat
  <2>1. PICK i \in 1 .. Len(p) : IsInk(p[i])
    OBVIOUS
  <2>2. Ink # {}
    BY <1>1, <2>1
  <2>3. \A x \in Ink : x \in 1 .. Len(p)
    BY <1>1
  <2>. HIDE DEF Ink
  <2>4. Ink \in SUBSET Nat
    BY ONLY <1>0, <2>3
  <2>. QED BY <2>2, <2>4
<1>3. Begun(p) = SubSeq(p, Min(Ink), Len(p))
  BY <1>2 DEF Begun, IsInk
<1>. HIDE DEF Ink
<1>4. Min(Ink) \in Ink /\ \A i \in Ink : Min(Ink) <= i
  BY <1>2, MinIs
<1>5. Min(Ink) \in 1 .. Len(p) /\ IsInk(p[Min(Ink)])
  BY <1>1, <1>4
<1>6. ASSUME NEW i \in 1 .. Min(Ink) - 1 PROVE ~IsInk(p[i])
  <2>1. i \in 1 .. Len(p) /\ ~(Min(Ink) <= i)
    BY ONLY <1>0, <1>5, <1>6
  <2>. QED BY <1>1, <1>4, <2>1
<1>. QED BY <1>3, <1>5, <1>6

\* Nothing is left of spaces only, and something of any other text.
LEMMA BegunSays ==
    ASSUME NEW S, NEW p \in Seq(S)
    PROVE  /\ Begun(p) \in Seq(S)
           /\ Begun(p) # <<>> <=> \E i \in 1 .. Len(p) : IsInk(p[i])
<1>1. CASE \E i \in 1 .. Len(p) : IsInk(p[i])
  <2>1. PICK m \in 1 .. Len(p) : Begun(p) = SubSeq(p, m, Len(p))
    BY <1>1, BegunHead
  <2>2. m \in 1 .. Len(p) + 1 /\ Len(p) \in m - 1 .. Len(p)
    OBVIOUS
  <2>3. SubSeq(p, m, Len(p)) \in Seq(S) /\ Len(SubSeq(p, m, Len(p))) = Len(p) - m + 1
    BY <2>2, Part
  <2>4. Len(p) - m + 1 # 0 /\ Len(<<>>) = 0
    OBVIOUS
  <2>5. Begun(p) # <<>>
    BY <2>1, <2>3, <2>4
  <2>. QED BY <1>1, <2>1, <2>3, <2>5
<1>2. CASE ~(\E i \in 1 .. Len(p) : IsInk(p[i]))
  <2>0. DOMAIN p = 1 .. Len(p)
    OBVIOUS
  <2>1. {i \in DOMAIN p : IsInk(p[i])} = {}
    BY <1>2, <2>0
  <2>2. Begun(p) = <<>>
    BY <2>1 DEF Begun, IsInk
  <2>. QED BY <1>2, <2>2
<1>. QED BY <1>1, <1>2

\* More text comes behind what is left.
LEMMA BegunGrows ==
    ASSUME NEW p \in Seq(STRING), NEW c \in Seq(STRING), Begun(p) # <<>>
    PROVE  Begun(p \o c) = Begun(p) \o c
<1>. DEFINE q == p \o c
<1>0. Len(p) \in Nat /\ \E i \in 1 .. Len(p) : IsInk(p[i])
  BY BegunSays
<1>1. PICK m \in 1 .. Len(p) :
          /\ Begun(p) = SubSeq(p, m, Len(p)) /\ IsInk(p[m])
          /\ \A i \in 1 .. m - 1 : ~IsInk(p[i])
  BY <1>0, BegunHead
<1>2. /\ q \in Seq(STRING) /\ Len(q) = Len(p) + Len(c) /\ Len(c) \in Nat
      /\ \A i \in 1 .. Len(p) : q[i] = p[i]
  BY Joined
<1>3. SubSeq(q, m, Len(q)) = SubSeq(p, m, Len(p)) \o c
  <2>1. m \in 1 .. Len(p) + 1
    BY <1>0
  <2>. QED BY <2>1, TailJoins
<1>. HIDE DEF q
<1>4. m \in 1 .. Len(q) /\ IsInk(q[m]) /\ \A i \in 1 .. m - 1 : ~IsInk(q[i])
  <2>1. \A i \in 1 .. m - 1 : i \in 1 .. Len(p)
    BY <1>0
  <2>2. m \in 1 .. Len(q)
    BY <1>0, <1>2
  <2>. QED BY <1>1, <1>2, <2>1, <2>2
<1>5. PICK k \in 1 .. Len(q) :
          /\ Begun(q) = SubSeq(q, k, Len(q)) /\ IsInk(q[k])
          /\ \A i \in 1 .. k - 1 : ~IsInk(q[i])
  BY <1>2, <1>4, BegunHead
<1>6. k = m
  <2>1. ~(m < k)
    <3>1. m < k => m \in 1 .. k - 1
      BY <1>0, <1>2
    <3>. QED BY <1>4, <1>5, <3>1
  <2>2. ~(k < m)
    <3>1. k < m => k \in 1 .. m - 1
      BY <1>0, <1>2
    <3>. QED BY <1>4, <1>5, <3>1
  <2>. QED BY <1>0, <1>2, <2>1, <2>2
<1>. QED BY <1>1, <1>3, <1>5, <1>6 DEF q

\* More text changes nothing of what is taken away, even where it is all.
LEMMA BegunAgain ==
    ASSUME NEW p \in Seq(STRING), NEW c \in Seq(STRING)
    PROVE  Begun(Begun(p) \o c) = Begun(p \o c)
<1>0. Len(p) \in Nat /\ Len(c) \in Nat
  OBVIOUS
<1>1. CASE Begun(p) # <<>>
  <2>1. \E i \in 1 .. Len(p) : IsInk(p[i])
    BY <1>1, BegunSays
  <2>2. PICK m \in 1 .. Len(p) : Begun(p) = SubSeq(p, m, Len(p)) /\ IsInk(p[m])
    BY <2>1, BegunHead
  <2>. DEFINE x == SubSeq(p, m, Len(p))
  <2>3. m \in 1 .. Len(p) + 1 /\ Len(p) \in m - 1 .. Len(p) /\ 1 \in 1 .. Len(p) - m + 1
        /\ m + 1 - 1 = m
    BY <1>0
  <2>4. x \in Seq(STRING) /\ Len(x) = Len(p) - m + 1
        /\ \A i \in 1 .. Len(p) - m + 1 : x[i] = p[m + i - 1]
    BY <2>3, Part
  <2>. HIDE DEF x
  <2>5. x[1] = p[m]
    BY <2>3, <2>4
  <2>6. 1 \in 1 .. Len(x) /\ IsInk(x[1])
    BY <2>2, <2>3, <2>4, <2>5
  <2>7. PICK k \in 1 .. Len(x) :
            /\ Begun(x) = SubSeq(x, k, Len(x))
            /\ \A i \in 1 .. k - 1 : ~IsInk(x[i])
    BY <2>4, <2>6, BegunHead
  <2>8. k = 1
    <3>1. 1 < k => 1 \in 1 .. k - 1
      OBVIOUS
    <3>2. ~(1 < k)
      BY <2>6, <2>7, <3>1
    <3>. QED BY <2>4, <3>2
  <2>9. Begun(x) = x
    BY <2>4, <2>7, <2>8, WholePart
  <2>10. x = Begun(p)
    BY <2>2 DEF x
  <2>11. Begun(x \o c) = x \o c
    <3>1. x \in Seq(STRING) /\ Begun(x) # <<>>
      BY <1>1, <2>4, <2>9, <2>10
    <3>2. Begun(x \o c) = Begun(x) \o c
      BY <3>1, BegunGrows
    <3>. QED BY <2>9, <3>2
  <2>12. Begun(p \o c) = Begun(p) \o c
    BY <1>1, BegunGrows
  <2>. QED BY <2>10, <2>11, <2>12
<1>2. CASE Begun(p) = <<>>
  <2>1. \A i \in 1 .. Len(p) : ~IsInk(p[i])
    BY <1>2, BegunSays
  <2>2. <<>> \o c = c
    BY WholePart
  <2>3. Begun(p \o c) = Begun(c)
    <3>. DEFINE q == p \o c
    <3>0. /\ q \in Seq(STRING) /\ Len(q) = Len(p) + Len(c)
          /\ \A i \in 1 .. Len(p) : q[i] = p[i]
          /\ \A i \in 1 .. Len(c) : q[Len(p) + i] = c[i]
      BY Joined
    <3>. HIDE DEF q
    <3>1. CASE \E i \in 1 .. Len(c) : IsInk(c[i])
      <4>1. PICK m \in 1 .. Len(c) :
                /\ Begun(c) = SubSeq(c, m, Len(c)) /\ IsInk(c[m])
                /\ \A i \in 1 .. m - 1 : ~IsInk(c[i])
        BY <3>1, BegunHead
      <4>2. Len(p) + m \in 1 .. Len(q) /\ IsInk(q[Len(p) + m])
        BY <1>0, <3>0, <4>1
      <4>3. PICK k \in 1 .. Len(q) :
                /\ Begun(q) = SubSeq(q, k, Len(q)) /\ IsInk(q[k])
                /\ \A i \in 1 .. k - 1 : ~IsInk(q[i])
        BY <3>0, <4>2, BegunHead
      <4>4. ~(k <= Len(p))
        <5>1. k <= Len(p) => k \in 1 .. Len(p)
          BY <1>0, <3>0
        <5>. QED BY <2>1, <3>0, <4>3, <5>1
      <4>5. PICK j \in 1 .. Len(c) : k = Len(p) + j
        <5>1. k - Len(p) \in 1 .. Len(c) /\ k = Len(p) + (k - Len(p))
          BY <1>0, <3>0, <4>4
        <5>. QED BY <5>1
      <4>6. IsInk(c[j])
        BY <3>0, <4>3, <4>5
      <4>7. ~(j < m)
        <5>1. j < m => j \in 1 .. m - 1
          BY <1>0
        <5>. QED BY <4>1, <4>6, <5>1
      <4>8. ~(m < j)
        <5>1. m < j => Len(p) + m \in 1 .. k - 1
          BY <1>0, <4>5
        <5>. QED BY <4>2, <4>3, <5>1
      <4>9. k = Len(p) + m
        BY <1>0, <4>5, <4>7, <4>8
      <4>10. SubSeq(q, Len(p) + m, Len(q)) = SubSeq(c, m, Len(c))
        <5>. DEFINE l == SubSeq(q, Len(p) + m, Len(q))
                    h == SubSeq(c, m, Len(c))
        <5>1. /\ Len(p) + m \in 1 .. Len(q) + 1 /\ Len(q) \in (Len(p) + m) - 1 .. Len(q)
              /\ m \in 1 .. Len(c) + 1 /\ Len(c) \in m - 1 .. Len(c)
          BY <1>0, <3>0
        <5>2. /\ l \in Seq(STRING) /\ Len(l) = Len(q) - (Len(p) + m) + 1
              /\ \A i \in 1 .. Len(q) - (Len(p) + m) + 1 : l[i] = q[Len(p) + m + i - 1]
          BY ONLY <3>0, <5>1, Part
        <5>3. /\ h \in Seq(STRING) /\ Len(h) = Len(c) - m + 1
              /\ \A i \in 1 .. Len(c) - m + 1 : h[i] = c[m + i - 1]
          BY ONLY c \in Seq(STRING), <5>1, Part
        <5>. HIDE DEF l, h
        <5>4. Len(l) = Len(h)
          BY <1>0, <3>0, <5>2, <5>3
        <5>5. ASSUME NEW i \in 1 .. Len(l) PROVE l[i] = h[i]
          <6>1. /\ i \in 1 .. Len(q) - (Len(p) + m) + 1 /\ i \in 1 .. Len(c) - m + 1
                /\ m + i - 1 \in 1 .. Len(c) /\ Len(p) + m + i - 1 = Len(p) + (m + i - 1)
            BY <1>0, <3>0, <5>2
          <6>. QED BY <3>0, <5>2, <5>3, <6>1
        <5>. QED BY <5>2, <5>3, <5>4, <5>5, SameSeq DEF l, h
      <4>. QED BY <4>1, <4>3, <4>9, <4>10 DEF q
    <3>2. CASE ~(\E i \in 1 .. Len(c) : IsInk(c[i]))
      <4>1. ASSUME NEW i \in 1 .. Len(q) PROVE ~IsInk(q[i])
        <5>1. CASE i <= Len(p)
          <6>1. i \in 1 .. Len(p)
            BY <1>0, <5>1
          <6>. QED BY <2>1, <3>0, <6>1
        <5>2. CASE ~(i <= Len(p))
          <6>1. i - Len(p) \in 1 .. Len(c) /\ i = Len(p) + (i - Len(p))
            BY <1>0, <3>0, <5>2
          <6>. QED BY <3>0, <3>2, <6>1
        <5>. QED BY <5>1, <5>2
      <4>2. Begun(q) = <<>> /\ Begun(c) = <<>>
        BY <3>0, <3>2, <4>1, BegunSays
      <4>. QED BY <4>2 DEF q
    <3>. QED BY <3>1, <3>2
  <2>. QED BY <1>2, <2>2, <2>3
<1>. QED BY <1>1, <1>2

\* trim does no more where the text ends in another byte, or nothing is left.
LEMMA BegunIsTrimmed ==
    ASSUME NEW s \in Seq(STRING), Inked(s) \/ Trimmed(s) = <<>>
    PROVE  Trimmed(s) = Begun(s)
<1>0. Len(s) \in Nat /\ DOMAIN s = 1 .. Len(s)
  BY ONLY s \in Seq(STRING)
<1>1. CASE \E i \in 1 .. Len(s) : IsInk(s[i])
  <2>1. PICK m \in 1 .. Len(s) : \E n \in m .. Len(s) :
            /\ Trimmed(s) = SubSeq(s, m, n) /\ IsInk(s[m])
            /\ \A i \in 1 .. Len(s) : IsInk(s[i]) => m <= i /\ i <= n
    BY <1>0, <1>1, InkOf
  <2>2. PICK n \in m .. Len(s) :
            /\ Trimmed(s) = SubSeq(s, m, n) /\ IsInk(s[m])
            /\ \A i \in 1 .. Len(s) : IsInk(s[i]) => m <= i /\ i <= n
    BY <2>1
  <2>3. Trimmed(s) # <<>>
    <3>1. m \in 1 .. Len(s) + 1 /\ n \in m - 1 .. Len(s)
      BY ONLY <1>0, m \in 1 .. Len(s), n \in m .. Len(s)
    <3>2. Len(SubSeq(s, m, n)) = n - m + 1
      BY <3>1, Part
    <3>3. n - m + 1 # 0 /\ Len(<<>>) = 0
      BY ONLY <1>0, m \in 1 .. Len(s), n \in m .. Len(s)
    <3>. QED BY <2>2, <3>2, <3>3
  <2>4. IsInk(s[Len(s)])
    BY <2>3 DEF Inked
  <2>5. n = Len(s)
    <3>1. Len(s) \in 1 .. Len(s)
      BY ONLY <1>0, m \in 1 .. Len(s)
    <3>2. Len(s) <= n
      BY <2>2, <2>4, <3>1
    <3>3. Len(s) \in Nat
      BY <1>0
    <3>. QED BY ONLY <3>2, <3>3, n \in m .. Len(s), m \in 1 .. Len(s)
  <2>6. PICK k \in 1 .. Len(s) :
            /\ Begun(s) = SubSeq(s, k, Len(s)) /\ IsInk(s[k])
            /\ \A i \in 1 .. k - 1 : ~IsInk(s[i])
    BY <1>0, <1>1, BegunHead
  <2>7. m = k
    <3>1. m <= k
      BY <2>2, <2>6
    <3>2. ~(m < k)
      <4>1. m < k => m \in 1 .. k - 1
        BY ONLY <1>0, m \in 1 .. Len(s), k \in 1 .. Len(s)
      <4>. QED BY <2>2, <2>6, <4>1
    <3>. QED BY ONLY <1>0, <3>1, <3>2, m \in 1 .. Len(s), k \in 1 .. Len(s)
  <2>. QED BY <2>2, <2>5, <2>6, <2>7
<1>2. CASE ~(\E i \in 1 .. Len(s) : IsInk(s[i]))
  <2>1. Begun(s) = <<>>
    BY <1>0, <1>2, BegunSays
  <2>2. Trimmed(s) = <<>>
    <3>1. {i \in DOMAIN s : IsInk(s[i])} = {}
      BY <1>0, <1>2
    <3>. QED BY <3>1 DEF Trimmed, IsInk
  <2>. QED BY <2>1, <2>2
<1>. QED BY <1>1, <1>2

LEMMA PrefixGrows ==
    ASSUME NEW s \in Seq(STRING), NEW x \in Seq(STRING), NEW c \in Seq(STRING)
    PROVE  /\ IsPrefix(s, x) => IsPrefix(s, x \o c)
           /\ IsPrefix(s, x \o c) /\ Len(s) <= Len(x) => IsPrefix(s, x)
<1>1. /\ x \o c \in Seq(STRING) /\ Len(x \o c) = Len(x) + Len(c) /\ Len(c) \in Nat
      /\ Len(x) \in Nat /\ Len(s) \in Nat
      /\ \A i \in 1 .. Len(x) : (x \o c)[i] = x[i]
  BY Joined
<1>2. Len(s) <= Len(x) => \A i \in 1 .. Len(s) : i \in 1 .. Len(x)
  BY <1>1
<1>3. IsPrefix(s, x) <=> Len(s) <= Len(x) /\ \A k \in 1 .. Len(s) : s[k] = x[k]
  BY PrefixSays
<1>4. IsPrefix(s, x \o c)
        <=> Len(s) <= Len(x \o c) /\ \A k \in 1 .. Len(s) : s[k] = (x \o c)[k]
  BY <1>1, PrefixSays, ZenonT(40)
<1>5. Len(s) <= Len(x) => Len(s) <= Len(x \o c)
  BY <1>1
<1>. QED BY <1>1, <1>2, <1>3, <1>4, <1>5

\* A tag that has been found stays the one; where none can be found any more,
\* none is found.
LEMMA TagStays ==
    ASSUME NEW x \in Seq(STRING), NEW c \in Seq(STRING)
    PROVE  /\ TagFound(x) # 0 => TagFound(x \o c) = TagFound(x)
           /\ TagFound(x) = 0 /\ ~Undecided(x) =>
                 TagFound(x \o c) = 0 /\ ~Undecided(x \o c)
<1>. DEFINE y == x \o c
            t == TagFound(x)
            u == TagFound(y)
<1>0. /\ y \in Seq(STRING) /\ Len(y) = Len(x) + Len(c) /\ Len(c) \in Nat /\ Len(x) \in Nat
      /\ Len(Tags) \in Nat /\ DOMAIN Tags = 1 .. Len(Tags)
  <2>1. Len(Tags) \in Nat /\ DOMAIN Tags = 1 .. Len(Tags)
    BY TagsAssumption
  <2>. QED BY <2>1, Joined
<1>1. /\ t \in 0 .. Len(Tags)
      /\ t # 0 => IsPrefix(Tags[t].opening, x)
      /\ t # 0 => \A v \in 1 .. t - 1 : ~IsPrefix(Tags[v].opening, x)
      /\ t = 0 => \A v \in 1 .. Len(Tags) : ~IsPrefix(Tags[v].opening, x)
  BY TagFoundIs
<1>2. /\ u \in 0 .. Len(Tags)
      /\ u # 0 => IsPrefix(Tags[u].opening, y)
      /\ u # 0 => \A v \in 1 .. u - 1 : ~IsPrefix(Tags[v].opening, y)
      /\ u = 0 => \A v \in 1 .. Len(Tags) : ~IsPrefix(Tags[v].opening, y)
  BY <1>0, TagFoundIs
<1>3. \A v \in 1 .. Len(Tags) : Tags[v].opening \in Seq(STRING) /\ Len(Tags[v].opening) \in Nat
  <2>1. \A v \in 1 .. Len(Tags) : Tags[v].opening \in Seq(STRING)
    BY TagsAre
  <2>. QED BY <2>1
<1>4. \A v \in 1 .. Len(Tags) :
          /\ IsPrefix(Tags[v].opening, x) => IsPrefix(Tags[v].opening, y)
          /\ IsPrefix(Tags[v].opening, y) /\ Len(Tags[v].opening) <= Len(x)
               => IsPrefix(Tags[v].opening, x)
  BY <1>3, PrefixGrows
<1>. HIDE DEF y, t, u
<1>5. ASSUME t # 0 PROVE u = t
  <2>1. t \in 1 .. Len(Tags) /\ IsPrefix(Tags[t].opening, y)
    BY <1>0, <1>1, <1>4, <1>5
  <2>2. u # 0 /\ u \in 1 .. Len(Tags)
    BY <1>0, <1>2, <2>1
  <2>3. ~(t < u)
    <3>1. t < u => t \in 1 .. u - 1
      BY <1>0, <2>1, <2>2
    <3>. QED BY <1>2, <2>1, <2>2, <3>1
  <2>4. ~(u < t)
    <3>. SUFFICES ASSUME u < t PROVE FALSE
      OBVIOUS
    <3>1. Len(Tags[u].opening) <= Len(Tags[t].opening)
      BY <1>0, <2>1, <2>2, TagsAssumption
    <3>2. Len(Tags[t].opening) <= Len(x)
      <4>1. IsPrefix(Tags[t].opening, x)
        BY <1>1, <1>5
      <4>. QED BY <4>1, <1>3, <2>1, PrefixSays
    <3>3. Len(Tags[u].opening) <= Len(x)
      BY <1>0, <1>3, <2>1, <2>2, <3>1, <3>2
    <3>4. IsPrefix(Tags[u].opening, x)
      BY <1>2, <1>4, <2>2, <3>3
    <3>5. u \in 1 .. t - 1
      BY <1>0, <2>1, <2>2
    <3>. QED BY <1>1, <1>5, <3>4, <3>5
  <2>. QED BY <1>0, <2>1, <2>2, <2>3, <2>4
<1>6. ASSUME t = 0, ~Undecided(x) PROVE u = 0 /\ ~Undecided(y)
  <2>1. \A v \in 1 .. Len(Tags) : ~(Len(x) < Len(Tags[v].opening))
    BY <1>0, <1>6 DEF Undecided
  <2>2. \A v \in 1 .. Len(Tags) : Len(Tags[v].opening) <= Len(x)
    BY <1>0, <1>3, <2>1
  <2>3. \A v \in 1 .. Len(Tags) : ~IsPrefix(Tags[v].opening, y)
    BY <1>1, <1>4, <1>6, <2>2
  <2>4. u = 0
    <3>1. u # 0 => u \in 1 .. Len(Tags)
      BY <1>0, <1>2
    <3>. QED BY <1>2, <2>3, <3>1
  <2>5. \A v \in 1 .. Len(Tags) : ~(Len(y) < Len(Tags[v].opening))
    BY <1>0, <1>3, <2>2
  <2>. QED BY <1>0, <2>4, <2>5 DEF Undecided
<1>. QED BY <1>5, <1>6 DEF y, t, u

\* In no text there is no tag, but there may be one yet.
LEMMA TagIsBehind == TagFound(<<>>) = 0 /\ (Tags # <<>> => Undecided(<<>>))
<1>1. /\ <<>> \in Seq(STRING) /\ Len(<<>>) = 0 /\ Len(Tags) \in Nat
      /\ DOMAIN Tags = 1 .. Len(Tags)
  <2>1. Len(Tags) \in Nat /\ DOMAIN Tags = 1 .. Len(Tags)
    BY TagsAssumption
  <2>. QED BY ONLY <2>1
<1>2. \A t \in 1 .. Len(Tags) :
          /\ Tags[t].opening \in Seq(STRING) /\ Len(Tags[t].opening) \in Nat
          /\ Len(Tags[t].opening) > 0
  BY TagsAre
<1>3. TagFound(<<>>) = 0
  <2>. DEFINE t == TagFound(<<>>)
  <2>1. /\ t \in 0 .. Len(Tags)
        /\ t # 0 => IsPrefix(Tags[t].opening, <<>>)
    BY <1>1, TagFoundIs
  <2>. HIDE DEF t
  <2>2. SUFFICES ASSUME t # 0 PROVE FALSE
    BY DEF t
  <2>3. t \in 1 .. Len(Tags) /\ IsPrefix(Tags[t].opening, <<>>)
    BY <1>1, <2>1, <2>2
  <2>4. Tags[t].opening \in Seq(STRING) /\ Len(Tags[t].opening) > 0 /\ Len(Tags[t].opening) \in Nat
    BY <1>2, <2>3
  <2>5. Len(Tags[t].opening) <= 0
    BY <1>1, <2>3, <2>4, PrefixSays
  <2>. QED BY <2>4, <2>5
<1>4. ASSUME Tags # <<>> PROVE Undecided(<<>>)
  <2>1. 1 \in 1 .. Len(Tags)
    BY <1>4, TagsAssumption
  <2>2. Len(<<>>) < Len(Tags[1].opening)
    BY <1>1, <1>2, <2>1
  <2>. QED BY <1>1, <2>1, <2>2 DEF Undecided
<1>. QED BY <1>3, <1>4

\* The body behind the tag grows with the text.
LEMMA BodyIs ==
    ASSUME NEW x \in Seq(STRING), TagFound(x) # 0
    PROVE  LET n == Len(Tags[TagFound(x)].opening)
           IN  /\ TagFound(x) \in 1 .. Len(Tags) /\ n \in 0 .. Len(x)
               /\ SubSeq(x, n + 1, Len(x)) \in Seq(STRING)
<1>. DEFINE t == TagFound(x)
            n == Len(Tags[t].opening)
<1>1. t \in 1 .. Len(Tags) /\ IsPrefix(Tags[t].opening, x)
  <2>1. Len(Tags) \in Nat
    BY TagsAssumption
  <2>. QED BY <2>1, TagFoundIs
<1>. HIDE DEF t
<1>2. Tags[t].opening \in Seq(STRING)
  BY <1>1, TagsAre
<1>3. n \in 0 .. Len(x)
  BY <1>1, <1>2, PrefixSays
<1>. HIDE DEF n
<1>4. n + 1 \in 1 .. Len(x) + 1 /\ Len(x) \in (n + 1) - 1 .. Len(x)
  BY <1>3
<1>5. SubSeq(x, n + 1, Len(x)) \in Seq(STRING)
  BY <1>4, Part
<1>. QED BY <1>1, <1>3, <1>5 DEF n, t

LEMMA BodyGrows ==
    ASSUME NEW p \in Seq(STRING), NEW c \in Seq(STRING), TagFound(Begun(p)) # 0
    PROVE  /\ TagFound(Begun(p \o c)) = TagFound(Begun(p))
           /\ Body(p) \in Seq(STRING) /\ Body(p \o c) = Body(p) \o c
<1>. DEFINE x == Begun(p)
            n == Len(Tags[TagFound(x)].opening)
<1>1. x \in Seq(STRING) /\ Begun(p \o c) = x \o c
  BY BegunSays, TagIsBehind, BegunGrows
<1>. HIDE DEF x
<1>2. TagFound(x \o c) = TagFound(x) /\ TagFound(x) # 0
  BY <1>1, TagStays DEF x
<1>3. n \in 0 .. Len(x) /\ SubSeq(x, n + 1, Len(x)) \in Seq(STRING)
  BY <1>1, <1>2, BodyIs
<1>. HIDE DEF n
<1>4. n + 1 \in 1 .. Len(x) + 1
  BY <1>3
<1>5. SubSeq(x \o c, n + 1, Len(x \o c)) = SubSeq(x, n + 1, Len(x)) \o c
  BY <1>1, <1>4, TailJoins
<1>6. Body(p) = SubSeq(x, n + 1, Len(x))
  BY DEF Body, x, n
<1>7. Body(p \o c) = SubSeq(x \o c, n + 1, Len(x \o c))
  BY <1>1, <1>2 DEF Body, n
<1>. QED BY <1>1, <1>2, <1>3, <1>5, <1>6, <1>7 DEF x

\* Where a tag does not occur, it occurs in the text that grows where it occurs
\* in what is left of it: what has been cut off is not a part of one.
LEMMA OccursInRest ==
    ASSUME NEW t \in Seq(STRING), NEW r \in Seq(STRING), NEW c \in Seq(STRING),
           NEW tag \in Seq(STRING), Len(tag) > 0,
           Occurrences(tag, t \o r) = {}, t # <<>> => Len(r) >= Len(tag), NEW p
    PROVE  p \in Occurrences(tag, t \o (r \o c))
             <=> p \in Nat /\ p - Len(t) \in Occurrences(tag, r \o c)
<1>. DEFINE raw == r \o c
            body == t \o r
            more == t \o raw
            T == Len(t)
            R == Len(r)
            C == Len(c)
            N == Len(tag)
<1>0. T \in Nat /\ R \in Nat /\ C \in Nat /\ N \in Nat /\ N > 0
  OBVIOUS
<1>1. /\ raw \in Seq(STRING) /\ Len(raw) = R + C
      /\ \A i \in 1 .. R : raw[i] = r[i]
  BY Joined
<1>2. /\ body \in Seq(STRING) /\ Len(body) = T + R
      /\ \A i \in 1 .. T : body[i] = t[i]
      /\ \A i \in 1 .. R : body[T + i] = r[i]
  BY Joined
<1>. HIDE DEF raw
<1>3. /\ more \in Seq(STRING) /\ Len(more) = T + Len(raw)
      /\ \A i \in 1 .. T : more[i] = t[i]
      /\ \A i \in 1 .. Len(raw) : more[T + i] = raw[i]
  <2>1. t \in Seq(STRING) /\ raw \in Seq(STRING)
    BY <1>1
  <2>. QED BY ONLY <2>1, Joined DEF more, T
<1>4. T # 0 => R >= N
  <2>1. t # <<>> => R >= N
    OBVIOUS
  <2>2. Len(t) # 0 => t # <<>>
    BY ONLY t \in Seq(STRING)
  <2>. QED BY <2>1, <2>2
<1>. HIDE DEF body, more
<1>5. \A i \in 1 .. T + R : more[i] = body[i]
  <2>. TAKE i \in 1 .. T + R
  <2>1. CASE i <= T
    <3>1. i \in 1 .. T
      BY <1>0, <2>1
    <3>. QED BY <1>2, <1>3, <3>1
  <2>2. CASE i > T
    <3>1. PICK j \in 1 .. R : i = T + j
      <4>1. i - T \in 1 .. R /\ i = T + (i - T)
        BY <1>0, <2>2
      <4>. QED BY <4>1
    <3>2. j \in 1 .. Len(raw)
      BY <1>0, <1>1, <3>1
    <3>. QED BY <1>1, <1>2, <1>3, <3>1, <3>2
  <2>. QED BY <1>0, <2>1, <2>2
<1>6. \A q : q \in Occurrences(tag, body)
               <=> /\ q \in 1 .. Len(body) /\ q + Len(tag) - 1 <= Len(body)
                   /\ \A k \in 1 .. Len(tag) : tag[k] = body[q + k - 1]
  <2>1. body \in Seq(STRING) /\ tag \in Seq(STRING) /\ Len(tag) > 0
    BY <1>0, <1>2
  <2>. QED BY ONLY <2>1, OccurringSays
<1>7. \A q : q \in Occurrences(tag, raw)
               <=> /\ q \in 1 .. Len(raw) /\ q + Len(tag) - 1 <= Len(raw)
                   /\ \A k \in 1 .. Len(tag) : tag[k] = raw[q + k - 1]
  <2>1. raw \in Seq(STRING) /\ tag \in Seq(STRING) /\ Len(tag) > 0
    BY <1>0, <1>1
  <2>. QED BY ONLY <2>1, OccurringSays
<1>8. \A q : q \in Occurrences(tag, more)
               <=> /\ q \in 1 .. Len(more) /\ q + Len(tag) - 1 <= Len(more)
                   /\ \A k \in 1 .. Len(tag) : tag[k] = more[q + k - 1]
  <2>1. more \in Seq(STRING) /\ tag \in Seq(STRING) /\ Len(tag) > 0
    BY <1>0, <1>3
  <2>. QED BY ONLY <2>1, OccurringSays
<1>9. Occurrences(tag, body) = {}
  BY DEF body
<1>10. Len(tag) = N /\ Len(body) = T + R /\ Len(raw) = R + C /\ Len(more) = T + (R + C)
  BY <1>1, <1>2, <1>3
<1>. HIDE DEF T, R, C, N
<1>11. ASSUME p \in Occurrences(tag, more)
       PROVE  p \in Nat /\ p - T \in Occurrences(tag, raw)
  <2>1. /\ p \in 1 .. T + (R + C) /\ p + N - 1 <= T + (R + C)
        /\ \A k \in 1 .. N : tag[k] = more[p + k - 1]
    BY <1>8, <1>10, <1>11
  <2>2. ~(p <= T)
    <3>. SUFFICES ASSUME p <= T PROVE FALSE
      OBVIOUS
    <3>1. R >= N /\ p \in 1 .. T + R /\ p + N - 1 <= T + R
      BY <1>0, <1>4, <2>1
    <3>2. \A k \in 1 .. N : p + k - 1 \in 1 .. T + R
      BY <1>0, <2>1, <3>1
    <3>3. \A k \in 1 .. N : tag[k] = body[p + k - 1]
      BY <1>5, <2>1, <3>2
    <3>4. p \in Occurrences(tag, body)
      BY <1>6, <1>10, <3>1, <3>3
    <3>. QED BY <1>9, <3>4
  <2>3. /\ p \in Nat /\ p - T \in 1 .. R + C /\ (p - T) + N - 1 <= R + C
        /\ \A k \in 1 .. N : /\ (p - T) + k - 1 \in 1 .. R + C
                             /\ p + k - 1 = T + ((p - T) + k - 1)
    BY <1>0, <2>1, <2>2
  <2>4. \A k \in 1 .. N : tag[k] = raw[(p - T) + k - 1]
    BY <1>1, <1>3, <2>1, <2>3 DEF R, C
  <2>. QED BY <1>7, <1>10, <2>3, <2>4
<1>12. ASSUME p \in Nat, p - T \in Occurrences(tag, raw)
       PROVE  p \in Occurrences(tag, more)
  <2>1. /\ p - T \in 1 .. R + C /\ (p - T) + N - 1 <= R + C
        /\ \A k \in 1 .. N : tag[k] = raw[(p - T) + k - 1]
    BY <1>7, <1>10, <1>12
  <2>2. /\ p \in 1 .. T + (R + C) /\ p + N - 1 <= T + (R + C)
        /\ \A k \in 1 .. N : /\ (p - T) + k - 1 \in 1 .. R + C
                             /\ p + k - 1 = T + ((p - T) + k - 1)
    BY <1>0, <1>12, <2>1
  <2>3. \A k \in 1 .. N : tag[k] = more[p + k - 1]
    BY <1>1, <1>3, <2>1, <2>2 DEF R, C
  <2>. QED BY <1>8, <1>10, <2>2, <2>3
<1>. QED BY <1>11, <1>12 DEF more, raw, T

\* The first occurrence of a tag stays the first when the text grows.
LEMMA FirstStays ==
    ASSUME NEW s \in Seq(STRING), NEW c \in Seq(STRING), NEW t \in 1 .. Len(Tags),
           Occurrences(Tags[t].closing, s) # {}
    PROVE  /\ Occurrences(Tags[t].closing, s \o c) # {}
           /\ Min(Occurrences(Tags[t].closing, s \o c)) = Min(Occurrences(Tags[t].closing, s))
<1>. DEFINE tag == Tags[t].closing
            u == s \o c
            S == Len(s)
            C == Len(c)
            N == Len(tag)
            pos == Min(Occurrences(tag, s))
            new == Min(Occurrences(tag, u))
<1>0. tag \in Seq(STRING) /\ N > 0 /\ N \in Nat /\ S \in Nat /\ C \in Nat
  BY TagsAre
<1>1. /\ u \in Seq(STRING) /\ Len(u) = S + C
      /\ \A i \in 1 .. S : u[i] = s[i]
  BY Joined
<1>2. /\ pos \in Occurrences(tag, s) /\ \A q \in Occurrences(tag, s) : pos <= q
  BY FirstClosing
<1>. HIDE DEF tag, u, S, C, N, pos, new
<1>3. \A q : q \in Occurrences(tag, s)
               <=> /\ q \in 1 .. Len(s) /\ q + Len(tag) - 1 <= Len(s)
                   /\ \A k \in 1 .. Len(tag) : tag[k] = s[q + k - 1]
  <2>1. s \in Seq(STRING) /\ tag \in Seq(STRING) /\ Len(tag) > 0
    BY <1>0 DEF N
  <2>. QED BY ONLY <2>1, OccurringSays
<1>4. \A q : q \in Occurrences(tag, u)
               <=> /\ q \in 1 .. Len(u) /\ q + Len(tag) - 1 <= Len(u)
                   /\ \A k \in 1 .. Len(tag) : tag[k] = u[q + k - 1]
  <2>1. u \in Seq(STRING) /\ tag \in Seq(STRING) /\ Len(tag) > 0
    BY <1>0, <1>1 DEF N
  <2>. QED BY ONLY <2>1, OccurringSays
<1>5. Len(tag) = N /\ Len(s) = S /\ Len(u) = S + C
  BY <1>1 DEF N, S
<1>6. pos \in Occurrences(tag, u)
  <2>1. /\ pos \in 1 .. S /\ pos + N - 1 <= S
        /\ \A k \in 1 .. N : tag[k] = s[pos + k - 1]
    BY <1>2, <1>3, <1>5
  <2>2. /\ pos \in 1 .. S + C /\ pos + N - 1 <= S + C
        /\ \A k \in 1 .. N : pos + k - 1 \in 1 .. S
    BY <1>0, <2>1
  <2>3. \A k \in 1 .. N : tag[k] = u[pos + k - 1]
    BY <1>1, <2>1, <2>2
  <2>. QED BY <1>4, <1>5, <2>2, <2>3
<1>7. Occurrences(tag, u) # {}
  BY <1>6
<1>8. new \in Occurrences(tag, u) /\ \A q \in Occurrences(tag, u) : new <= q
  BY <1>1, <1>7, FirstClosing DEF tag, new
<1>9. new <= pos /\ pos \in 1 .. S /\ pos + N - 1 <= S
  BY <1>2, <1>3, <1>5, <1>6, <1>8
<1>10. new \in Occurrences(tag, s)
  <2>1. /\ new \in 1 .. S + C
        /\ \A k \in 1 .. N : tag[k] = u[new + k - 1]
    BY <1>4, <1>5, <1>8
  <2>2. /\ new \in 1 .. S /\ new + N - 1 <= S
        /\ \A k \in 1 .. N : new + k - 1 \in 1 .. S
    BY <1>0, <1>9, <2>1
  <2>3. \A k \in 1 .. N : tag[k] = s[new + k - 1]
    BY <1>1, <2>1, <2>2
  <2>. QED BY <1>3, <1>5, <2>2, <2>3
<1>11. new = pos
  <2>1. pos <= new /\ new \in 1 .. S
    BY <1>2, <1>3, <1>5, <1>10
  <2>. QED BY <1>0, <1>9, <2>1
<1>. QED BY <1>7, <1>11 DEF tag, u, pos, new

\* The parts of two joined sequences that begin at the first and end in the
\* second, and that lie in the second.
LEMMA JoinedParts ==
    ASSUME NEW S, NEW t \in Seq(S), NEW r \in Seq(S), NEW m \in 0 .. Len(r),
           NEW k \in 1 .. Len(r) + 1
    PROVE  /\ SubSeq(t \o r, 1, Len(t) + m) = t \o SubSeq(r, 1, m)
           /\ SubSeq(t \o r, Len(t) + k, Len(t \o r)) = SubSeq(r, k, Len(r))
<1>. DEFINE w == t \o r
            T == Len(t)
            R == Len(r)
            h == SubSeq(r, 1, m)
            l == SubSeq(r, k, R)
            wh == SubSeq(w, 1, T + m)
            wl == SubSeq(w, T + k, T + R)
            th == t \o h
<1>0. T \in Nat /\ R \in Nat /\ m \in 0 .. R /\ k \in 1 .. R + 1
  OBVIOUS
<1>1. /\ w \in Seq(S) /\ Len(w) = T + R
      /\ \A i \in 1 .. T : w[i] = t[i]
      /\ \A i \in 1 .. R : w[T + i] = r[i]
  BY Joined
<1>2. /\ h \in Seq(S) /\ Len(h) = m /\ \A i \in 1 .. m : h[i] = r[i]
  <2>1. 1 \in 1 .. Len(r) + 1 /\ m \in 1 - 1 .. Len(r)
    OBVIOUS
  <2>2. /\ h \in Seq(S) /\ Len(h) = m - 1 + 1 /\ \A i \in 1 .. m - 1 + 1 : h[i] = r[1 + i - 1]
    BY <2>1, Part
  <2>. HIDE DEF h
  <2>. QED BY <1>0, <2>2
<1>3. /\ l \in Seq(S) /\ Len(l) = R - k + 1 /\ \A i \in 1 .. R - k + 1 : l[i] = r[k + i - 1]
  <2>1. k \in 1 .. Len(r) + 1 /\ R \in k - 1 .. Len(r)
    OBVIOUS
  <2>. QED BY <2>1, Part
<1>. HIDE DEF w, h, l
<1>4. /\ wh \in Seq(S) /\ Len(wh) = T + m - 1 + 1
      /\ \A i \in 1 .. T + m - 1 + 1 : wh[i] = w[1 + i - 1]
  <2>1. 1 \in 1 .. Len(w) + 1 /\ T + m \in 1 - 1 .. Len(w)
    BY <1>0, <1>1
  <2>. QED BY <1>1, <2>1, Part
<1>5. /\ wl \in Seq(S) /\ Len(wl) = (T + R) - (T + k) + 1
      /\ \A i \in 1 .. (T + R) - (T + k) + 1 : wl[i] = w[(T + k) + i - 1]
  <2>1. T + k \in 1 .. Len(w) + 1 /\ T + R \in (T + k) - 1 .. Len(w)
    BY <1>0, <1>1
  <2>. QED BY <1>1, <2>1, Part
<1>6. /\ th \in Seq(S) /\ Len(th) = T + m
      /\ \A i \in 1 .. T : th[i] = t[i]
      /\ \A i \in 1 .. m : th[T + i] = h[i]
  <2>1. t \in Seq(S) /\ h \in Seq(S)
    BY <1>2
  <2>2. /\ t \o h \in Seq(S) /\ Len(t \o h) = Len(t) + Len(h)
        /\ \A i \in 1 .. Len(t) : (t \o h)[i] = t[i]
        /\ \A i \in 1 .. Len(h) : (t \o h)[Len(t) + i] = h[i]
    BY ONLY <2>1, Joined
  <2>. QED BY <1>2, <2>2
<1>. HIDE DEF wh, wl, th, T, R
<1>7. wl = l
  <2>1. Len(wl) = R - k + 1
    BY <1>0, <1>5
  <2>2. ASSUME NEW i \in 1 .. R - k + 1 PROVE wl[i] = l[i]
    <3>1. /\ i \in 1 .. (T + R) - (T + k) + 1 /\ k + i - 1 \in 1 .. R
          /\ (T + k) + i - 1 = T + (k + i - 1)
      BY <1>0
    <3>. QED BY <1>1, <1>3, <1>5, <3>1
  <2>. QED BY <1>3, <1>5, <2>1, <2>2, SameSeq
<1>8. wh = th
  <2>1. Len(wh) = T + m /\ Len(th) = T + m
    BY <1>0, <1>4, <1>6
  <2>2. ASSUME NEW i \in 1 .. T + m PROVE wh[i] = th[i]
    <3>1. wh[i] = w[i]
      BY <1>0, <1>4
    <3>2. CASE i <= T
      <4>1. i \in 1 .. T
        BY <1>0, <3>2
      <4>. QED BY <1>1, <1>6, <3>1, <4>1
    <3>3. CASE i > T
      <4>1. PICK j \in 1 .. m : i = T + j
        <5>1. i - T \in 1 .. m /\ i = T + (i - T)
          BY <1>0, <3>3
        <5>. QED BY <5>1
      <4>2. j \in 1 .. R
        BY <1>0
      <4>. QED BY <1>1, <1>2, <1>6, <3>1, <4>1, <4>2
    <3>. QED BY <1>0, <3>2, <3>3
  <2>. QED BY <1>4, <1>6, <2>1, <2>2, SameSeq
<1>. QED BY <1>1, <1>7, <1>8 DEF wh, wl, th, w, h, l, T, R

\* A tag that is looked for in the rest of the text is found where it is first
\* in all of it.
LEMMA FirstInRest ==
    ASSUME NEW t \in Seq(STRING), NEW r \in Seq(STRING), NEW c \in Seq(STRING),
           NEW n \in 1 .. Len(Tags),
           Occurrences(Tags[n].closing, t \o r) = {},
           t # <<>> => Len(r) >= Len(Tags[n].closing)
    PROVE  LET Rest == Occurrences(Tags[n].closing, r \o c)
               All  == Occurrences(Tags[n].closing, t \o (r \o c))
           IN  /\ Rest = {} <=> All = {}
               /\ Rest # {} => Min(All) = Len(t) + Min(Rest)
<1>. DEFINE tag  == Tags[n].closing
            Rest == Occurrences(tag, r \o c)
            All  == Occurrences(tag, t \o (r \o c))
            T == Len(t)
<1>0. T \in Nat /\ r \o c \in Seq(STRING) /\ t \o (r \o c) \in Seq(STRING)
  <2>1. r \o c \in Seq(STRING)
    OBVIOUS
  <2>2. t \o (r \o c) \in Seq(STRING)
    BY ONLY <2>1, t \in Seq(STRING), Joined
  <2>. QED BY <2>1, <2>2
<1>1. \A p : p \in All <=> p \in Nat /\ p - T \in Rest
  <2>. TAKE p
  <2>1. tag \in Seq(STRING) /\ Len(tag) > 0
    BY TagsAre
  <2>. HIDE DEF tag
  <2>2. Occurrences(tag, t \o r) = {} /\ (t # <<>> => Len(r) >= Len(tag))
    BY DEF tag
  <2>. QED BY ONLY <2>1, <2>2, t \in Seq(STRING), r \in Seq(STRING), c \in Seq(STRING), OccursInRest
<1>2. \A p \in Rest : p \in Nat
  <2>1. tag \in Seq(STRING) /\ Len(tag) > 0
    BY TagsAre
  <2>. DEFINE raw == r \o c
  <2>2. raw \in Seq(STRING)
    BY <1>0
  <2>. HIDE DEF tag, raw
  <2>3. \A p \in Occurrences(tag, raw) : p \in 1 .. Len(raw)
    BY ONLY <2>1, <2>2, OccurringSays
  <2>. QED BY <2>2, <2>3 DEF raw
<1>3. Rest # {} => Min(Rest) \in Rest /\ \A p \in Rest : Min(Rest) <= p
  BY <1>0, FirstClosing
<1>4. All # {} => Min(All) \in All /\ \A p \in All : Min(All) <= p
  BY <1>0, FirstClosing
<1>. HIDE DEF Rest, All, T
<1>5. ASSUME NEW p \in Rest PROVE T + p \in All
  <2>1. p \in Nat /\ T + p \in Nat /\ (T + p) - T = p
    BY <1>0, <1>2
  <2>. QED BY <1>1, <1>5, <2>1
<1>6. ASSUME Rest # {} PROVE Min(All) = T + Min(Rest)
  <2>1. Min(Rest) \in Rest /\ Min(Rest) \in Nat /\ T + Min(Rest) \in All
    BY <1>2, <1>3, <1>5, <1>6
  <2>2. Min(All) \in All /\ Min(All) <= T + Min(Rest)
    BY <1>4, <2>1
  <2>3. Min(All) \in Nat /\ Min(All) - T \in Rest
    BY <1>1, <2>2
  <2>4. Min(Rest) <= Min(All) - T
    BY <1>3, <2>3
  <2>. QED BY <1>0, <2>1, <2>2, <2>3, <2>4, SMTT(40)
<1>7. Rest = {} <=> All = {}
  BY <1>1, <1>5
<1>. QED BY <1>6, <1>7 DEF Rest, All, T

-----------------------------------------------------------------------------
(* What the interceptor has made of the text it has been given. *)

\* Result r of a thought, whose body is b.
ThoughtOf(r, tag, t, b) ==
    LET closing == Tags[tag].closing
        pos     == Min(Occurrences(closing, b))
    IN  /\ r.state.tag = tag /\ ~r.state.detecting
        /\ IF Occurrences(closing, b) = {}
           THEN /\ r.state.is_thinking /\ r.said = <<>>
                /\ (t \o r.thought) \o r.state.raw_acc = b
                /\ r.state.chunk_lengths # <<>>
                /\ Total(Tail(r.state.chunk_lengths)) < Len(closing)
                /\ t \o r.thought # <<>> => Len(r.state.raw_acc) >= Len(closing)
           ELSE /\ ~r.state.is_thinking
                /\ t \o r.thought = SubSeq(b, 1, pos - 1)
                /\ r.said = SubSeq(b, pos + Len(closing), Len(b))

LEMMA TailIs ==
    ASSUME NEW s \in Seq(Nat), NEW n \in 0 .. Len(s) - 1
    PROVE  LET kept == SubSeq(s, n + 1, Len(s))
           IN  kept # <<>> /\ Tail(kept) = SubSeq(s, n + 2, Len(s))
<1>. DEFINE kept == SubSeq(s, n + 1, Len(s))
            L == Len(s)
<1>0. L \in Nat /\ n \in 0 .. L - 1 /\ n \in Nat
  OBVIOUS
<1>1. /\ kept \in Seq(Nat) /\ Len(kept) = L - (n + 1) + 1
      /\ \A i \in 1 .. L - (n + 1) + 1 : kept[i] = s[(n + 1) + i - 1]
  <2>1. n + 1 \in 1 .. Len(s) + 1 /\ Len(s) \in (n + 1) - 1 .. Len(s)
    BY <1>0
  <2>. QED BY <2>1, Part
<1>2. /\ SubSeq(s, n + 2, Len(s)) \in Seq(Nat) /\ Len(SubSeq(s, n + 2, Len(s))) = L - (n + 2) + 1
      /\ \A i \in 1 .. L - (n + 2) + 1 : SubSeq(s, n + 2, Len(s))[i] = s[(n + 2) + i - 1]
  <2>1. n + 2 \in 1 .. Len(s) + 1 /\ Len(s) \in (n + 2) - 1 .. Len(s)
    BY <1>0
  <2>. QED BY <2>1, Part
<1>. DEFINE rest == SubSeq(s, n + 2, Len(s))
<1>. HIDE DEF kept, rest
<1>3. Len(kept) > 0
  BY <1>0, <1>1
<1>4. /\ kept # <<>> /\ Tail(kept) \in Seq(Nat) /\ Len(Tail(kept)) = Len(kept) - 1
      /\ \A i \in 1 .. Len(kept) - 1 : Tail(kept)[i] = kept[i + 1]
  BY ONLY <1>3, <1>1
<1>5. Len(Tail(kept)) = Len(rest) /\ Len(rest) = L - (n + 2) + 1 /\ Len(kept) - 1 = L - (n + 2) + 1
  <2>1. Len(kept) = L - (n + 1) + 1 /\ Len(Tail(kept)) = Len(kept) - 1
    BY <1>1, <1>4
  <2>2. Len(rest) = L - (n + 2) + 1
    BY <1>2 DEF rest
  <2>. HIDE DEF L
  <2>. QED BY ONLY <1>0, <2>1, <2>2
<1>. HIDE DEF L
<1>6. ASSUME NEW i \in 1 .. L - (n + 2) + 1 PROVE Tail(kept)[i] = rest[i]
  <2>1. i + 1 \in 1 .. L - (n + 1) + 1 /\ (n + 1) + (i + 1) - 1 = (n + 2) + i - 1
    BY <1>0
  <2>2. Tail(kept)[i] = kept[i + 1]
    BY <1>4, <1>5
  <2>. QED BY <1>1, <1>2, <2>1, <2>2 DEF rest
<1>7. Tail(kept) = rest
  <2>1. rest \in Seq(Nat) /\ Tail(kept) \in Seq(Nat) /\ Len(Tail(kept)) = Len(rest)
    BY <1>2, <1>4, <1>5 DEF rest
  <2>2. \A i \in 1 .. Len(Tail(kept)) : Tail(kept)[i] = rest[i]
    BY <1>5, <1>6
  <2>. QED BY ONLY <2>1, <2>2, SameSeq
<1>. QED BY <1>4, <1>7 DEF kept, rest

\* A chunk of a thought: what lets through is passed on in order, a part of the
\* closing tag is not among it.
LEMMA ThoughtChunkHears ==
    ASSUME NEW i \in Interceptors, i.tag # 0, ~i.detecting, i.is_thinking,
           Total(i.chunk_lengths) = Len(i.raw_acc),
           NEW chunk \in Seq(Bytes), NEW t \in Seq(Bytes), NEW b \in Seq(Bytes),
           t \o i.raw_acc = b,
           Occurrences(Tags[i.tag].closing, b) = {},
           t # <<>> => Len(i.raw_acc) >= Len(Tags[i.tag].closing)
    PROVE  ThoughtOf(ThoughtChunk(i, chunk), i.tag, t, b \o chunk)
<1>. DEFINE raw     == i.raw_acc \o chunk
            lengths == Append(i.chunk_lengths, Len(chunk))
            closing == Tags[i.tag].closing
            Closed  == Occurrences(closing, raw)
            pos     == Min(Closed)
            n       == Releasable(lengths, Len(closing))
            size    == Total(SubSeq(lengths, 1, n))
            ended   == [i EXCEPT !.is_thinking = FALSE, !.raw_acc = raw, !.chunk_lengths = lengths]
            kept    == [i EXCEPT !.raw_acc = SubSeq(raw, size + 1, Len(raw)),
                                 !.chunk_lengths = SubSeq(lengths, n + 1, Len(lengths))]
            more    == b \o chunk
<1>1. /\ i.tag \in 1 .. Len(Tags)
      /\ i.raw_acc \in Seq(Bytes) /\ i.chunk_lengths \in Seq(Nat)
  BY DEF Interceptors
<1>2. raw \in Seq(Bytes) /\ lengths \in Seq(Nat) /\ Len(lengths) > 0 /\ more \in Seq(Bytes)
  BY <1>1
<1>3. Total(lengths) = Len(raw)
  <2>1. lengths = i.chunk_lengths \o <<Len(chunk)>> /\ <<Len(chunk)>> \in Seq(Nat)
    BY <1>1
  <2>2. Total(lengths) = Total(i.chunk_lengths) + Total(<<Len(chunk)>>)
    BY <1>1, <2>1, TotalsAdd
  <2>3. Total(<<Len(chunk)>>) = Len(chunk)
    BY TotalOfFew
  <2>4. Len(raw) = Len(i.raw_acc) + Len(chunk)
    BY <1>1
  <2>. QED BY <2>2, <2>3, <2>4
<1>4. more = t \o raw
  <2>1. (t \o i.raw_acc) \o chunk = t \o (i.raw_acc \o chunk)
    <3>1. \A acc \in Seq(Bytes) : (t \o acc) \o chunk = t \o (acc \o chunk)
      BY ONLY t \in Seq(Bytes), chunk \in Seq(Bytes), JoinsAssociate
    <3>. QED BY <1>1, <3>1
  <2>. QED BY <2>1
<1>5. closing \in Seq(STRING) /\ Len(closing) > 0 /\ Len(closing) \in Nat
  BY <1>1, TagsAre
<1>6. /\ Closed = {} <=> Occurrences(closing, more) = {}
      /\ Closed # {} => Min(Occurrences(closing, more)) = Len(t) + pos
  <2>1. /\ t \in Seq(STRING) /\ i.raw_acc \in Seq(STRING) /\ chunk \in Seq(STRING)
    BY <1>1, BytesAre, MoreElements
  <2>2. Occurrences(closing, t \o i.raw_acc) = {} /\ (t # <<>> => Len(i.raw_acc) >= Len(closing))
    OBVIOUS
  <2>. DEFINE acc == i.raw_acc
              u == i.tag
  <2>. HIDE DEF acc, u
  <2>3. /\ Occurrences(Tags[u].closing, acc \o chunk) = {}
             <=> Occurrences(Tags[u].closing, t \o (acc \o chunk)) = {}
        /\ Occurrences(Tags[u].closing, acc \o chunk) # {}
             => Min(Occurrences(Tags[u].closing, t \o (acc \o chunk)))
                  = Len(t) + Min(Occurrences(Tags[u].closing, acc \o chunk))
    <3>1. /\ t \in Seq(STRING) /\ acc \in Seq(STRING) /\ chunk \in Seq(STRING)
          /\ u \in 1 .. Len(Tags)
      BY <1>1, <2>1 DEF acc, u
    <3>2. /\ Occurrences(Tags[u].closing, t \o acc) = {}
          /\ t # <<>> => Len(acc) >= Len(Tags[u].closing)
      BY <2>2 DEF acc, u
    <3>. QED BY ONLY <3>1, <3>2, FirstInRest
  <2>. QED BY <1>4, <2>3 DEF acc, u
<1>7. CASE Closed # {}
  <2>1. ThoughtChunk(i, chunk) = Passes(ended, SubSeq(raw, 1, pos - 1),
                                        SubSeq(raw, pos + Len(closing), Len(raw)))
    BY <1>7 DEF ThoughtChunk
  <2>2. pos \in 1 .. Len(raw) /\ pos + Len(closing) \in 1 .. Len(raw) + 1
    <3>1. raw \in Seq(STRING)
      BY <1>2, BytesAre, MoreElements
    <3>. HIDE DEF raw
    <3>. QED BY <1>1, <1>7, <3>1, FirstClosing
  <2>3. ended.tag = i.tag /\ ~ended.is_thinking /\ ~ended.detecting
    BY <1>1 DEF Interceptors
  <2>. DEFINE T == Len(t)
              N == Len(closing)
              r == Passes(ended, SubSeq(raw, 1, pos - 1), SubSeq(raw, pos + N, Len(raw)))
  <2>. HIDE DEF ended, raw, pos, N
  <2>4. /\ r.state = ended /\ r.thought = SubSeq(raw, 1, pos - 1)
        /\ r.said = SubSeq(raw, pos + N, Len(raw))
    BY DEF Passes
  <2>. HIDE DEF r
  <2>5. Len(raw) \in Nat /\ Len(more) = T + Len(raw) /\ T \in Nat /\ N \in Nat
    <3>1. Len(raw) \in Nat /\ N \in Nat
      BY <1>2, <1>5 DEF N
    <3>2. Len(t \o raw) = Len(t) + Len(raw)
      BY ONLY <1>2, t \in Seq(Bytes), Joined
    <3>. QED BY <1>4, <3>1, <3>2
  <2>6. /\ SubSeq(t \o raw, 1, T + (pos - 1)) = t \o SubSeq(raw, 1, pos - 1)
        /\ SubSeq(t \o raw, T + (pos + N), Len(t \o raw)) = SubSeq(raw, pos + N, Len(raw))
    <3>1. pos - 1 \in 0 .. Len(raw) /\ pos + N \in 1 .. Len(raw) + 1
      BY <2>2, <2>5 DEF N
    <3>. DEFINE m == pos - 1
                k == pos + N
    <3>. HIDE DEF m, k
    <3>2. /\ SubSeq(t \o raw, 1, Len(t) + m) = t \o SubSeq(raw, 1, m)
          /\ SubSeq(t \o raw, Len(t) + k, Len(t \o raw)) = SubSeq(raw, k, Len(raw))
      <4>1. m \in 0 .. Len(raw) /\ k \in 1 .. Len(raw) + 1 /\ raw \in Seq(Bytes)
        BY <1>2, <3>1 DEF m, k
      <4>. QED BY ONLY <4>1, t \in Seq(Bytes), JoinedParts
    <3>. QED BY <3>2 DEF m, k
  <2>7. T + (pos - 1) = (T + pos) - 1 /\ T + (pos + N) = (T + pos) + N
    BY <2>2, <2>5
  <2>8. t \o r.thought = SubSeq(more, 1, (T + pos) - 1)
    BY <1>4, <2>4, <2>6, <2>7
  <2>9. r.said = SubSeq(more, (T + pos) + N, Len(more))
    BY <1>4, <2>4, <2>6, <2>7
  <2>10. Occurrences(closing, more) # {} /\ Min(Occurrences(closing, more)) = T + pos
    BY <1>6, <1>7 DEF pos, raw
  <2>11. ThoughtChunk(i, chunk) = r
    BY <2>1 DEF r, N
  <2>. HIDE DEF more, T, closing
  <2>. QED BY <2>3, <2>4, <2>8, <2>9, <2>10, <2>11 DEF ThoughtOf, N, closing, more
<1>8. CASE Closed = {}
  <2>1. ThoughtChunk(i, chunk) = Passes(kept, SubSeq(raw, 1, size), <<>>)
    BY <1>8 DEF ThoughtChunk
  <2>2. /\ n \in 0 .. Len(lengths) - 1
        /\ n > 0 => Total(SubSeq(lengths, n + 1, Len(lengths))) >= Len(closing)
        /\ \A k \in n + 2 .. Len(lengths) : Total(SubSeq(lengths, k, Len(lengths))) < Len(closing)
    <3>1. Len(closing) \in Nat \ {0}
      BY <1>5
    <3>2. lengths # <<>> /\ Len(lengths) \in Nat
      <4>. HIDE DEF lengths
      <4>. QED BY <1>2
    <3>. HIDE DEF lengths, closing
    <3>3. /\ n \in 0 .. Len(lengths) /\ n < Len(lengths)
          /\ n > 0 => Total(SubSeq(lengths, n + 1, Len(lengths))) >= Len(closing)
          /\ \A k \in n + 2 .. Len(lengths) : Total(SubSeq(lengths, k, Len(lengths))) < Len(closing)
      BY <1>2, <3>1, <3>2, ReleasableIs
    <3>. HIDE DEF n
    <3>4. n \in 0 .. Len(lengths) - 1
      BY <3>2, <3>3
    <3>. QED BY <3>3, <3>4
  <2>. DEFINE L == Len(lengths)
              more_lengths == SubSeq(lengths, n + 1, Len(lengths))
              head == SubSeq(raw, 1, size)
              rest == SubSeq(raw, size + 1, Len(raw))
  <2>3. L \in Nat /\ n \in 0 .. L /\ Len(closing) \in Nat
    <3>. HIDE DEF lengths, n, closing
    <3>. QED BY <1>2, <1>5, <2>2
  <2>. HIDE DEF n, lengths, raw
  <2>4. /\ more_lengths \in Seq(Nat) /\ head \in Seq(Bytes) /\ rest \in Seq(Bytes)
        /\ Total(more_lengths) = Len(rest) /\ raw = head \o rest /\ size \in 0 .. Len(raw)
    <3>1. /\ raw \in Seq(Bytes) /\ lengths \in Seq(Nat) /\ Total(lengths) = Len(raw)
          /\ n \in 0 .. Len(lengths)
      BY <1>2, <1>3, <2>3
    <3>. QED BY ONLY <3>1, ReleasedIs
  <2>5. more_lengths # <<>> /\ Tail(more_lengths) = SubSeq(lengths, n + 2, Len(lengths))
    BY <1>2, <2>2, TailIs
  <2>6. Total(Tail(more_lengths)) < Len(closing)
    <3>1. CASE n + 2 <= L
      <4>1. n + 2 \in n + 2 .. Len(lengths)
        BY <2>3, <3>1
      <4>. QED BY <2>2, <2>5, <4>1
    <3>2. CASE ~(n + 2 <= L)
      <4>1. SubSeq(lengths, n + 2, Len(lengths)) = <<>>
        <5>1. n + 2 = L + 1
          BY <2>2, <2>3, <3>2
        <5>2. L + 1 \in 1 .. Len(lengths) + 1 /\ Len(lengths) \in (L + 1) - 1 .. Len(lengths)
          BY <2>3
        <5>3. /\ SubSeq(lengths, L + 1, Len(lengths)) \in Seq(Nat)
              /\ Len(SubSeq(lengths, L + 1, Len(lengths))) = Len(lengths) - (L + 1) + 1
          BY ONLY <1>2, <5>2, Part
        <5>4. Len(SubSeq(lengths, L + 1, Len(lengths))) = 0
          BY <2>3, <5>3
        <5>. QED BY <5>1, <5>3, <5>4
      <4>. QED BY <1>5, <2>5, <4>1, TotalOfFew
    <3>. QED BY <3>1, <3>2
  <2>. HIDE DEF more_lengths, rest
  <2>7. t \o head # <<>> => Len(rest) >= Len(closing)
    <3>1. CASE n > 0
      BY <2>2, <2>4, <3>1 DEF more_lengths
    <3>2. CASE n = 0
      <4>1. SubSeq(lengths, 1, 0) = <<>> /\ SubSeq(raw, 1, 0) = <<>>
        BY ONLY <1>2
      <4>2. size = 0
        BY <3>2, <4>1, TotalOfFew
      <4>3. head = <<>>
        BY <4>1, <4>2
      <4>4. rest = raw
        <5>1. <<>> \o rest = rest
          BY ONLY <2>4, WholePart
        <5>. QED BY <2>4, <4>3, <5>1
      <4>5. t \o head # <<>> => t # <<>>
        BY <4>3
      <4>6. Len(rest) = Len(i.raw_acc) + Len(chunk) /\ Len(i.raw_acc) \in Nat /\ Len(chunk) \in Nat
        BY <1>1, <4>4 DEF raw
      <4>. QED BY <2>3, <4>5, <4>6
    <3>. QED BY <2>3, <3>1, <3>2
  <2>. HIDE DEF head
  <2>8. (t \o head) \o rest = more
    BY ONLY <1>4, <2>4, t \in Seq(Bytes), JoinsAssociate
  <2>9. /\ kept.tag = i.tag /\ kept.raw_acc = rest /\ kept.chunk_lengths = more_lengths
    BY <1>1 DEF Interceptors, rest, more_lengths
  <2>9a. ~kept.detecting /\ kept.is_thinking
    BY DEF Interceptors
  <2>. DEFINE r == Passes(kept, head, <<>>)
  <2>. HIDE DEF kept
  <2>10. r.state = kept /\ r.thought = head /\ r.said = <<>>
    BY DEF Passes
  <2>11. Occurrences(closing, more) = {} /\ ThoughtChunk(i, chunk) = r
    BY <1>6, <1>8, <2>1 DEF raw, head
  <2>. HIDE DEF r, closing, more
  <2>. QED BY <2>5, <2>6, <2>7, <2>8, <2>9, <2>9a, <2>10, <2>11 DEF ThoughtOf, closing, more
<1>. QED BY <1>7, <1>8

LEMMA PartsAre ==
    ASSUME Tags # <<>>, NEW q, TagFound(Begun(q)) # 0
    PROVE  LET closing == Tags[TagFound(Begun(q))].closing
               pos     == Min(Closings(q))
           IN  /\ Closings(q) = Occurrences(closing, Body(q))
               /\ Closings(q) = {} => Parts(q) = [thought |-> Body(q), said |-> <<>>]
               /\ Closings(q) # {} =>
                     Parts(q) = [thought |-> SubSeq(Body(q), 1, pos - 1),
                                 said    |-> SubSeq(Body(q), pos + Len(closing), Len(Body(q)))]
BY DEF Parts, Closings, Body

LEMMA ThoughtIsHeard ==
    ASSUME Tags # <<>>, NEW q, TagFound(Begun(q)) # 0, NEW t, NEW r,
           ThoughtOf(r, TagFound(Begun(q)), t, Body(q))
    PROVE  Heard(r.state, q, t \o r.thought, r.said)
<1>. DEFINE tag     == TagFound(Begun(q))
            closing == Tags[tag].closing
            pos     == Min(Closings(q))
<1>1. /\ Closings(q) = Occurrences(closing, Body(q))
      /\ Closings(q) # {} =>
            Parts(q) = [thought |-> SubSeq(Body(q), 1, pos - 1),
                        said    |-> SubSeq(Body(q), pos + Len(closing), Len(Body(q)))]
  BY PartsAre
<1>2. r.state.tag = tag /\ ~r.state.detecting
  BY DEF ThoughtOf
<1>3. CASE Closings(q) = {}
  <2>1. /\ r.state.is_thinking /\ r.said = <<>>
        /\ (t \o r.thought) \o r.state.raw_acc = Body(q)
        /\ r.state.chunk_lengths # <<>>
        /\ Total(Tail(r.state.chunk_lengths)) < Len(closing)
        /\ t \o r.thought # <<>> => Len(r.state.raw_acc) >= Len(closing)
    BY <1>1, <1>3 DEF ThoughtOf
  <2>2. Thinks(r.state, q, t \o r.thought, r.said)
    BY <1>2, <1>3, <2>1 DEF Thinks
  <2>. QED BY <1>2, <2>1, <2>2 DEF Heard
<1>4. CASE Closings(q) # {}
  <2>1. /\ ~r.state.is_thinking
        /\ t \o r.thought = SubSeq(Body(q), 1, pos - 1)
        /\ r.said = SubSeq(Body(q), pos + Len(closing), Len(Body(q)))
    BY <1>1, <1>4 DEF ThoughtOf
  <2>2. t \o r.thought = Parts(q).thought /\ r.said = Parts(q).said
    BY <1>1, <1>4, <2>1
  <2>3. Answers(q, t \o r.thought, r.said)
    BY <1>4, <2>2 DEF Answers
  <2>. QED BY <1>2, <2>1, <2>3 DEF Heard
<1>. QED BY <1>3, <1>4

\* A chunk while a thought is open.
LEMMA ThinksHears ==
    ASSUME Tags # <<>>, NEW i, Sound(i), ~i.detecting, i.is_thinking,
           NEW p \in Seq(Bytes), NEW chunk \in Seq(Bytes),
           NEW t \in Seq(Bytes), NEW a, Thinks(i, p, t, a)
    PROVE  LET r == ThoughtChunk(i, chunk)
           IN  Heard(r.state, p \o chunk, t \o r.thought, r.said)
<1>. DEFINE tag == TagFound(Begun(p))
            q   == p \o chunk
<1>1. /\ i \in Interceptors /\ i.tag # 0 /\ Total(i.chunk_lengths) = Len(i.raw_acc)
      /\ i.raw_acc \in Seq(Bytes)
  BY DEF Sound, Interceptors
<1>2. /\ i.tag = tag /\ tag # 0 /\ Closings(p) = {} /\ t \o i.raw_acc = Body(p)
      /\ t # <<>> => Len(i.raw_acc) >= Len(Tags[i.tag].closing)
  BY DEF Thinks
<1>3. Body(p) \in Seq(Bytes)
  <2>1. t \o i.raw_acc \in Seq(Bytes)
    BY <1>1
  <2>. QED BY <1>2, <2>1
<1>4. Occurrences(Tags[i.tag].closing, Body(p)) = {}
  BY <1>2 DEF Closings
<1>5. ThoughtOf(ThoughtChunk(i, chunk), i.tag, t, Body(p) \o chunk)
  BY <1>1, <1>2, <1>3, <1>4, ThoughtChunkHears
<1>6. TagFound(Begun(q)) = tag /\ Body(q) = Body(p) \o chunk
  <2>1. p \in Seq(STRING) /\ chunk \in Seq(STRING)
    BY BytesAre, MoreElements
  <2>. QED BY <1>2, <2>1, BodyGrows
<1>. HIDE DEF q
<1>7. /\ TagFound(Begun(q)) # 0
      /\ ThoughtOf(ThoughtChunk(i, chunk), TagFound(Begun(q)), t, Body(q))
  BY <1>2, <1>5, <1>6
<1>8. Heard(ThoughtChunk(i, chunk).state, q, t \o ThoughtChunk(i, chunk).thought,
            ThoughtChunk(i, chunk).said)
  BY <1>7, ThoughtIsHeard
<1>. QED BY <1>8 DEF q

\* A chunk while the tag is looked for; the first one too.
LEMMA DetectHears ==
    ASSUME Tags # <<>>, NEW i \in Interceptors, i.detecting, ~i.is_thinking, i.chunk_lengths = <<>>,
           NEW chunk \in Seq(Bytes), NEW q \in Seq(Bytes),
           i.raw_acc \o chunk = q, Trimmed(i.cleaned_acc \o chunk) = Begun(q)
    PROVE  LET r == Detect(i, chunk)
           IN  Heard(r.state, q, r.thought, r.said)
<1>. DEFINE cleaned == Begun(q)
            tag     == TagFound(cleaned)
            heard   == [i EXCEPT !.raw_acc = q, !.cleaned_acc = cleaned]
            thinks  == [heard EXCEPT !.detecting = FALSE, !.is_thinking = TRUE,
                                     !.tag = tag, !.raw_acc = <<>>]
            answers == [heard EXCEPT !.detecting = FALSE]
            body    == Body(q)
<1>1. /\ i.detecting \in BOOLEAN /\ i.is_thinking \in BOOLEAN /\ i.tag \in 0 .. Len(Tags)
      /\ i.raw_acc \in Seq(Bytes) /\ i.cleaned_acc \in Seq(Bytes) /\ i.chunk_lengths \in Seq(Nat)
  BY DEF Interceptors
<1>2. cleaned \in Seq(Bytes) /\ cleaned \in Seq(STRING)
  <2>1. cleaned \in Seq(Bytes)
    BY BegunSays
  <2>. QED BY <2>1, BytesAre, MoreElements
<1>3. Detect(i, chunk) =
        IF tag # 0
        THEN ThoughtChunk(thinks, SubSeq(cleaned, Len(Tags[tag].opening) + 1, Len(cleaned)))
        ELSE IF Undecided(cleaned) THEN Passes(heard, <<>>, <<>>)
        ELSE Passes(answers, <<>>, q)
  BY DEF Detect, Keeps
<1>4. body = SubSeq(cleaned, Len(Tags[tag].opening) + 1, Len(cleaned))
  BY DEF Body
<1>5. tag \in 0 .. Len(Tags)
  <2>. HIDE DEF cleaned
  <2>. QED BY <1>2, TagFoundIs
<1>6. /\ heard \in Interceptors /\ heard.chunk_lengths = <<>>
      /\ heard.raw_acc = q /\ heard.cleaned_acc = cleaned
  <2>. HIDE DEF cleaned
  <2>. QED BY <1>1, <1>2 DEF Interceptors
<1>6a. heard.detecting /\ ~heard.is_thinking
  BY DEF Interceptors
<1>. HIDE DEF heard
<1>7. CASE tag # 0
  <2>. DEFINE r == ThoughtChunk(thinks, body)
  <2>1. Detect(i, chunk) = r
    BY <1>3, <1>4, <1>7
  <2>2. body \in Seq(Bytes)
    <3>. DEFINE m == Len(Tags[tag].opening)
    <3>1. m \in 0 .. Len(cleaned)
      <4>. HIDE DEF cleaned
      <4>. QED BY <1>2, <1>7, BodyIs
    <3>. HIDE DEF m, cleaned, body
    <3>2. m + 1 \in 1 .. Len(cleaned) + 1 /\ Len(cleaned) \in (m + 1) - 1 .. Len(cleaned)
      BY <1>2, <3>1
    <3>3. SubSeq(cleaned, m + 1, Len(cleaned)) \in Seq(Bytes)
      BY ONLY <1>2, <3>2, Part
    <3>. QED BY <1>4, <3>3 DEF m
  <2>3. <<>> \in Seq(Bytes) /\ Len(<<>>) = 0
    OBVIOUS
  <2>. HIDE DEF cleaned, tag, body
  <2>4. /\ thinks \in Interceptors /\ thinks.tag = tag /\ thinks.chunk_lengths = <<>>
        /\ thinks.raw_acc = <<>>
    BY <1>5, <1>6, <2>3 DEF Interceptors
  <2>5. ~thinks.detecting /\ thinks.is_thinking
    BY <1>6 DEF Interceptors
  <2>. HIDE DEF thinks
  <2>6. Total(thinks.chunk_lengths) = Len(thinks.raw_acc)
    BY <2>3, <2>4, TotalOfFew
  <2>7. Occurrences(Tags[thinks.tag].closing, <<>>) = {}
    <3>1. DOMAIN <<>> = {}
      OBVIOUS
    <3>. QED BY <3>1 DEF Occurrences
  <2>8. <<>> \o thinks.raw_acc = <<>> /\ thinks.tag # 0 /\ (<<>> # <<>> => FALSE)
    BY <1>7, <2>4
  <2>9. ThoughtOf(r, tag, <<>>, <<>> \o body)
    <3>1. ThoughtOf(ThoughtChunk(thinks, body), thinks.tag, <<>>, <<>> \o body)
      BY <2>2, <2>3, <2>4, <2>5, <2>6, <2>7, <2>8, ThoughtChunkHears
    <3>. QED BY <2>4, <3>1
  <2>10. ThoughtOf(r, tag, <<>>, body)
    BY <2>2, <2>9, WholePart
  <2>11. SoundResult(r)
    BY <2>2, <2>4, <2>5, <2>6, <2>8, ThoughtChunkSound
  <2>. HIDE DEF r
  <2>12. Heard(r.state, q, <<>> \o r.thought, r.said)
    BY <1>7, <2>10, ThoughtIsHeard DEF tag, body, cleaned
  <2>13. <<>> \o r.thought = r.thought
    BY <2>11, WholePart DEF SoundResult
  <2>. QED BY <2>1, <2>12, <2>13
<1>8. CASE tag = 0 /\ Undecided(cleaned)
  <2>1. Detect(i, chunk) = Passes(heard, <<>>, <<>>)
    BY <1>3, <1>8
  <2>2. Seeks(heard, q, <<>>, <<>>)
    BY <1>6, <1>8 DEF Seeks
  <2>3. Heard(heard, q, <<>>, <<>>)
    BY <1>6a, <2>2 DEF Heard
  <2>. QED BY <2>1, <2>3 DEF Passes
<1>9. CASE tag = 0 /\ ~Undecided(cleaned)
  <2>1. Detect(i, chunk) = Passes(answers, <<>>, q)
    BY <1>3, <1>9
  <2>2. ~answers.detecting /\ ~answers.is_thinking
    BY <1>6, <1>6a DEF Interceptors
  <2>. HIDE DEF answers
  <2>3. Heard(answers, q, <<>>, q)
    BY <1>9, <2>2 DEF Heard, Answers
  <2>. QED BY <2>1, <2>3 DEF Passes
<1>. QED BY <1>7, <1>8, <1>9

\* A chunk of the answer.
LEMMA AnswersHears ==
    ASSUME Tags # <<>>, NEW p \in Seq(STRING), NEW c \in Seq(STRING),
           NEW t, NEW a, Answers(p, t, a)
    PROVE  Answers(p \o c, t, a \o c)
<1>. DEFINE q == p \o c
            x == Begun(p)
<1>1. x \in Seq(STRING) /\ Begun(q) = x \o c
  BY BegunSays, TagIsBehind, BegunGrows DEF Answers
<1>2. CASE TagFound(x) = 0 /\ ~Undecided(x) /\ t = <<>> /\ a = p
  <2>1. TagFound(x \o c) = 0 /\ ~Undecided(x \o c)
    <3>. HIDE DEF x
    <3>. QED BY <1>1, <1>2, TagStays
  <2>. QED BY <1>1, <1>2, <2>1 DEF Answers
<1>3. CASE /\ TagFound(x) # 0 /\ Closings(p) # {}
           /\ t = Parts(p).thought /\ a = Parts(p).said
  <2>. DEFINE tag == TagFound(x)
              closing == Tags[tag].closing
              b == Body(p)
              B == Len(b)
              N == Len(closing)
              pos == Min(Closings(p))
  <2>1. TagFound(Begun(q)) = tag /\ b \in Seq(STRING) /\ Body(q) = b \o c
    BY <1>3, BodyGrows
  <2>2. /\ Closings(p) = Occurrences(closing, b)
        /\ t = SubSeq(b, 1, pos - 1) /\ a = SubSeq(b, pos + N, B)
    BY <1>3, PartsAre
  <2>3. tag \in 1 .. Len(Tags)
    BY <1>1, <1>3, BodyIs
  <2>4. pos \in 1 .. B /\ N \in Nat /\ pos + N \in 1 .. B + 1
    <3>. HIDE DEF b, tag
    <3>. QED BY <1>3, <2>1, <2>2, <2>3, FirstClosing
  <2>5. Closings(q) # {} /\ Min(Closings(q)) = pos
    <3>1. Closings(q) = Occurrences(closing, b \o c)
      BY <2>1 DEF Closings
    <3>. HIDE DEF b, tag
    <3>. QED BY <1>3, <2>1, <2>2, <2>3, <3>1, FirstStays
  <2>6. Parts(q) = [thought |-> SubSeq(b \o c, 1, pos - 1),
                    said    |-> SubSeq(b \o c, pos + N, Len(b \o c))]
    <3>1. TagFound(Begun(q)) # 0
      BY <1>3, <2>1
    <3>. HIDE DEF q
    <3>. QED BY <2>1, <2>5, <3>1, PartsAre
  <2>. HIDE DEF b, pos, N, q
  <2>7. SubSeq(b \o c, 1, pos - 1) = SubSeq(b, 1, pos - 1)
    <3>. DEFINE m == pos - 1
    <3>1. m \in 0 .. Len(b)
      BY <2>1, <2>4
    <3>. HIDE DEF m
    <3>2. SubSeq(b \o c, 1, m) = SubSeq(b, 1, m)
      BY ONLY <2>1, <3>1, c \in Seq(STRING), HeadStays
    <3>. QED BY <3>2 DEF m
  <2>8. SubSeq(b \o c, pos + N, Len(b \o c)) = SubSeq(b, pos + N, B) \o c
    <3>. DEFINE m == pos + N
    <3>1. m \in 1 .. Len(b) + 1
      BY <2>4
    <3>. HIDE DEF m
    <3>2. SubSeq(b \o c, m, Len(b \o c)) = SubSeq(b, m, Len(b)) \o c
      BY ONLY <2>1, <3>1, c \in Seq(STRING), TailJoins
    <3>. QED BY <3>2 DEF m
  <2>9. t = Parts(q).thought /\ a \o c = Parts(q).said
    <3>. DEFINE h == SubSeq(b \o c, 1, pos - 1)
                l == SubSeq(b \o c, pos + N, Len(b \o c))
    <3>0. Parts(q) = [thought |-> h, said |-> l]
      BY ONLY <2>6
    <3>. HIDE DEF h, l
    <3>1. Parts(q).thought = h /\ Parts(q).said = l
      BY ONLY <3>0
    <3>2. h = SubSeq(b \o c, 1, pos - 1) /\ l = SubSeq(b \o c, pos + N, Len(b \o c))
      BY DEF h, l
    <3>3. a \o c = SubSeq(b, pos + N, B) \o c
      BY <2>2
    <3>. HIDE DEF B
    <3>. QED BY ONLY <2>2, <2>7, <2>8, <3>1, <3>2, <3>3
  <2>. HIDE DEF B, closing, tag, x
  <2>10. TagFound(Begun(q)) # 0
    BY <1>3, <2>1 DEF tag, x
  <2>11. Answers(q, t, a \o c)
    BY <2>5, <2>9, <2>10 DEF Answers
  <2>. QED BY <2>11 DEF q
<1>. QED BY <1>2, <1>3 DEF Answers

LEMMA PutChunkHears ==
    ASSUME TypeOK, PlainIsHeard, plain, ~spaced, Tags # <<>>, is_first <=> passed = <<>>,
           NEW chunk \in Seq(Bytes), chunk # <<>>, ~LosesSpace(is_first, chunk)
    PROVE  LET r == PutChunk(is_first, chunk)
           IN  Heard(r.state, passed \o chunk, thought \o r.thought, said \o r.said)
<1>. DEFINE r == PutChunk(is_first, chunk)
            i == StateFor(is_first)
<1>1. /\ Sound(interceptor) /\ is_first \in BOOLEAN /\ thought \in Seq(Bytes)
      /\ said \in Seq(Bytes) /\ passed \in Seq(Bytes)
  BY TypesSay
<1>2. r.thought \in Seq(Bytes) /\ r.said \in Seq(Bytes)
  BY <1>1, PutChunkSound DEF SoundResult
<1>3. r = IF i.is_thinking THEN ThoughtChunk(i, chunk)
          ELSE IF i.detecting THEN Detect(i, chunk)
          ELSE Passes(i, <<>>, chunk)
  BY DEF PutChunk
<1>3a. i.detecting /\ i.cleaned_acc \in Seq(Bytes) =>
           Trimmed(i.cleaned_acc \o chunk) = Begun(i.cleaned_acc \o chunk)
  <2>. SUFFICES ASSUME i.detecting, i.cleaned_acc \in Seq(Bytes)
                PROVE  Trimmed(i.cleaned_acc \o chunk) = Begun(i.cleaned_acc \o chunk)
    OBVIOUS
  <2>0. Len(chunk) > 0
    BY ONLY chunk \in Seq(Bytes), chunk # <<>>
  <2>1. chunk \in Seq(STRING) /\ i.cleaned_acc \in Seq(STRING) /\ Len(chunk) > 0
    BY <2>0, BytesAre, MoreElements
  <2>2. chunk[Len(chunk)] # " " \/ Trimmed(i.cleaned_acc \o chunk) = <<>>
    BY DEF LosesSpace, Last
  <2>. HIDE DEF i
  <2>3. i.cleaned_acc \o chunk \in Seq(STRING) /\ Len(i.cleaned_acc \o chunk) > 0
    BY <2>1, Joined
  <2>4. (i.cleaned_acc \o chunk)[Len(i.cleaned_acc \o chunk)] = chunk[Len(chunk)]
    BY <2>1, LastOfJoined
  <2>5. Inked(i.cleaned_acc \o chunk) \/ Trimmed(i.cleaned_acc \o chunk) = <<>>
    BY <2>2, <2>3, <2>4 DEF Inked, IsInk
  <2>. QED BY <2>3, <2>5, BegunIsTrimmed
<1>4. CASE passed = <<>>
  <2>1. i = Fresh /\ thought = <<>> /\ said = <<>>
    BY <1>4 DEF StateFor, PlainIsHeard
  <2>2. /\ Fresh.detecting /\ ~Fresh.is_thinking /\ Fresh.chunk_lengths = <<>>
        /\ Fresh.raw_acc = <<>> /\ Fresh.cleaned_acc = <<>>
    BY DEF Fresh
  <2>3. Fresh \in Interceptors
    <3>1. <<>> \in Seq(Bytes) /\ <<>> \in Seq(Nat) /\ Len(Tags) \in Nat
      BY TagsAssumption
    <3>. QED BY <3>1 DEF Fresh, Interceptors
  <2>4. r = Detect(Fresh, chunk)
    BY <1>3, <2>1, <2>2
  <2>5. <<>> \o chunk = chunk
    BY WholePart
  <2>5a. <<>> \in Seq(Bytes) /\ Trimmed(Fresh.cleaned_acc \o chunk) = Begun(chunk)
    BY <1>3a, <2>1, <2>2, <2>5
  <2>. HIDE DEF r, i
  <2>6. Heard(r.state, chunk, r.thought, r.said)
    BY <2>2, <2>3, <2>4, <2>5, <2>5a, DetectHears
  <2>7. passed \o chunk = chunk /\ thought \o r.thought = r.thought /\ said \o r.said = r.said
    BY <1>2, <1>4, <2>1, WholePart
  <2>. QED BY <2>6, <2>7 DEF r
<1>5. CASE passed # <<>>
  <2>1. i = interceptor /\ Heard(i, passed, thought, said)
    BY <1>5 DEF StateFor, PlainIsHeard
  <2>3. passed \in Seq(STRING) /\ chunk \in Seq(STRING)
    BY <1>1, BytesAre, MoreElements
  <2>. HIDE DEF i
  <2>4. CASE i.is_thinking
    <3>1. ~i.detecting /\ Sound(i)
      BY <1>1, <2>1, <2>4 DEF Sound
    <3>2. r = ThoughtChunk(i, chunk) /\ Thinks(i, passed, thought, said)
      BY <1>3, <2>1, <2>4, <3>1 DEF Heard
    <3>. HIDE DEF r
    <3>3. Heard(r.state, passed \o chunk, thought \o r.thought, r.said)
      BY <1>1, <2>4, <3>1, <3>2, ThinksHears
    <3>4. said \o r.said = r.said
      BY <1>2, <3>2, WholePart DEF Thinks
    <3>. QED BY <3>3, <3>4 DEF r
  <2>5. CASE i.detecting
    <3>1. ~i.is_thinking /\ i \in Interceptors /\ i.chunk_lengths = <<>>
      BY <1>1, <2>1, <2>5 DEF Sound
    <3>2. r = Detect(i, chunk) /\ Seeks(i, passed, thought, said)
      BY <1>3, <2>1, <2>5, <3>1 DEF Heard
    <3>. HIDE DEF r
    <3>3. i.raw_acc \o chunk = passed \o chunk
      BY <3>2 DEF Seeks
    <3>4. Trimmed(i.cleaned_acc \o chunk) = Begun(passed \o chunk)
      <4>1. i.cleaned_acc = Begun(passed) /\ Begun(passed) \in Seq(Bytes)
        BY <1>1, <3>2, BegunSays DEF Seeks
      <4>2. Trimmed(i.cleaned_acc \o chunk) = Begun(i.cleaned_acc \o chunk)
        BY <1>3a, <2>5, <4>1
      <4>. QED BY <2>3, <4>1, <4>2, BegunAgain
    <3>5. passed \o chunk \in Seq(Bytes)
      BY <1>1
    <3>6. Heard(r.state, passed \o chunk, r.thought, r.said)
      BY <2>5, <3>1, <3>2, <3>3, <3>4, <3>5, DetectHears
    <3>7. thought \o r.thought = r.thought /\ said \o r.said = r.said
      BY <1>2, <3>2, WholePart DEF Seeks
    <3>. QED BY <3>6, <3>7 DEF r
  <2>6. CASE ~i.is_thinking /\ ~i.detecting
    <3>1. r = Passes(i, <<>>, chunk) /\ Answers(passed, thought, said)
      BY <1>3, <2>1, <2>6 DEF Heard
    <3>. HIDE DEF r
    <3>2. Answers(passed \o chunk, thought, said \o chunk)
      BY <2>3, <3>1, AnswersHears
    <3>3. r.state = i /\ r.thought = <<>> /\ r.said = chunk
      BY <3>1 DEF Passes
    <3>4. thought \o r.thought = thought
      BY <1>1, <3>3, WholePart
    <3>5. Heard(i, passed \o chunk, thought, said \o chunk)
      BY <2>6, <3>2 DEF Heard
    <3>. QED BY <3>3, <3>4, <3>5 DEF r
  <2>. QED BY <2>4, <2>5, <2>6
<1>. QED BY <1>4, <1>5

LEMMA PlainInit == Init => PlainIsHeard
BY DEF Init, PlainIsHeard

LEMMA PlainNext ==
    TypeOK /\ RestIsNext /\ RestIsHeld /\ PlainIsHeard /\ [Next]_vars
        => PlainIsHeard'
<1>. SUFFICES ASSUME TypeOK, RestIsNext, RestIsHeld, PlainIsHeard, [Next]_vars
              PROVE  PlainIsHeard'
  OBVIOUS
<1>1. /\ thought \in Seq(Bytes) /\ said \in Seq(Bytes) /\ passed \in Seq(Bytes)
  BY TypesSay
<1>2. ASSUME UNCHANGED <<interceptor, thought, said, passed, plain, spaced>>
      PROVE  PlainIsHeard'
  BY <1>2 DEF PlainIsHeard
<1>3. CASE Begin
  BY <1>3 DEF Begin, PlainIsHeard
<1>4. ASSUME NEW e \in Externals, NEW first \in BOOLEAN, BeginWith(e, first)
      PROVE  PlainIsHeard'
  <2>1. ~plain'
    BY <1>4 DEF BeginWith
  <2>. QED BY <2>1 DEF PlainIsHeard
<1>5. ASSUME NEW token \in Token, Put(token) PROVE PlainIsHeard'
  <2>. DEFINE s == token_cache \o token
              chunk == SubSeq(s, print_len + 1, EndIn(s, print_len))
              r == PutChunk(is_first, chunk)
  <2>1. chunk \in Seq(Bytes)
    BY TokenCuts
  <2>2. PassOn(chunk) /\ pc = "streaming"
    BY <1>5, PutIs
  <2>3. plain' = plain
    BY <1>5 DEF Put
  <2>4. is_first <=> passed = <<>>
    BY <2>2 DEF RestIsNext
  <2>. HIDE DEF chunk
  <2>5. passed' = passed \o chunk
    BY <2>2 DEF PassOn
  <2>6. CASE chunk = <<>>
    <3>1. UNCHANGED <<interceptor, thought, said, spaced>>
      BY <2>2, <2>6 DEF PassOn
    <3>2. passed' = passed
      BY <1>1, <2>5, <2>6, WholePart
    <3>. QED BY <1>2, <2>3, <3>1, <3>2
  <2>7. CASE chunk # <<>> /\ plain /\ ~spaced'
    <3>0. ~spaced /\ ~LosesSpace(is_first, chunk)
      BY <2>2, <2>7 DEF PassOn
    <3>1. interceptor' = r.state /\ thought' = thought \o r.thought /\ said' = said \o r.said
      BY <2>2, <2>7 DEF PassOn, Reported
    <3>2. passed' # <<>>
      BY <1>1, <2>1, <2>5, <2>7
    <3>3. CASE Tags = <<>>
      <4>1. r.thought = <<>> /\ r.said = chunk
        BY <3>3 DEF PutChunk, Passes
      <4>2. thought = <<>> /\ said = passed
        BY <2>7, <3>0, <3>3 DEF PlainIsHeard
      <4>3. <<>> \o <<>> = <<>>
        OBVIOUS
      <4>. HIDE DEF r
      <4>4. thought' = <<>> /\ said' = passed'
        BY <2>5, <3>1, <4>1, <4>2, <4>3
      <4>. QED BY <3>2, <3>3, <4>4 DEF PlainIsHeard
    <3>4. CASE Tags # <<>>
      <4>1. Heard(r.state, passed \o chunk, thought \o r.thought, said \o r.said)
        BY <2>1, <2>4, <2>7, <3>0, <3>4, PutChunkHears
      <4>. HIDE DEF r
      <4>2. Heard(interceptor', passed', thought', said')
        BY <2>5, <3>1, <4>1
      <4>. QED BY <3>2, <3>4, <4>2 DEF PlainIsHeard
    <3>. QED BY <3>3, <3>4
  <2>8. CASE ~plain \/ spaced'
    BY <2>3, <2>8 DEF PlainIsHeard
  <2>. QED BY <2>6, <2>7, <2>8
<1>6. CASE Retry
  BY <1>6 DEF Retry, PlainIsHeard
<1>7. CASE End
  <2>1. Flush = <<>>
    BY NothingIsFlushed
  <2>2. UNCHANGED <<interceptor, thought, said, plain, spaced>> /\ passed' = passed \o <<>>
    BY <1>7, <2>1 DEF End, PassOn
  <2>3. passed' = passed
    BY <1>1, <2>2, WholePart
  <2>. QED BY <1>2, <2>2, <2>3
<1>8. CASE UNCHANGED vars
  BY <1>2, <1>8 DEF vars
<1>. QED BY <1>3, <1>4, <1>5, <1>6, <1>7, <1>8 DEF Next

LEMMA PlainHolds == Spec => []PlainIsHeard
<1>. QED BY PlainInit, PlainNext, RestHolds, TypesHold, PTL DEF Spec

LEMMA SamePrefix ==
    ASSUME NEW S, NEW s \in Seq(S)
    PROVE  IsPrefix(s, s) /\ IsPrefix(<<>>, s)
<1>1. s = <<>> \o s /\ <<>> \in Seq(S) /\ s = s \o <<>>
  OBVIOUS
<1>2. IsPrefix(<<>>, <<>> \o s) /\ IsPrefix(s, s \o <<>>)
  BY <1>1, PrefixOfJoined
<1>. QED BY <1>1, <1>2

\* What the parts of a text are where no tag begins it.
LEMMA NoTagParts ==
    ASSUME NEW p, Tags = <<>> \/ TagFound(Begun(p)) = 0
    PROVE  Parts(p) = [thought |-> <<>>, said |-> p]
BY DEF Parts

LEMMA NoTagInNothing == TagFound(Begun(<<>>)) = 0
<1>1. Begun(<<>>) = <<>>
  <2>1. DOMAIN <<>> = {}
    OBVIOUS
  <2>2. {i \in DOMAIN <<>> : (<<>>)[i] # " "} = {}
    BY <2>1
  <2>. QED BY <2>2 DEF Begun
<1>. QED BY <1>1, TagIsBehind

LEMMA HeardIsApart ==
    ASSUME TypeOK, PlainIsHeard PROVE ThoughtsApart
<1>. SUFFICES ASSUME plain, ~spaced
              PROVE  /\ IsPrefix(thought, Parts(passed).thought)
                     /\ IsPrefix(said, Parts(passed).said)
  BY DEF ThoughtsApart, OnlyTagsAreRemoved
<1>1. /\ thought \in Seq(Bytes) /\ said \in Seq(Bytes) /\ passed \in Seq(Bytes)
      /\ interceptor.raw_acc \in Seq(Bytes) /\ <<>> \in Seq(Bytes)
  <2>1. interceptor.raw_acc \in Seq(Bytes)
    BY TypesSay DEF Sound, Interceptors
  <2>2. <<>> \in Seq(Bytes)
    OBVIOUS
  <2>. QED BY <2>1, <2>2, TypesSay
<1>2. ASSUME Parts(passed) = [thought |-> <<>>, said |-> passed], thought = <<>>,
             said \in {<<>>, passed}
      PROVE  IsPrefix(thought, Parts(passed).thought) /\ IsPrefix(said, Parts(passed).said)
  <2>1. Parts(passed).thought = <<>> /\ Parts(passed).said = passed
    BY <1>2
  <2>2. IsPrefix(<<>>, <<>>) /\ IsPrefix(<<>>, passed) /\ IsPrefix(passed, passed)
    BY <1>1, SamePrefix
  <2>. QED BY <1>2, <2>1, <2>2
<1>3. CASE passed = <<>>
  <2>1. thought = <<>> /\ said = <<>>
    BY <1>3 DEF PlainIsHeard
  <2>2. Parts(passed) = [thought |-> <<>>, said |-> passed]
    BY <1>3, NoTagInNothing, NoTagParts
  <2>. QED BY <1>2, <2>1, <2>2
<1>4. CASE passed # <<>> /\ Tags = <<>>
  <2>1. thought = <<>> /\ said = passed
    BY <1>4 DEF PlainIsHeard
  <2>2. Parts(passed) = [thought |-> <<>>, said |-> passed]
    BY <1>4, NoTagParts
  <2>. QED BY <1>2, <2>1, <2>2
<1>5. CASE passed # <<>> /\ Tags # <<>>
  <2>. DEFINE i == interceptor
  <2>1. Heard(i, passed, thought, said)
    BY <1>5 DEF PlainIsHeard
  <2>2. CASE i.detecting
    <3>1. TagFound(Begun(passed)) = 0 /\ thought = <<>> /\ said = <<>>
      BY <2>1, <2>2 DEF Heard, Seeks
    <3>2. Parts(passed) = [thought |-> <<>>, said |-> passed]
      BY <3>1, NoTagParts
    <3>. QED BY <1>2, <3>1, <3>2
  <2>3. CASE ~i.detecting /\ i.is_thinking
    <3>1. /\ TagFound(Begun(passed)) # 0 /\ Closings(passed) = {} /\ said = <<>>
          /\ thought \o i.raw_acc = Body(passed)
      BY <2>1, <2>3 DEF Heard, Thinks
    <3>2. Parts(passed) = [thought |-> Body(passed), said |-> <<>>]
      BY <1>5, <3>1, PartsAre
    <3>3. Parts(passed).thought = thought \o i.raw_acc /\ Parts(passed).said = <<>>
      BY <3>1, <3>2
    <3>4. IsPrefix(thought, thought \o i.raw_acc) /\ IsPrefix(<<>>, <<>>)
      BY <1>1, PrefixOfJoined, SamePrefix
    <3>. QED BY <3>1, <3>3, <3>4
  <2>4. CASE ~i.detecting /\ ~i.is_thinking
    <3>1. Answers(passed, thought, said)
      BY <2>1, <2>4 DEF Heard
    <3>2. CASE TagFound(Begun(passed)) = 0 /\ thought = <<>> /\ said = passed
      BY <1>2, <3>2, NoTagParts
    <3>3. CASE thought = Parts(passed).thought /\ said = Parts(passed).said
      BY <1>1, <3>3, SamePrefix
    <3>. QED BY <3>1, <3>2, <3>3 DEF Answers
  <2>. QED BY <2>2, <2>3, <2>4
<1>. QED BY <1>3, <1>4, <1>5

LEMMA HeardIsHeldBackForTags ==
    ASSUME TypeOK, PlainIsHeard PROVE HeldBackForTagsOnly
<1>. DEFINE i       == interceptor
            parts   == Parts(passed)
            lengths == i.chunk_lengths
<1>. SUFFICES ASSUME plain, ~spaced, passed # <<>>, Tags # <<>>
              PROVE  IF i.detecting
                     THEN Len(Begun(passed)) < Len(Tags[Len(Tags)].opening)
                     ELSE IF i.is_thinking
                     THEN /\ Len(parts.thought) - Len(thought) = Total(lengths)
                          /\ Total(Tail(lengths)) < Len(Tags[i.tag].closing)
                     ELSE thought = parts.thought /\ said = parts.said
  BY DEF HeldBackForTagsOnly
<1>1. /\ thought \in Seq(Bytes) /\ passed \in Seq(Bytes) /\ Sound(i)
      /\ i.raw_acc \in Seq(Bytes)
  BY TypesSay DEF Sound, Interceptors
<1>2. Heard(i, passed, thought, said)
  BY DEF PlainIsHeard
<1>3. CASE i.detecting
  <2>. DEFINE x == Begun(passed)
              n == Len(Tags)
  <2>1. Undecided(x)
    BY <1>2, <1>3 DEF Heard, Seeks
  <2>2. n \in Nat /\ DOMAIN Tags = 1 .. n
    BY TagsAssumption
  <2>3. Len(x) \in Nat
    <3>1. x \in Seq(Bytes)
      BY <1>1, BegunSays
    <3>. HIDE DEF x
    <3>. QED BY <3>1
  <2>. HIDE DEF x
  <2>4. PICK t \in 1 .. n : Len(x) < Len(Tags[t].opening)
    BY <2>1, <2>2 DEF Undecided
  <2>. HIDE DEF n
  <2>5. n \in 1 .. n
    BY <2>2, <2>4
  <2>6. Len(Tags[t].opening) \in Nat /\ Len(Tags[n].opening) \in Nat
    <3>1. \A k \in 1 .. n : Len(Tags[k].opening) \in Nat
      BY TagsAre DEF n
    <3>. QED BY <2>5, <3>1
  <2>7. Len(Tags[t].opening) <= Len(Tags[n].opening)
    <3>1. CASE t = n
      BY <2>6, <3>1
    <3>2. CASE t # n
      <4>1. t < n
        BY <2>2, <3>2
      <4>. QED BY <2>2, <2>5, <4>1, TagsAssumption
    <3>. QED BY <3>1, <3>2
  <2>8. Len(x) < Len(Tags[n].opening)
    BY <2>3, <2>4, <2>6, <2>7
  <2>. QED BY <1>3, <2>8 DEF x, n
<1>4. CASE ~i.detecting /\ i.is_thinking
  <2>1. /\ TagFound(Begun(passed)) # 0 /\ Closings(passed) = {}
        /\ thought \o i.raw_acc = Body(passed)
        /\ Total(Tail(lengths)) < Len(Tags[i.tag].closing)
    BY <1>2, <1>4 DEF Heard, Thinks
  <2>2. parts = [thought |-> Body(passed), said |-> <<>>]
    BY <2>1, PartsAre
  <2>3. Total(lengths) = Len(i.raw_acc)
    BY <1>1, <1>4 DEF Sound
  <2>4. parts.thought = thought \o i.raw_acc
    BY <2>1, <2>2
  <2>5. Len(parts.thought) = Len(thought) + Len(i.raw_acc)
    BY <1>1, <2>4, Joined
  <2>6. Len(thought) \in Nat /\ Len(i.raw_acc) \in Nat
    BY <1>1
  <2>. HIDE DEF parts, lengths, i
  <2>7. Len(parts.thought) - Len(thought) = Total(lengths)
    BY <2>3, <2>5, <2>6
  <2>. QED BY <1>4, <2>1, <2>7
<1>5. CASE ~i.detecting /\ ~i.is_thinking
  <2>1. Answers(passed, thought, said)
    BY <1>2, <1>5 DEF Heard
  <2>2. CASE TagFound(Begun(passed)) = 0 /\ thought = <<>> /\ said = passed
    <3>1. parts = [thought |-> <<>>, said |-> passed]
      BY <2>2, NoTagParts
    <3>. HIDE DEF parts
    <3>2. parts.thought = <<>> /\ parts.said = passed
      BY <3>1
    <3>. QED BY <1>5, <2>2, <3>2
  <2>3. CASE thought = parts.thought /\ said = parts.said
    BY <1>5, <2>3
  <2>. QED BY <2>1, <2>2, <2>3 DEF Answers
<1>. QED BY <1>3, <1>4, <1>5

\* However the tokens cut the tags, no part of a thought is reported as the
\* answer, none of the answer as a thought, no part of a tag as either, and
\* nothing else is removed: in every state of a turn without another text, for
\* any vocabulary and any tags, unless trim has taken a space out of the text
\* while a tag was looked for.
THEOREM ThoughtsStayApart == Spec => []ThoughtsApart
<1>. QED BY HeardIsApart, PlainHolds, TypesHold, PTL

\* ThoughtChunkInterceptor holds back no more than what may be a tag, for any
\* vocabulary and any tags, as long as trim has taken no space out of the text.
THEOREM OnlyTagsAreHeldBack == Spec => []HeldBackForTagsOnly
<1>. QED BY HeardIsHeldBackForTags, PlainHolds, TypesHold, PTL
=============================================================================
