---------------------------- MODULE FoldingProofs ----------------------------
(***************************************************************************)
(* Loops as functions: what Fold is for every step and every sequence, and *)
(* the facts about numbers and sequences such proofs need.  An induction   *)
(* is the question which number is the least counterexample.               *)
(***************************************************************************)
EXTENDS Folding, Integers, NaturalsInduction, WellFoundedInduction, SequenceTheorems, TLAPS

(* A non-empty set of numbers has a least element.                         *)
LEMMA LeastNumber ==
  ASSUME NEW S, S \subseteq Nat, S # {}
  PROVE  \E k \in S : \A l \in S : k <= l
<1>1. PICK k \in S : \A l \in S : ~(<<l, k>> \in OpToRel(<, Nat))
  BY NatLessThanWellFounded, WFMin, Zenon
<1>2. \A l \in S : ~(l < k)
  BY <1>1 DEF OpToRel
<1> QED
  BY <1>2

(* A sequence with one more element.                                       *)
LEMMA Appended ==
  ASSUME NEW S, NEW s \in Seq(S), NEW e \in S
  PROVE  /\ Append(s, e) \in Seq(S) /\ Len(Append(s, e)) = Len(s) + 1 /\ Append(s, e) # <<>>
         /\ \A i \in 1..(Len(s) + 1) : Append(s, e)[i] = IF i = Len(s) + 1 THEN e ELSE s[i]
<1>1. Append(s, e) \in Seq(S) /\ Len(Append(s, e)) = Len(s) + 1
  OBVIOUS
<1>2. Append(s, e) # <<>>
  <2>1. Len(s) \in Nat
    OBVIOUS
  <2> SUFFICES ASSUME Append(s, e) = <<>> PROVE FALSE
    OBVIOUS
  <2>2. Len(Append(s, e)) = 0
    BY EmptySeq, Zenon
  <2> QED
    BY <1>1, <2>1, <2>2
<1>3. ASSUME NEW i \in 1..(Len(s) + 1) PROVE Append(s, e)[i] = IF i = Len(s) + 1 THEN e ELSE s[i]
  OBVIOUS
<1> QED
  BY <1>1, <1>2, <1>3

(* Every sequence is empty or a shorter one with an element more.          *)
LEMMA EverySequence ==
  ASSUME NEW E, NEW T, <<>> \in T, \A s \in Seq(E) : \A e \in E : s \in T => Append(s, e) \in T
  PROVE  \A s \in Seq(E) : s \in T
<1> DEFINE S == {n \in Nat : \E s \in Seq(E) : Len(s) = n /\ s \notin T}
<1> SUFFICES ASSUME S # {} PROVE FALSE
  <2> SUFFICES ASSUME NEW s \in Seq(E), s \notin T PROVE Len(s) \in S
    OBVIOUS
  <2> QED
    BY LenProperties
<1>1. PICK n \in S : \A m \in S : n <= m
  BY LeastNumber
<1>2. PICK s \in Seq(E) : Len(s) = n /\ s \notin T
  BY <1>1
<1>3. s # <<>> /\ n # 0
  BY <1>2, EmptySeq
<1> DEFINE front == SubSeq(s, 1, n - 1)
<1>4. front \in Seq(E) /\ Len(front) = n - 1 /\ s[n] \in E /\ s = Append(front, s[n])
  BY <1>2, <1>3
<1>5. n - 1 \in Nat /\ n - 1 \notin S
  BY <1>1, <1>3
<1> HIDE DEF front
<1>6. front \in T
  BY <1>4, <1>5
<1> QED
  BY <1>2, <1>4, <1>6

(* Fold, by its finite beginnings.                                         *)
Steps(S, E) == [S -> [E -> S]]
Beginning(S, f, first, s, n, g) ==
  g \in [0..n -> S] /\ g[0] = first /\ \A k \in 1..n : g[k] = f[g[k - 1]][s[k]]

LEMMA BeginningsExist ==
  ASSUME NEW S, NEW E, NEW f \in Steps(S, E), NEW first \in S, NEW s \in Seq(E)
  PROVE  \A n \in Nat : n <= Len(s) => \E g : Beginning(S, f, first, s, n, g)
<1> DEFINE T == {n \in Nat : n <= Len(s) /\ ~\E g : Beginning(S, f, first, s, n, g)}
<1> SUFFICES ASSUME T # {} PROVE FALSE
  OBVIOUS
<1>1. PICK m \in T : \A l \in T : m <= l
  BY LeastNumber
<1>2. CASE m = 0
  <2> DEFINE g == [k \in 0..0 |-> first]
  <2>1. Beginning(S, f, first, s, 0, g)
    BY DEF Beginning
  <2> QED
    BY <1>1, <1>2, <2>1
<1>3. CASE m # 0
  <2>1. m - 1 \in Nat /\ m - 1 \notin T /\ m - 1 <= Len(s) /\ m \in 1..Len(s)
    <3>1. Len(s) \in Nat /\ m \in Nat /\ m <= Len(s)
      BY <1>1
    <3>2. m - 1 \in Nat /\ m - 1 <= Len(s) /\ m \in 1..Len(s) /\ ~(m <= m - 1)
      BY <1>3, <3>1
    <3> QED
      BY <1>1, <3>2
  <2>2. PICK g : Beginning(S, f, first, s, m - 1, g)
    BY <2>1
  <2> DEFINE h == [k \in 0..m |-> IF k = m THEN f[g[m - 1]][s[m]] ELSE g[k]]
  <2>3. g[m - 1] \in S /\ s[m] \in E
    BY <2>1, <2>2 DEF Beginning
  <2>a. f[g[m - 1]][s[m]] \in S
    BY <2>3 DEF Steps
  <2>4. h \in [0..m -> S]
    BY <2>1, <2>2, <2>a DEF Beginning
  <2>5. h[0] = first
    BY <1>3, <2>2 DEF Beginning
  <2>6. ASSUME NEW k \in 1..m PROVE h[k] = f[h[k - 1]][s[k]]
    <3>1. k - 1 \in 0..m /\ k - 1 # m /\ h[k - 1] = g[k - 1]
      BY <2>1
    <3>2. CASE k = m
      BY <3>1, <3>2
    <3>3. CASE k # m
      <4>1. k \in 1..(m - 1) /\ h[k] = g[k]
        BY <3>3
      <4> QED
        BY <2>2, <3>1, <4>1 DEF Beginning
    <3> QED
      BY <3>2, <3>3
  <2> HIDE DEF h
  <2>7. Beginning(S, f, first, s, m, h)
    BY <2>4, <2>5, <2>6 DEF Beginning
  <2> QED
    BY <1>1, <2>7
<1> QED
  BY <1>2, <1>3

LEMMA ResultsBegin ==
  ASSUME NEW S, NEW E, NEW f \in Steps(S, E), NEW first \in S, NEW s \in Seq(E)
  PROVE  Beginning(S, f, first, s, Len(s), Results(f, first, s))
<1>1. Len(s) \in Nat /\ Len(s) <= Len(s)
  OBVIOUS
<1>2. PICK g : Beginning(S, f, first, s, Len(s), g)
  BY <1>1, BeginningsExist, Zenon
<1>3. g = [n \in 0..Len(s) |-> IF n = 0 THEN first ELSE f[g[n - 1]][s[n]]]
  <2>1. g = [n \in 0..Len(s) |-> g[n]]
    BY <1>2 DEF Beginning
  <2>2. \A n \in 0..Len(s) : g[n] = IF n = 0 THEN first ELSE f[g[n - 1]][s[n]]
    BY <1>1, <1>2 DEF Beginning
  <2> QED
    BY <2>1, <2>2
<1> DEFINE R == Results(f, first, s)
<1>4. R = CHOOSE r : r = [n \in 0..Len(s) |-> IF n = 0 THEN first ELSE f[r[n - 1]][s[n]]]
  BY Zenon DEF Results
<1>5. R = [n \in 0..Len(s) |-> IF n = 0 THEN first ELSE f[R[n - 1]][s[n]]]
  BY <1>3, <1>4, Zenon
<1> HIDE DEF R
<1>6. R[0] = first /\ \A n \in 1..Len(s) : R[n] = f[R[n - 1]][s[n]]
  <2>1. 0 \in 0..Len(s) /\ \A n \in 1..Len(s) : n \in 0..Len(s) /\ n # 0
    BY <1>1
  <2> DEFINE Next(n) == IF n = 0 THEN first ELSE f[R[n - 1]][s[n]]
  <2>2. R = [n \in 0..Len(s) |-> Next(n)]
    BY <1>5
  <2>3. Next(0) = first /\ \A n \in 1..Len(s) : Next(n) = f[R[n - 1]][s[n]]
    BY <2>1
  <2> HIDE DEF Next
  <2> QED
    BY <2>1, <2>2, <2>3
<1>7. \A n \in 0..Len(s) : R[n] \in S
  <2> DEFINE T == {n \in 0..Len(s) : R[n] \notin S}
  <2> SUFFICES ASSUME T # {} PROVE FALSE
    OBVIOUS
  <2>0. T \subseteq Nat
    BY <1>1
  <2> HIDE DEF T
  <2>1. PICK k \in T : \A l \in T : k <= l
    BY <2>0, LeastNumber
  <2> USE DEF T
  <2>2. k # 0 /\ k \in 1..Len(s)
    BY <1>6, <2>1
  <2>3. k - 1 \in 0..Len(s) /\ k - 1 \notin T /\ s[k] \in E
    BY <1>1, <2>1, <2>2
  <2> QED
    BY <1>6, <2>1, <2>2, <2>3 DEF Steps
<1>8. R \in [0..Len(s) -> S]
  BY <1>5, <1>7
<1> QED
  BY <1>6, <1>8 DEF R, Beginning

LEMMA FoldOfNone == ASSUME NEW S, NEW E, NEW f \in Steps(S, E), NEW first \in S PROVE Fold(f, first, <<>>) = first
<1>1. <<>> \in Seq(E) /\ Len(<<>>) = 0
  OBVIOUS
<1>2. Beginning(S, f, first, <<>>, Len(<<>>), Results(f, first, <<>>))
  BY <1>1, ResultsBegin, Zenon
<1> QED
  BY <1>1, <1>2 DEF Fold, Beginning

LEMMA FoldOfMore ==
  ASSUME NEW S, NEW E, NEW f \in Steps(S, E), NEW first \in S, NEW s \in Seq(E), NEW e \in E
  PROVE  Fold(f, first, s) \in S /\ Fold(f, first, Append(s, e)) = f[Fold(f, first, s)][e]
<1> DEFINE t == Append(s, e)
           R == Results(f, first, s)
           Q == Results(f, first, t)
<1>1. /\ t \in Seq(E) /\ Len(t) = Len(s) + 1 /\ t[Len(s) + 1] = e /\ Len(s) \in Nat
      /\ \A k \in 1..Len(s) : t[k] = s[k]
  OBVIOUS
<1>2. Beginning(S, f, first, s, Len(s), R) /\ Beginning(S, f, first, t, Len(t), Q)
  BY <1>1, ResultsBegin, Zenon
<1>3. Fold(f, first, s) = R[Len(s)] /\ Fold(f, first, t) = Q[Len(t)]
  BY DEF Fold
<1> HIDE DEF t, R, Q
<1>4. \A k \in 0..Len(s) : R[k] = Q[k]
  <2> DEFINE T == {k \in 0..Len(s) : R[k] # Q[k]}
  <2> SUFFICES ASSUME T # {} PROVE FALSE
    OBVIOUS
  <2>0. T \subseteq Nat
    BY <1>1
  <2> HIDE DEF T
  <2>1. PICK k \in T : \A l \in T : k <= l
    BY <2>0, LeastNumber
  <2> USE DEF T
  <2>2. k # 0 /\ k \in 1..Len(s) /\ k \in 1..Len(t)
    BY <1>1, <1>2, <2>1 DEF Beginning
  <2>3. k - 1 \in 0..Len(s) /\ k - 1 \notin T
    BY <1>1, <2>1, <2>2
  <2>4. R[k - 1] = Q[k - 1]
    BY <2>3
  <2>5. R[k] = f[R[k - 1]][s[k]] /\ Q[k] = f[Q[k - 1]][t[k]]
    BY <1>2, <2>2 DEF Beginning
  <2> QED
    BY <1>1, <2>1, <2>2, <2>4, <2>5
<1>5. Q[Len(t)] = f[Q[Len(s)]][e]
  <2>1. Len(t) \in 1..Len(t) /\ Len(t) - 1 = Len(s)
    BY <1>1
  <2>2. Q[Len(t)] = f[Q[Len(t) - 1]][t[Len(t)]]
    BY <1>2, <2>1 DEF Beginning
  <2> QED
    BY <1>1, <2>1, <2>2
<1>6. R[Len(s)] \in S
  <2>1. Len(s) \in 0..Len(s)
    BY <1>1
  <2> QED
    BY <1>2, <2>1 DEF Beginning
<1>7. R[Len(s)] = Q[Len(s)]
  BY <1>1, <1>4
<1> QED
  BY <1>3, <1>5, <1>6, <1>7 DEF t

LEMMA FoldTyped ==
  ASSUME NEW S, NEW E, NEW f \in Steps(S, E), NEW first \in S, NEW s \in Seq(E)
  PROVE  Fold(f, first, s) \in S
<1>1. Len(s) \in 0..Len(s)
  OBVIOUS
<1>2. Beginning(S, f, first, s, Len(s), Results(f, first, s))
  BY ResultsBegin, Zenon
<1> QED
  BY <1>1, <1>2 DEF Fold, Beginning

(* One sequence after another.                                             *)
LEMMA FoldOfBoth ==
  ASSUME NEW S, NEW E, NEW f \in Steps(S, E), NEW first \in S, NEW s \in Seq(E)
  PROVE  \A t \in Seq(E) : Fold(f, first, s \o t) = Fold(f, Fold(f, first, s), t)
<1> DEFINE T == {t \in Seq(E) : Fold(f, first, s \o t) = Fold(f, Fold(f, first, s), t)}
           both == Fold(f, first, s)
<1>1. both \in S
  BY FoldTyped
<1>2. <<>> \in T
  <2>1. s \o <<>> = s /\ <<>> \in Seq(E)
    OBVIOUS
  <2>2. Fold(f, both, <<>>) = both
    BY <1>1, FoldOfNone
  <2> QED
    BY <2>1, <2>2
<1>3. ASSUME NEW t \in Seq(E), NEW e \in E, t \in T PROVE Append(t, e) \in T
  <2>1. s \o Append(t, e) = Append(s \o t, e) /\ s \o t \in Seq(E) /\ Append(t, e) \in Seq(E)
    <3>1. Append(t, e) = t \o <<e>> /\ Append(s \o t, e) = (s \o t) \o <<e>>
      BY AppendIsConcat, ConcatProperties
    <3>2. s \o (t \o <<e>>) = (s \o t) \o <<e>>
      BY ConcatAssociative
    <3> QED
      BY <3>1, <3>2
  <2>2. Fold(f, first, Append(s \o t, e)) = f[Fold(f, first, s \o t)][e]
    <3> DEFINE u == s \o t
    <3>1. u \in Seq(E)
      BY <2>1
    <3> HIDE DEF T, both, u
    <3>2. Fold(f, first, Append(u, e)) = f[Fold(f, first, u)][e]
      BY <3>1, FoldOfMore
    <3> QED
      BY <3>2 DEF u
  <2>3. Fold(f, both, Append(t, e)) = f[Fold(f, both, t)][e]
    <3> HIDE DEF T, both
    <3> QED
      BY <1>1, FoldOfMore
  <2> QED
    BY <1>3, <2>1, <2>2, <2>3
<1> HIDE DEF T
<1>4. \A t \in Seq(E) : t \in T
  BY <1>2, <1>3, EverySequence
<1> QED
  BY <1>4 DEF T

(* A loop whose values are known one by one.                               *)
FoldsTo(f, first, s, h) == h[0] = first /\ \A k \in 1..Len(s) : f[h[k - 1]][s[k]] = h[k]

LEMMA FoldIs ==
  ASSUME NEW S, NEW E, NEW f \in Steps(S, E), NEW first \in S, NEW s \in Seq(E), NEW h,
         FoldsTo(f, first, s, h)
  PROVE  Fold(f, first, s) = h[Len(s)]
<1> DEFINE R == Results(f, first, s)
           T == {k \in 0..Len(s) : R[k] # h[k]}
<1>0. h[0] = first /\ \A k \in 1..Len(s) : f[h[k - 1]][s[k]] = h[k]
  BY DEF FoldsTo
<1>1. Len(s) \in Nat /\ Fold(f, first, s) = R[Len(s)]
  BY DEF Fold
<1>2. R[0] = first /\ \A k \in 1..Len(s) : R[k] = f[R[k - 1]][s[k]]
  BY ResultsBegin DEF Beginning
<1> HIDE DEF R
<1> SUFFICES ASSUME T # {} PROVE FALSE
  BY <1>1
<1>3. PICK k \in T : \A l \in T : k <= l
  <2>1. T \subseteq Nat
    BY <1>1
  <2> QED
    BY <2>1, LeastNumber
<1>4. k \in 1..Len(s)
  BY <1>0, <1>1, <1>2, <1>3
<1>5. k - 1 \in 0..Len(s) /\ k - 1 \notin T
  BY <1>1, <1>3, <1>4
<1>6. R[k] = h[k]
  BY <1>0, <1>2, <1>4, <1>5
<1> QED
  BY <1>3, <1>6

(* Loops that write: every element adds its part to what was written.      *)
Writes(B, E, f, g) ==
  /\ f \in Steps(Seq(B), E) /\ g \in [E -> Seq(B)]
  /\ \A out \in Seq(B) : \A x \in E : f[out][x] = out \o g[x]

LEMMA WritesFold ==
  ASSUME NEW B, NEW E, NEW f, NEW g, Writes(B, E, f, g), NEW out \in Seq(B)
  PROVE  /\ Fold(f, out, <<>>) = out
         /\ \A s \in Seq(E) : Fold(f, out, s) \in Seq(B)
         /\ \A s \in Seq(E) : \A x \in E : Fold(f, out, Append(s, x)) = Fold(f, out, s) \o g[x]
         /\ \A s, t \in Seq(E) : Fold(f, out, s \o t) = Fold(f, Fold(f, out, s), t)
<1> DEFINE S == Seq(B)
<1>1. f \in Steps(S, E) /\ out \in S /\ \A o \in S : \A x \in E : f[o][x] = o \o g[x]
  BY DEF Writes
<1>2. \A s \in S : s \in Seq(B)
  OBVIOUS
<1> HIDE DEF S
<1>3. Fold(f, out, <<>>) = out
  BY <1>1, FoldOfNone
<1>4. \A s \in Seq(E) : Fold(f, out, s) \in S
  BY <1>1, FoldTyped
<1>5. \A s \in Seq(E) : \A x \in E : Fold(f, out, Append(s, x)) = Fold(f, out, s) \o g[x]
  <2> SUFFICES ASSUME NEW s \in Seq(E), NEW x \in E
               PROVE  Fold(f, out, Append(s, x)) = Fold(f, out, s) \o g[x]
    OBVIOUS
  <2>1. Fold(f, out, s) \in S /\ Fold(f, out, Append(s, x)) = f[Fold(f, out, s)][x]
    BY <1>1, FoldOfMore
  <2> QED
    BY <1>1, <2>1
<1>6. \A s, t \in Seq(E) : Fold(f, out, s \o t) = Fold(f, Fold(f, out, s), t)
  BY <1>1, FoldOfBoth
<1> QED
  BY <1>2, <1>3, <1>4, <1>5, <1>6

(* What a loop writes from nothing.                                        *)
TextOf(f, s) == Fold(f, <<>>, s)

LEMMA TextGrows ==
  ASSUME NEW B, NEW E, NEW f, NEW g, Writes(B, E, f, g)
  PROVE  /\ TextOf(f, <<>>) = <<>>
         /\ \A s \in Seq(E) : TextOf(f, s) \in Seq(B)
         /\ \A s \in Seq(E) : \A x \in E : TextOf(f, Append(s, x)) = TextOf(f, s) \o g[x]
<1>1. \A w \in Seq(B) : Fold(f, w, <<>>) = w
  BY WritesFold
<1>2. \A w \in Seq(B) : \A s \in Seq(E) : Fold(f, w, s) \in Seq(B)
  BY WritesFold
<1>3. \A w \in Seq(B) : \A s \in Seq(E) : \A x \in E : Fold(f, w, Append(s, x)) = Fold(f, w, s) \o g[x]
  BY WritesFold
<1>4. <<>> \in Seq(B)
  OBVIOUS
<1>5. Fold(f, <<>>, <<>>) = <<>>
  BY <1>1, <1>4
<1>6. \A s \in Seq(E) : Fold(f, <<>>, s) \in Seq(B)
  BY <1>2, <1>4, Zenon
<1>7. \A s \in Seq(E) : \A x \in E : Fold(f, <<>>, Append(s, x)) = Fold(f, <<>>, s) \o g[x]
  BY <1>3, <1>4, Zenon
<1> QED
  BY <1>5, <1>6, <1>7 DEF TextOf

(* What was there before stays in front.                                   *)
LEMMA WritesOn ==
  ASSUME NEW B, NEW E, NEW f, NEW g, Writes(B, E, f, g), NEW out \in Seq(B)
  PROVE  \A s \in Seq(E) : Fold(f, out, s) = out \o TextOf(f, s)
<1> DEFINE T == {s \in Seq(E) : Fold(f, out, s) = out \o TextOf(f, s)}
<1>1. \A x \in E : g[x] \in Seq(B)
  BY DEF Writes
<1>2. <<>> \in T
  <2>1. Fold(f, out, <<>>) = out /\ TextOf(f, <<>>) = <<>>
    BY WritesFold, TextGrows
  <2>2. out \o <<>> = out /\ <<>> \in Seq(E)
    OBVIOUS
  <2> QED
    BY <2>1, <2>2
<1>3. \A q \in Seq(E) : \A x \in E : Fold(f, out, Append(q, x)) = Fold(f, out, q) \o g[x]
  BY WritesFold
<1>4. \A q \in Seq(E) : TextOf(f, q) \in Seq(B)
  BY TextGrows
<1>5. \A q \in Seq(E) : \A x \in E : TextOf(f, Append(q, x)) = TextOf(f, q) \o g[x]
  BY TextGrows
<1>6. ASSUME NEW s \in Seq(E), NEW x \in E, s \in T PROVE Append(s, x) \in T
  <2> DEFINE part == g[x]
             rest == TextOf(f, s)
  <2>1. part \in Seq(B) /\ rest \in Seq(B) /\ Append(s, x) \in Seq(E)
    BY <1>1, <1>4
  <2>2. Fold(f, out, s) = out \o rest
    BY <1>6
  <2>3. Fold(f, out, Append(s, x)) = (out \o rest) \o part
    BY <1>3, <2>2
  <2>4. TextOf(f, Append(s, x)) = rest \o part
    BY <1>5
  <2> HIDE DEF part, rest, T
  <2>5. (out \o rest) \o part = out \o (rest \o part)
    BY <2>1, ConcatAssociative
  <2> QED
    BY <2>1, <2>3, <2>4, <2>5 DEF T
<1> HIDE DEF T
<1>7. \A s \in Seq(E) : s \in T
  BY <1>2, <1>6, EverySequence
<1> QED
  BY <1>7 DEF T

(* A text is the text of a beginning and then the text of the rest.        *)
LEMMA TextOfBoth ==
  ASSUME NEW B, NEW E, NEW f, NEW g, Writes(B, E, f, g)
  PROVE  \A s, t \in Seq(E) : TextOf(f, s \o t) = TextOf(f, s) \o TextOf(f, t)
<1>1. \A w \in Seq(B) : \A s, t \in Seq(E) : Fold(f, w, s \o t) = Fold(f, Fold(f, w, s), t)
  BY WritesFold
<1>2. <<>> \in Seq(B)
  OBVIOUS
<1>3. \A s, t \in Seq(E) : TextOf(f, s \o t) = Fold(f, TextOf(f, s), t)
  BY <1>1, <1>2, Zenon DEF TextOf
<1>4. \A s \in Seq(E) : TextOf(f, s) \in Seq(B)
  BY TextGrows
<1>5. \A w \in Seq(B) : \A t \in Seq(E) : Fold(f, w, t) = w \o TextOf(f, t)
  BY WritesOn
<1> QED
  BY <1>3, <1>4, <1>5

(* Where the part of an element stands in the text.                        *)
StandsIn(B, f, g, s, j) ==
  LET before == TextOf(f, SubSeq(s, 1, j - 1))
      after == TextOf(f, SubSeq(s, j + 1, Len(s)))
  IN /\ before \in Seq(B) /\ g[s[j]] \in Seq(B) /\ after \in Seq(B)
     /\ TextOf(f, SubSeq(s, 1, j)) = before \o g[s[j]]
     /\ TextOf(f, s) = (before \o g[s[j]]) \o after

LEMMA WrittenAt ==
  ASSUME NEW B, NEW E, NEW f, NEW g, Writes(B, E, f, g)
  PROVE  \A s \in Seq(E) : \A j \in 1..Len(s) : StandsIn(B, f, g, s, j)
<1>1. \A q \in Seq(E) : TextOf(f, q) \in Seq(B)
  BY TextGrows
<1>2. \A q \in Seq(E) : \A x \in E : TextOf(f, Append(q, x)) = TextOf(f, q) \o g[x]
  BY TextGrows
<1>3. \A q, t \in Seq(E) : TextOf(f, q \o t) = TextOf(f, q) \o TextOf(f, t)
  BY TextOfBoth
<1>4. \A x \in E : g[x] \in Seq(B)
  BY DEF Writes
<1> TAKE s \in Seq(E)
<1> TAKE j \in 1..Len(s)
<1> DEFINE front == SubSeq(s, 1, j - 1)
           upTo == SubSeq(s, 1, j)
           back == SubSeq(s, j + 1, Len(s))
<1>5. s[j] \in E /\ front \in Seq(E) /\ upTo \in Seq(E) /\ back \in Seq(E)
  OBVIOUS
<1>6. upTo = Append(front, s[j]) /\ s = upTo \o back
  <2>1. upTo = front \o <<s[j]>>
    BY SubSeqRecursiveSecond
  <2>2. Append(front, s[j]) = front \o <<s[j]>>
    BY <1>5, AppendIsConcat
  <2>3. upTo \o back = SubSeq(s, 1, Len(s))
    <3>1. 1 \in 1..(Len(s) + 1) /\ j \in 0..Len(s) /\ Len(s) \in j..Len(s)
      OBVIOUS
    <3> QED
      BY <3>1, ConcatAdjacentSubSeq
  <2> QED
    BY <2>1, <2>2, <2>3, SubSeqFull
<1> HIDE DEF front, upTo, back
<1>7. TextOf(f, upTo) = TextOf(f, front) \o g[s[j]]
  BY <1>2, <1>5, <1>6
<1>8. TextOf(f, s) = TextOf(f, upTo) \o TextOf(f, back)
  BY <1>3, <1>5, <1>6
<1>9. TextOf(f, front) \in Seq(B) /\ TextOf(f, back) \in Seq(B) /\ g[s[j]] \in Seq(B)
  BY <1>1, <1>4, <1>5
<1> QED
  BY <1>7, <1>8, <1>9 DEF StandsIn, front, upTo, back

(* Parts that are not empty make at least as much as there are elements.   *)
LEMMA WrittenLength ==
  ASSUME NEW B, NEW E, NEW f, NEW g, Writes(B, E, f, g), \A x \in E : g[x] # <<>>
  PROVE  \A s \in Seq(E) : Len(TextOf(f, s)) >= Len(s)
<1> DEFINE T == {s \in Seq(E) : Len(TextOf(f, s)) >= Len(s)}
<1>1. \A x \in E : g[x] \in Seq(B)
  BY DEF Writes
<1>2. \A q \in Seq(E) : TextOf(f, q) \in Seq(B)
  BY TextGrows
<1>3. \A q \in Seq(E) : \A x \in E : TextOf(f, Append(q, x)) = TextOf(f, q) \o g[x]
  BY TextGrows
<1>4. <<>> \in T
  <2>1. <<>> \in Seq(E) /\ Len(<<>>) = 0
    OBVIOUS
  <2>2. TextOf(f, <<>>) = <<>>
    BY TextGrows
  <2> QED
    BY <2>1, <2>2
<1>5. ASSUME NEW s \in Seq(E), NEW x \in E, s \in T PROVE Append(s, x) \in T
  <2> DEFINE out == TextOf(f, s)
             part == g[x]
  <2>1. out \in Seq(B) /\ Len(out) >= Len(s)
    BY <1>2, <1>5
  <2>2. part \in Seq(B) /\ part # <<>>
    BY <1>1
  <2>3. TextOf(f, Append(s, x)) = out \o part
    BY <1>3
  <2> HIDE DEF out, part, T
  <2>4. Len(part) > 0
    BY <2>2, EmptySeq
  <2>5. Append(s, x) \in Seq(E) /\ Len(Append(s, x)) = Len(s) + 1
    OBVIOUS
  <2>6. out \o part \in Seq(B) /\ Len(out \o part) >= Len(s) + 1
    BY <2>1, <2>2, <2>4
  <2> QED
    BY <2>3, <2>5, <2>6 DEF T
<1> HIDE DEF T
<1>6. \A s \in Seq(E) : s \in T
  BY <1>4, <1>5, EverySequence
<1> QED
  BY <1>6 DEF T

-----------------------------------------------------------------------------
(* Functions of smaller numbers                                            *)

(* What holds of a number when it holds of all below it holds of all.      *)
LEMMA FromBelow ==
  ASSUME NEW N \in Nat, NEW T, \A v \in 0..N : (\A u \in 0..(v - 1) : u \in T) => v \in T
  PROVE  \A v \in 0..N : v \in T
<1> DEFINE S == {v \in 0..N : v \notin T}
<1> SUFFICES ASSUME S # {} PROVE FALSE
  OBVIOUS
<1>1. S \subseteq Nat
  OBVIOUS
<1> HIDE DEF S
<1>2. PICK v \in S : \A u \in S : v <= u
  BY <1>1, LeastNumber
<1> USE DEF S
<1>3. ASSUME NEW u \in 0..(v - 1) PROVE u \in T
  <2>1. u \in 0..N /\ ~(v <= u)
    BY <1>1, <1>2
  <2> QED
    BY <1>2, <2>1
<1> QED
  BY <1>2, <1>3

(* A function may be defined by its values at smaller numbers.             *)
Descends(N, B, less) == \A v \in 0..N : v >= B => less[v] \in 0..(v - 1)
Recurses(N, B, base, step, less, g) ==
  \A v \in 0..N : g[v] = IF v < B THEN base[v] ELSE step[v][g[less[v]]]

LEMMA RecursionExists ==
  ASSUME NEW N \in Nat, NEW B \in Nat, NEW S, NEW base \in [0..N -> S],
         NEW step \in [0..N -> [S -> S]], NEW less \in [0..N -> Int], Descends(N, B, less)
  PROVE  \E g \in [0..N -> S] : Recurses(N, B, base, step, less, g)
<1> USE DEF Descends, Recurses
<1> DEFINE Upto(n, g) == \A v \in 0..n : g[v] = IF v < B THEN base[v] ELSE step[v][g[less[v]]]
           T == {n \in 0..N : \E g \in [0..n -> S] : Upto(n, g)}
<1>1. ASSUME NEW n \in 0..N, \A u \in 0..(n - 1) : u \in T PROVE n \in T
  <2>1. PICK g \in [0..(n - 1) -> S] : Upto(n - 1, g)
    <3>1. CASE n = 0
      <4> DEFINE g == [v \in 0..(n - 1) |-> base[v]]
      <4>1. g \in [0..(n - 1) -> S] /\ Upto(n - 1, g)
        BY <3>1
      <4> QED
        BY <4>1
    <3>2. CASE n # 0
      <4>1. n - 1 \in 0..(n - 1)
        BY <3>2
      <4> QED
        BY <1>1, <4>1
    <3> QED
      BY <3>1, <3>2
  <2> DEFINE last == IF n < B THEN base[n] ELSE step[n][g[less[n]]]
             h == [v \in 0..n |-> IF v = n THEN last ELSE g[v]]
  <2>2. last \in S
    <3>1. CASE n < B
      BY <3>1
    <3>2. CASE ~(n < B)
      <4>1. less[n] \in 0..(n - 1) /\ step[n] \in [S -> S]
        BY <3>2
      <4>2. g[less[n]] \in S
        BY <4>1
      <4> QED
        BY <3>2, <4>1, <4>2
    <3> QED
      BY <3>1, <3>2
  <2> HIDE DEF last
  <2>3. h \in [0..n -> S]
    BY <2>2
  <2>4. ASSUME NEW v \in 0..n PROVE h[v] = IF v < B THEN base[v] ELSE step[v][h[less[v]]]
    <3>1. CASE v = n
      <4>1. n >= B => less[n] \in 0..n /\ less[n] # n
        OBVIOUS
      <4>2. h[n] = last /\ (n >= B => h[less[n]] = g[less[n]])
        BY <4>1
      <4> QED
        BY <3>1, <4>2 DEF last
    <3>2. CASE v # n
      <4>1. v \in 0..(n - 1) /\ h[v] = g[v]
        BY <3>2
      <4>2. v >= B => less[v] \in 0..n /\ less[v] # n
        BY <4>1
      <4>3. v >= B => h[less[v]] = g[less[v]]
        BY <4>2
      <4>4. g[v] = IF v < B THEN base[v] ELSE step[v][g[less[v]]]
        BY <2>1, <4>1
      <4> QED
        BY <4>1, <4>3, <4>4
    <3> QED
      BY <3>1, <3>2
  <2> HIDE DEF h
  <2> QED
    BY <2>3, <2>4
<1>2. \A n \in 0..N : n \in T
  <2> HIDE DEF T
  <2> QED
    BY <1>1, FromBelow
<1> HIDE DEF T
<1>3. N \in T
  <2>1. N \in 0..N
    OBVIOUS
  <2> QED
    BY <1>2, <2>1
<1> USE DEF T
<1> QED
  BY <1>3
=============================================================================
