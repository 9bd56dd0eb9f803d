--------------------------- MODULE RunLengthProofs ---------------------------
(***************************************************************************)
(* What Expand gives for a sequence of pairs that grows behind or is taken *)
(* from in front, for sequences of any length.  Expand is a fold; what it  *)
(* computes is proved by induction on the length, in the form that a set   *)
(* of numbers with 0 and with every number's successor has all of them.    *)
(***************************************************************************)
EXTENDS RunLength, WellFoundedInduction, TLAPS

(* Induction.                                                              *)
LEMMA AllNumbers ==
  ASSUME NEW S, 0 \in S, \A n \in Nat : n \in S => n + 1 \in S
  PROVE  Nat \subseteq S
  <1> DEFINE T == Nat \ S
  <1> SUFFICES ASSUME T # {} PROVE FALSE
    OBVIOUS
  <1>1. PICK x \in T : \A y \in T : ~(<<y, x>> \in OpToRel(<, Nat))
    BY WFMin, NatLessThanWellFounded
  <1>2. x \in Nat /\ x # 0 /\ x - 1 \in Nat
    OBVIOUS
  <1>3. \A y \in T : ~(y < x)
    BY <1>1, <1>2 DEF OpToRel
  <1> HIDE DEF T
  <1>4. x - 1 \notin T
    BY <1>2, <1>3
  <1>5. QED BY <1>2, <1>4 DEF T

-----------------------------------------------------------------------------
(* FlattenSeq's recursive function, for the first n elements of s.         *)
Step(s, f, i) == IF i = 1 THEN s[i] ELSE f[i - 1] \o s[i]
Flattens(s, f, n) == f = [i \in 1..n |-> Step(s, f, i)]

Agree(f, g, n) == \A i \in 1..n : f[i] = g[i]

(* There is one.                                                           *)
LEMMA FlattensExists ==
  ASSUME NEW s, NEW n \in Nat
  PROVE  \E f : Flattens(s, f, n)
  <1> DEFINE S == {m \in Nat : \E f : Flattens(s, f, m)}
  <1>1. 0 \in S
    <2> DEFINE f == [i \in 1..0 |-> s[i]]
    <2>1. f = [i \in 1..0 |-> Step(s, f, i)]
      OBVIOUS
    <2>2. QED BY <2>1 DEF Flattens
  <1>2. ASSUME NEW m \in Nat, m \in S PROVE m + 1 \in S
    <2>1. PICK f : Flattens(s, f, m)
      BY <1>2
    <2> DEFINE g == [i \in 1..(m + 1) |-> Step(s, f, i)]
    <2>2. \A i \in 1..m : f[i] = Step(s, f, i)
      BY <2>1, Zenon DEF Flattens
    <2>3. \A i \in 1..m : i \in 1..(m + 1)
      OBVIOUS
    <2>4. \A i \in 1..m : g[i] = f[i]
      BY <2>2, <2>3, Zenon
    <2>5. \A i \in 1..(m + 1) : i # 1 => i - 1 \in 1..m
      OBVIOUS
    <2>6. \A i \in 1..(m + 1) : Step(s, f, i) = Step(s, g, i)
      BY <2>4, <2>5, Zenon DEF Step
    <2>7. g = [i \in 1..(m + 1) |-> Step(s, g, i)]
      BY <2>6, Zenon
    <2>8. Flattens(s, g, m + 1)
      BY <2>7 DEF Flattens
    <2> HIDE DEF g
    <2>9. QED BY <2>8
  <1>3. QED BY <1>1, <1>2, AllNumbers

(* It depends on the elements only: two of them agree as far as their      *)
(* sequences do.                                                           *)
LEMMA FlattensAgree ==
  ASSUME NEW s, NEW t, NEW f, NEW g, NEW k \in Nat, NEW n \in Nat,
         Flattens(s, f, k), Flattens(t, g, n), k <= n,
         Agree(s, t, k)
  PROVE  Agree(f, g, k)
  <1> DEFINE S == {i \in Nat : i \in 1..k => f[i] = g[i]}
  <1>1. \A i \in 1..k : f[i] = Step(s, f, i) /\ g[i] = Step(t, g, i)
    <2>1. \A i \in 1..k : i \in 1..n
      OBVIOUS
    <2>2. QED BY <2>1, Zenon DEF Flattens
  <1>2. 0 \in S
    OBVIOUS
  <1>3. ASSUME NEW i \in Nat, i \in S, i + 1 \in 1..k PROVE f[i + 1] = g[i + 1]
    <2>1. s[i + 1] = t[i + 1] /\ (i + 1 # 1 => f[i] = g[i]) /\ (i + 1) - 1 = i
      BY <1>3 DEF Agree
    <2>2. f[i + 1] = Step(s, f, i + 1) /\ g[i + 1] = Step(t, g, i + 1)
      BY <1>1, <1>3
    <2>3. QED BY <2>1, <2>2, Zenon DEF Step
  <1>4. \A i \in Nat : i \in S => i + 1 \in S
    BY <1>3
  <1> HIDE DEF S
  <1>5. Nat \subseteq S
    BY <1>2, <1>4, AllNumbers
  <1>6. QED BY <1>5 DEF S, Agree

(* FlattenSeq is such a function's last value.                             *)
LEMMA FlattenIs ==
  ASSUME NEW s, Len(s) \in Nat, Len(s) # 0
  PROVE  \E f : Flattens(s, f, Len(s)) /\ FlattenSeq(s) = f[Len(s)]
  <1> DEFINE F == CHOOSE f : f = [i \in 1..Len(s) |->
                                   IF i = 1 THEN s[i] ELSE f[i - 1] \o s[i]]
  <1>1. FlattenSeq(s) = F[Len(s)]
    BY DEF FlattenSeq
  <1>2. \E f : f = [i \in 1..Len(s) |-> IF i = 1 THEN s[i] ELSE f[i - 1] \o s[i]]
    BY FlattensExists, Zenon DEF Flattens, Step
  <1>3. F = [i \in 1..Len(s) |-> IF i = 1 THEN s[i] ELSE F[i - 1] \o s[i]]
    BY <1>2, Zenon
  <1>4. Flattens(s, F, Len(s))
    BY <1>3, Zenon DEF Flattens, Step
  <1> HIDE DEF F
  <1>5. QED BY <1>1, <1>4, Zenon

LEMMA FlattenOne == \A r : FlattenSeq(<<r>>) = r
  <1> TAKE r
  <1>1. Len(<<r>>) \in Nat /\ Len(<<r>>) # 0
    OBVIOUS
  <1>2. PICK f : Flattens(<<r>>, f, Len(<<r>>)) /\ FlattenSeq(<<r>>) = f[Len(<<r>>)]
    BY <1>1, FlattenIs, Zenon
  <1>3. f = [i \in 1..Len(<<r>>) |-> Step(<<r>>, f, i)] /\ Len(<<r>>) = 1
    BY <1>2 DEF Flattens
  <1>4. f[1] = Step(<<r>>, f, 1)
    BY <1>3
  <1>5. QED BY <1>2, <1>3, <1>4 DEF Step

LEMMA FlattenAppend ==
  ASSUME NEW T, NEW s \in Seq(Seq(T)), NEW x \in Seq(T), s # <<>>
  PROVE  FlattenSeq(Append(s, x)) = FlattenSeq(s) \o x
  <1> DEFINE n == Len(s)
             t == Append(s, x)
  <1>1. n \in Nat /\ n # 0 /\ Len(t) = n + 1 /\ \A i \in 1..n : s[i] = t[i]
    OBVIOUS
  <1>2. t[n + 1] = x
    OBVIOUS
  <1> HIDE DEF n, t
  <1>3. PICK f : Flattens(s, f, n) /\ FlattenSeq(s) = f[n]
    BY <1>1, FlattenIs DEF n
  <1>4. PICK g : Flattens(t, g, n + 1) /\ FlattenSeq(t) = g[n + 1]
    <2>1. Len(t) \in Nat /\ Len(t) # 0
      BY <1>1
    <2>2. QED BY <1>1, <2>1, FlattenIs, Zenon
  <1>5. Agree(f, g, n)
    <2>1. n \in Nat /\ n + 1 \in Nat /\ n <= n + 1
      BY <1>1
    <2>2. Agree(s, t, n)
      BY <1>1 DEF Agree
    <2>3. Flattens(s, f, n) /\ Flattens(t, g, n + 1)
      BY <1>3, <1>4
    <2>4. QED BY <2>1, <2>2, <2>3, FlattensAgree
  <1>6. g[n + 1] = Step(t, g, n + 1)
    <2>1. n + 1 \in 1..(n + 1)
      BY <1>1
    <2>2. QED BY <1>4, <2>1, Zenon DEF Flattens
  <1>7. n \in 1..n /\ n + 1 # 1 /\ (n + 1) - 1 = n
    BY <1>1
  <1>8. g[n + 1] = g[n] \o t[n + 1]
    BY <1>6, <1>7, Zenon DEF Step
  <1>9. QED BY <1>2, <1>3, <1>4, <1>5, <1>7, <1>8, Zenon DEF t, Agree

-----------------------------------------------------------------------------
(* Induction on sequences, in the same form.                               *)
LEMMA AllSequences ==
  ASSUME NEW S, NEW X, <<>> \in X,
         \A s \in Seq(S), e \in S : s \in X => Append(s, e) \in X
  PROVE  Seq(S) \subseteq X
  <1> DEFINE N == {n \in Nat : \A s \in Seq(S) : Len(s) = n => s \in X}
  <1>1. 0 \in N
    OBVIOUS
  <1>2. ASSUME NEW n \in Nat, n \in N, NEW s \in Seq(S), Len(s) = n + 1 PROVE s \in X
    <2> DEFINE front == SubSeq(s, 1, n)
    <2>1. front \in Seq(S) /\ Len(front) = n /\ s[n + 1] \in S
      BY <1>2
    <2>2. s = Append(front, s[n + 1])
      BY <1>2
    <2>3. front \in X
      BY <1>2, <2>1
    <2> HIDE DEF front
    <2>4. Append(front, s[n + 1]) \in X
      BY <2>1, <2>3
    <2>5. QED BY <2>2, <2>4, Zenon
  <1>3. \A n \in Nat : n \in N => n + 1 \in N
    BY <1>2
  <1> HIDE DEF N
  <1>4. Nat \subseteq N
    BY <1>1, <1>3, AllNumbers
  <1>5. QED BY <1>4 DEF N

-----------------------------------------------------------------------------
(* Runs                                                                    *)
LEMMA RepeatType ==
  ASSUME NEW S, NEW s \in S, NEW n \in Nat
  PROVE  Repeat(s, n) \in Seq(S) /\ Len(Repeat(s, n)) = n
  BY DEF Repeat

LEMMA RepeatNone == \A s : Repeat(s, 0) = <<>>
  BY DEF Repeat

LEMMA RepeatOnce == \A s : Repeat(s, 1) = <<s>>
  BY DEF Repeat

LEMMA RepeatLast ==
  ASSUME NEW s, NEW n \in Nat
  PROVE  Repeat(s, n + 1) = Append(Repeat(s, n), s)
  BY DEF Repeat

LEMMA RepeatFirst ==
  ASSUME NEW s, NEW n \in Nat, n # 0
  PROVE  Repeat(s, n) = <<s>> \o Repeat(s, n - 1)
  BY DEF Repeat

-----------------------------------------------------------------------------
(* Expand                                                                  *)
PairsOf(S) == [state: S, count: Nat]
FramesOf(pairs) == [i \in DOMAIN pairs |-> Repeat(pairs[i].state, pairs[i].count)]

LEMMA PairFrames ==
  ASSUME NEW S, NEW p \in PairsOf(S)
  PROVE  Repeat(p.state, p.count) \in Seq(S)
  <1>1. p.state \in S /\ p.count \in Nat
    BY DEF PairsOf
  <1>2. QED BY <1>1, RepeatType

LEMMA EmptyType == \A S : <<>> \in Seq(S)
  OBVIOUS

LEMMA ExpandEmpty == Expand(<<>>) = <<>>
  BY DEF Expand, FlattenSeq

LEMMA FramesOfType ==
  ASSUME NEW S, NEW pairs \in Seq(PairsOf(S))
  PROVE  FramesOf(pairs) \in Seq(Seq(S)) /\ Len(FramesOf(pairs)) = Len(pairs)
  <1>1. \A p \in PairsOf(S) : Repeat(p.state, p.count) \in Seq(S)
    BY PairFrames
  <1>2. DOMAIN pairs = 1..Len(pairs) /\ Len(pairs) \in Nat
    OBVIOUS
  <1>3. \A i \in DOMAIN pairs : pairs[i] \in PairsOf(S)
    OBVIOUS
  <1>4. \A i \in DOMAIN pairs : Repeat(pairs[i].state, pairs[i].count) \in Seq(S)
    BY <1>1, <1>3
  <1>5. QED BY <1>2, <1>4 DEF FramesOf

(* A pair behind adds its frames behind.                                   *)
LEMMA ExpandAppend ==
  ASSUME NEW S, NEW pairs \in Seq(PairsOf(S)), NEW p \in PairsOf(S),
         Expand(pairs) \in Seq(S)
  PROVE  /\ Expand(Append(pairs, p)) = Expand(pairs) \o Repeat(p.state, p.count)
         /\ Expand(Append(pairs, p)) \in Seq(S)
  <1> DEFINE r == Repeat(p.state, p.count)
  <1>1. r \in Seq(S)
    BY PairFrames
  <1>2. FramesOf(Append(pairs, p)) = Append(FramesOf(pairs), r)
    BY DEF FramesOf
  <1>3. FramesOf(pairs) \in Seq(Seq(S)) /\ Len(FramesOf(pairs)) = Len(pairs)
    BY FramesOfType
  <1>4. \A ps : Expand(ps) = FlattenSeq(FramesOf(ps))
    BY DEF Expand, FramesOf
  <1> HIDE DEF r
  <1>5. CASE pairs # <<>>
    <2>1. FramesOf(pairs) # <<>>
      BY <1>3, <1>5
    <2>2. FlattenSeq(Append(FramesOf(pairs), r)) = FlattenSeq(FramesOf(pairs)) \o r
      BY <1>1, <1>3, <2>1, FlattenAppend
    <2>3. Expand(Append(pairs, p)) = Expand(pairs) \o r
      BY <1>2, <1>4, <2>2, Zenon
    <2>4. Expand(pairs) \o r \in Seq(S)
      BY <1>1
    <2>5. QED BY <2>3, <2>4, Zenon DEF r
  <1>6. CASE pairs = <<>>
    <2>1. FramesOf(pairs) = <<>>
      BY <1>3, <1>6
    <2>2. Append(FramesOf(pairs), r) = <<r>>
      BY <2>1
    <2>3. FlattenSeq(<<r>>) = r
      BY FlattenOne
    <2>4. Expand(Append(pairs, p)) = r
      BY <1>2, <1>4, <2>2, <2>3, Zenon
    <2>5. Expand(pairs) = <<>> /\ <<>> \o r = r
      BY <1>1, <1>6, ExpandEmpty
    <2>6. QED BY <1>1, <2>4, <2>5, Zenon DEF r
  <1>7. QED BY <1>5, <1>6

LEMMA ExpandType ==
  ASSUME NEW S, NEW pairs \in Seq(PairsOf(S))
  PROVE  Expand(pairs) \in Seq(S)
  <1> DEFINE X == {s \in Seq(PairsOf(S)) : Expand(s) \in Seq(S)}
  <1>1. <<>> \in X
    BY EmptyType, ExpandEmpty, Zenon
  <1>2. \A s \in Seq(PairsOf(S)), e \in PairsOf(S) : s \in X => Append(s, e) \in X
    BY ExpandAppend
  <1> HIDE DEF X
  <1>3. Seq(PairsOf(S)) \subseteq X
    BY <1>1, <1>2, AllSequences
  <1>4. QED BY <1>3 DEF X

LEMMA ExpandConcat ==
  ASSUME NEW S, NEW a \in Seq(PairsOf(S)), NEW b \in Seq(PairsOf(S))
  PROVE  Expand(a \o b) = Expand(a) \o Expand(b)
  <1> DEFINE X == {s \in Seq(PairsOf(S)) : Expand(a \o s) = Expand(a) \o Expand(s)}
  <1>1. <<>> \in X
    <2>1. a \o <<>> = a /\ Expand(a) \o <<>> = Expand(a)
      BY ExpandType
    <2>2. Expand(a \o <<>>) = Expand(a) \o Expand(<<>>)
      BY <2>1, ExpandEmpty, Zenon
    <2>3. QED BY <2>2, EmptyType, Zenon
  <1>2. ASSUME NEW s \in Seq(PairsOf(S)), NEW e \in PairsOf(S), s \in X
        PROVE  Append(s, e) \in X
    <2> DEFINE r == Repeat(e.state, e.count)
    <2>1. a \o Append(s, e) = Append(a \o s, e) /\ a \o s \in Seq(PairsOf(S))
      OBVIOUS
    <2>2. Expand(a) \in Seq(S) /\ Expand(s) \in Seq(S) /\ Expand(a \o s) \in Seq(S)
      BY <2>1, ExpandType
    <2>3. r \in Seq(S)
      BY PairFrames
    <2>4. /\ Expand(Append(a \o s, e)) = Expand(a \o s) \o r
          /\ Expand(Append(s, e)) = Expand(s) \o r
      BY <2>1, <2>2, ExpandAppend
    <2>5. Expand(a \o s) = Expand(a) \o Expand(s)
      BY <1>2
    <2> HIDE DEF r
    <2>6. (Expand(a) \o Expand(s)) \o r = Expand(a) \o (Expand(s) \o r)
      BY <2>2, <2>3
    <2>7. Append(s, e) \in Seq(PairsOf(S))
      OBVIOUS
    <2>8. Expand(a \o Append(s, e)) = Expand(a) \o Expand(Append(s, e))
      BY <2>1, <2>4, <2>5, <2>6, Zenon
    <2>9. QED BY <2>7, <2>8
  <1> HIDE DEF X
  <1>3. Seq(PairsOf(S)) \subseteq X
    BY <1>2, <1>1, AllSequences
  <1>4. QED BY <1>3 DEF X

(* The first pair's frames come first.                                     *)
LEMMA ExpandHead ==
  ASSUME NEW S, NEW pairs \in Seq(PairsOf(S)), pairs # <<>>
  PROVE  Expand(pairs) = Repeat(Head(pairs).state, Head(pairs).count) \o Expand(Tail(pairs))
  <1> DEFINE h == Head(pairs)
             r == Repeat(h.state, h.count)
  <1>1. h \in PairsOf(S) /\ <<h>> \in Seq(PairsOf(S)) /\ Tail(pairs) \in Seq(PairsOf(S))
    OBVIOUS
  <1>2. pairs = <<h>> \o Tail(pairs) /\ <<h>> = Append(<<>>, h)
    OBVIOUS
  <1>3. r \in Seq(S) /\ <<>> \in Seq(S) /\ <<>> \in Seq(PairsOf(S))
    BY <1>1, PairFrames, EmptyType
  <1> HIDE DEF h
  <1>4. Expand(<<h>>) = <<>> \o r
    BY <1>1, <1>2, <1>3, ExpandAppend, ExpandEmpty
  <1>5. Expand(<<h>>) = r
    BY <1>3, <1>4
  <1>6. Expand(<<h>> \o Tail(pairs)) = Expand(<<h>>) \o Expand(Tail(pairs))
    BY <1>1, ExpandConcat
  <1>7. QED BY <1>2, <1>5, <1>6, Zenon DEF h

-----------------------------------------------------------------------------
(* Suffixes                                                                *)
LEMMA SuffixIs ==
  ASSUME NEW S, NEW s \in Seq(S), NEW t \in Seq(S), IsSuffix(s, t)
  PROVE  \E u \in Seq(S) : t = u \o s
  <1> DEFINE u == SubSeq(t, 1, Len(t) - Len(s))
  <1>1. Len(s) \in Nat /\ Len(t) \in Nat
    OBVIOUS
  <1>2. Len(Reverse(s)) = Len(s) /\ Len(Reverse(t)) = Len(t)
    BY DEF Reverse
  <1>3. /\ Len(s) <= Len(t)
        /\ SubSeq(Reverse(s), 1, Len(s)) = SubSeq(Reverse(t), 1, Len(s))
    BY <1>2 DEF IsSuffix, IsPrefix
  <1>4. \A i \in 1..Len(s) : s[Len(s) - i + 1] = t[Len(t) - i + 1]
    <2>1. \A i \in 1..Len(s) : SubSeq(Reverse(s), 1, Len(s))[i] = s[Len(s) - i + 1]
      BY <1>1 DEF Reverse
    <2>2. \A i \in 1..Len(s) : SubSeq(Reverse(t), 1, Len(s))[i] = t[Len(t) - i + 1]
      BY <1>1, <1>3 DEF Reverse
    <2>3. QED BY <1>3, <2>1, <2>2
  <1>5. \A j \in 1..Len(s) : s[j] = t[Len(t) - Len(s) + j]
    <2>1. ASSUME NEW j \in 1..Len(s) PROVE s[j] = t[Len(t) - Len(s) + j]
      <3>1. Len(s) - j + 1 \in 1..Len(s)
        BY <1>1
      <3>2. /\ Len(s) - (Len(s) - j + 1) + 1 = j
            /\ Len(t) - (Len(s) - j + 1) + 1 = Len(t) - Len(s) + j
        BY <1>1
      <3>3. QED BY <1>4, <3>1, <3>2
    <2>2. QED BY <2>1
  <1>6. u \in Seq(S) /\ t = u \o s
    BY <1>1, <1>3, <1>5
  <1>7. QED BY <1>6

LEMMA ConcatIsSuffix ==
  ASSUME NEW S, NEW u \in Seq(S), NEW s \in Seq(S)
  PROVE  IsSuffix(s, u \o s)
  <1> DEFINE t == u \o s
  <1>1. /\ Len(s) \in Nat /\ Len(u) \in Nat /\ Len(t) = Len(u) + Len(s)
        /\ \A j \in 1..Len(s) : t[Len(u) + j] = s[j]
    OBVIOUS
  <1> HIDE DEF t
  <1>2. Len(Reverse(s)) = Len(s) /\ Len(Reverse(t)) = Len(t)
    BY <1>1 DEF Reverse
  <1>3. ASSUME NEW i \in 1..Len(s)
        PROVE  SubSeq(Reverse(s), 1, Len(s))[i] = SubSeq(Reverse(t), 1, Len(s))[i]
    <2>1. SubSeq(Reverse(s), 1, Len(s))[i] = s[Len(s) - i + 1]
      BY <1>1 DEF Reverse
    <2>2. SubSeq(Reverse(t), 1, Len(s))[i] = t[Len(t) - i + 1]
      BY <1>1 DEF Reverse
    <2>3. Len(s) - i + 1 \in 1..Len(s) /\ Len(t) - i + 1 = Len(u) + (Len(s) - i + 1)
      BY <1>1
    <2>4. QED BY <1>1, <2>1, <2>2, <2>3
  <1>4. SubSeq(Reverse(s), 1, Len(s)) = SubSeq(Reverse(t), 1, Len(s))
    BY <1>1, <1>3
  <1>5. QED BY <1>1, <1>2, <1>4 DEF IsSuffix, IsPrefix, t
=============================================================================
