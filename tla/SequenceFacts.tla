---------------------------- MODULE SequenceFacts ----------------------------
(***************************************************************************)
(* Facts that the proofs of the other modules share: induction over the     *)
(* natural numbers, stated of sets of numbers; the beginnings of sequences;  *)
(* and sequences joined by FlattenSeq.                                       *)
(***************************************************************************)
EXTENDS SequencesExt, SequenceTheorems, WellFoundedInduction, TLAPS

-----------------------------------------------------------------------------
(* Numbers. *)

\* A set of numbers has a least one.
LEMMA LeastNumber ==
  ASSUME NEW T, T \subseteq Nat, T # {}
  PROVE  \E m \in T : \A k \in T : m <= k
<1>1. IsWellFoundedOn(OpToRel(<, Nat), Nat)  BY NatLessThanWellFounded
<1>2. PICK m \in T : \A k \in T : <<k, m>> \notin OpToRel(<, Nat)  BY <1>1, WFMin, Zenon
<1>3. ASSUME NEW k \in T PROVE m <= k
  <2>1. <<k, m>> \notin OpToRel(<, Nat)  BY <1>2
  <2>2. k \in Nat /\ m \in Nat  OBVIOUS
  <2>3. ~ (k < m)  BY <2>1, <2>2 DEF OpToRel
  <2> QED  BY <2>2, <2>3
<1> QED  BY <1>3

\* A set that has zero, and with a number the next one, has all.
LEMMA Induction ==
  ASSUME NEW T, 0 \in T, \A n \in Nat : n \in T => n + 1 \in T
  PROVE  \A n \in Nat : n \in T
<1> DEFINE Missing == Nat \ T
<1>1. Missing = {}
  <2> SUFFICES ASSUME Missing # {}  PROVE FALSE  OBVIOUS
  <2>1. PICK m \in Missing : \A k \in Missing : m <= k  BY LeastNumber
  <2>2. m \in Nat /\ m # 0 /\ m \notin T  OBVIOUS
  <2>3. m - 1 \in Nat /\ (m - 1) + 1 = m /\ ~ (m <= m - 1)  BY <2>2
  <2>4. m - 1 \in T  BY <2>1, <2>3
  <2> QED  BY <2>2, <2>3, <2>4
<1> QED  BY <1>1

-----------------------------------------------------------------------------
(* The beginnings of a sequence. *)

\* A sequence is the beginning of another one: element by element.
LEMMA PrefixPoints ==
  ASSUME NEW X, NEW s \in Seq(X), NEW t \in Seq(X)
  PROVE  IsPrefix(s, t) <=> /\ Len(s) <= Len(t)
                            /\ \A i \in 1 .. Len(s) : s[i] = t[i]
<1>0. Len(s) \in Nat /\ Len(t) \in Nat  OBVIOUS
<1>1. ASSUME Len(s) <= Len(t), SubSeq(s, 1, Len(s)) = SubSeq(t, 1, Len(s)), NEW i \in 1 .. Len(s)
      PROVE  s[i] = t[i]
  <2>1. SubSeq(s, 1, Len(s))[i] = s[i] /\ SubSeq(t, 1, Len(s))[i] = t[i]  BY <1>0, <1>1
  <2> QED  BY <1>1, <2>1
<1>2. ASSUME Len(s) <= Len(t), \A i \in 1 .. Len(s) : s[i] = t[i]
      PROVE  SubSeq(s, 1, Len(s)) = SubSeq(t, 1, Len(s))
  <2>1. /\ \A i \in 1 .. Len(s) : s[i] \in X /\ t[i] \in X
        /\ Len(s) <= Len(s)
    BY <1>0, <1>2
  <2> DEFINE a == SubSeq(s, 1, Len(s))
             b == SubSeq(t, 1, Len(s))
  <2>2. a \in Seq(X) /\ Len(a) = Len(s) /\ \A i \in 1 .. Len(s) : a[i] = s[i]  BY <1>0, <2>1
  <2>3. b \in Seq(X) /\ Len(b) = Len(s) /\ \A i \in 1 .. Len(s) : b[i] = t[i]  BY <1>0, <1>2, <2>1
  <2> HIDE DEF a, b
  <2>4. a = b  BY <1>2, <2>2, <2>3, SeqEqual
  <2> QED  BY <2>4 DEF a, b
<1> QED  BY <1>1, <1>2 DEF IsPrefix

\* A beginning of a sequence is one of a longer sequence.
LEMMA PrefixGrows ==
  ASSUME NEW X, NEW s \in Seq(X), NEW t \in Seq(X), NEW u \in Seq(X), IsPrefix(s, t)
  PROVE  IsPrefix(s, t \o u)
<1>1. Len(s) <= Len(t) /\ \A i \in 1 .. Len(s) : s[i] = t[i]  BY PrefixPoints
<1>2. t \o u \in Seq(X) /\ Len(t \o u) = Len(t) + Len(u)
      /\ \A i \in 1 .. Len(t) : (t \o u)[i] = t[i]
  OBVIOUS
<1>3. Len(s) \in Nat /\ Len(t) \in Nat /\ Len(u) \in Nat  OBVIOUS
<1> DEFINE v == t \o u
<1> HIDE DEF v
<1>4. v \in Seq(X) /\ Len(s) <= Len(v) /\ \A i \in 1 .. Len(s) : s[i] = v[i]
  BY <1>1, <1>2, <1>3 DEF v
<1>5. IsPrefix(s, v)  BY <1>4, PrefixPoints
<1> QED  BY <1>5 DEF v

\* A sequence begins with itself,
LEMMA PrefixOfSelf ==
  ASSUME NEW X, NEW s \in Seq(X)
  PROVE  IsPrefix(s, s)
BY DEF IsPrefix

\* and with nothing.
LEMMA PrefixNone ==
  ASSUME NEW X, NEW s \in Seq(X)
  PROVE  IsPrefix(<< >>, s)
<1> DEFINE none == << >>
<1>1. none \in Seq(X) /\ Len(none) = 0 /\ Len(s) \in Nat  OBVIOUS
<1> HIDE DEF none
<1>2. Len(none) <= Len(s) /\ \A i \in 1 .. Len(none) : none[i] = s[i]  BY <1>1
<1>3. IsPrefix(none, s)  BY <1>1, <1>2, PrefixPoints
<1> QED  BY <1>3 DEF none

\* A beginning of a beginning is one.
LEMMA PrefixChain ==
  ASSUME NEW X, NEW s \in Seq(X), NEW t \in Seq(X), NEW u \in Seq(X),
         IsPrefix(s, t), IsPrefix(t, u)
  PROVE  IsPrefix(s, u)
<1>1. Len(s) <= Len(t) /\ \A i \in 1 .. Len(s) : s[i] = t[i]  BY PrefixPoints
<1>2. Len(t) <= Len(u) /\ \A i \in 1 .. Len(t) : t[i] = u[i]  BY PrefixPoints
<1>3. Len(s) \in Nat /\ Len(t) \in Nat /\ Len(u) \in Nat  OBVIOUS
<1>4. Len(s) <= Len(u) /\ \A i \in 1 .. Len(s) : s[i] = u[i]  BY <1>1, <1>2, <1>3
<1> QED  BY <1>4, PrefixPoints

\* The same sequence may be put before both.
LEMMA PrefixAfter ==
  ASSUME NEW X, NEW s \in Seq(X), NEW t \in Seq(X), NEW u \in Seq(X), IsPrefix(t, u)
  PROVE  IsPrefix(s \o t, s \o u)
<1>2. Len(t) <= Len(u) /\ \A i \in 1 .. Len(t) : t[i] = u[i]  BY PrefixPoints
<1>3. Len(s) \in Nat /\ Len(t) \in Nat /\ Len(u) \in Nat  OBVIOUS
<1> DEFINE v == s \o t
           w == s \o u
<1>4. /\ v \in Seq(X) /\ Len(v) = Len(s) + Len(t)
      /\ \A i \in 1 .. Len(v) : v[i] = IF i <= Len(s) THEN s[i] ELSE t[i - Len(s)]
  BY ConcatProperties
<1>5. /\ w \in Seq(X) /\ Len(w) = Len(s) + Len(u)
      /\ \A i \in 1 .. Len(w) : w[i] = IF i <= Len(s) THEN s[i] ELSE u[i - Len(s)]
  BY ConcatProperties
<1> HIDE DEF v, w
<1>6. ASSUME NEW i \in 1 .. Len(v) PROVE v[i] = w[i]
  <2>1. i \in 1 .. Len(w)  BY <1>2, <1>3, <1>4, <1>5
  <2>2. CASE i <= Len(s)  BY <1>4, <1>5, <2>1, <2>2
  <2>3. CASE ~ (i <= Len(s))
    <3>1. i - Len(s) \in 1 .. Len(t)  BY <1>3, <1>4, <2>3
    <3> QED  BY <1>2, <1>4, <1>5, <2>1, <2>3, <3>1
  <2> QED  BY <2>2, <2>3
<1>7. Len(v) <= Len(w)  BY <1>2, <1>3, <1>4, <1>5
<1>8. IsPrefix(v, w)  BY <1>4, <1>5, <1>6, <1>7, PrefixPoints
<1> QED  BY <1>8 DEF v, w

-----------------------------------------------------------------------------
(* Sequences joined. *)

\* The recursive function that FlattenSeq defines exists.
LEMMA FlattenExists ==
  ASSUME NEW s
  PROVE  \A n \in Nat : \E f : f = [i \in 1 .. n |-> IF i = 1 THEN s[i] ELSE f[i - 1] \o s[i]]
<1> DEFINE T == {n \in Nat : \E f : f = [i \in 1 .. n |-> IF i = 1 THEN s[i] ELSE f[i - 1] \o s[i]]}
<1>1. 0 \in T
  <2>1. [i \in 1 .. 0 |-> 0]
          = [i \in 1 .. 0 |-> IF i = 1 THEN s[i] ELSE [j \in 1 .. 0 |-> 0][i - 1] \o s[i]]
    OBVIOUS
  <2> QED  BY <2>1
<1>2. ASSUME NEW n \in Nat, n \in T PROVE n + 1 \in T
  <2>1. PICK f : f = [i \in 1 .. n |-> IF i = 1 THEN s[i] ELSE f[i - 1] \o s[i]]  BY <1>2
  <2> DEFINE g == [i \in 1 .. n + 1 |-> IF i = 1 THEN s[i] ELSE f[i - 1] \o s[i]]
  <2>2. \A i \in 1 .. n : g[i] = f[i]
    <3>1. ASSUME NEW i \in 1 .. n PROVE g[i] = f[i]
      <4>1. i \in 1 .. n + 1  OBVIOUS
      <4>2. g[i] = IF i = 1 THEN s[i] ELSE f[i - 1] \o s[i]  BY <4>1
      <4>3. f[i] = IF i = 1 THEN s[i] ELSE f[i - 1] \o s[i]  BY <2>1
      <4> QED  BY <4>2, <4>3
    <3> QED  BY <3>1
  <2>3. \A i \in 1 .. n + 1 : i # 1 => g[i - 1] = f[i - 1]
    <3>1. \A i \in 1 .. n + 1 : i # 1 => i - 1 \in 1 .. n  OBVIOUS
    <3> QED  BY <2>2, <3>1
  <2> DEFINE e(h, i) == IF i = 1 THEN s[i] ELSE h[i - 1] \o s[i]
  <2>4. \A i \in 1 .. n + 1 : e(f, i) = e(g, i)  BY <2>3
  <2>5. g = [i \in 1 .. n + 1 |-> e(f, i)]  OBVIOUS
  <2>6. g = [i \in 1 .. n + 1 |-> e(g, i)] 
    <3> HIDE DEF g, e
    <3> QED BY <2>4, <2>5
  <2> HIDE DEF g
  <2>7. \E h : h = [i \in 1 .. n + 1 |-> IF i = 1 THEN s[i] ELSE h[i - 1] \o s[i]]
    <3>1. g = [i \in 1 .. n + 1 |-> IF i = 1 THEN s[i] ELSE g[i - 1] \o s[i]]  BY <2>6 DEF e
    <3> QED  BY <3>1, Zenon
  <2>8. n + 1 \in Nat  OBVIOUS
  <2> QED  BY <2>7, <2>8
<1> HIDE DEF T
<1>3. \A n \in Nat : n \in T  BY <1>1, <1>2, Induction
<1> QED  BY <1>3 DEF T

\* What FlattenSeq computes is a function, defined by recursion.
LEMMA FlattenUnfolds ==
  ASSUME NEW s, Len(s) \in Nat \ {0}
  PROVE  \E f : /\ f = [i \in 1 .. Len(s) |-> IF i = 1 THEN s[i] ELSE f[i - 1] \o s[i]]
                /\ FlattenSeq(s) = f[Len(s)]
<1> DEFINE g == CHOOSE f : f = [i \in 1 .. Len(s) |-> IF i = 1 THEN s[i] ELSE f[i - 1] \o s[i]]
<1>1. \E f : f = [i \in 1 .. Len(s) |-> IF i = 1 THEN s[i] ELSE f[i - 1] \o s[i]]
  BY FlattenExists
<1>2. g = [i \in 1 .. Len(s) |-> IF i = 1 THEN s[i] ELSE g[i - 1] \o s[i]]
  <2> DEFINE P(f) == f = [i \in 1 .. Len(s) |-> IF i = 1 THEN s[i] ELSE f[i - 1] \o s[i]]
  <2>1. P(CHOOSE f : P(f))
    <3>1. \E f : P(f)  BY <1>1
    <3> HIDE DEF P
    <3> QED  BY <3>1, Zenon
  <2> QED  BY <2>1
<1>3. FlattenSeq(s) = g[Len(s)]
  BY Zenon DEF FlattenSeq
<1> QED  BY <1>2, <1>3

\* One more sequence is joined at the end.
LEMMA FlattenMore ==
  ASSUME NEW X, NEW n \in Nat, NEW s \in Seq(Seq(X)), NEW t \in Seq(Seq(X)),
         Len(t) = n, Len(s) = n + 1, \A i \in 1 .. n : s[i] = t[i]
  PROVE  FlattenSeq(s) = FlattenSeq(t) \o s[n + 1] /\ FlattenSeq(s) \in Seq(X)
<1>0. \A i \in 1 .. n + 1 : s[i] \in Seq(X)  OBVIOUS
<1>1. PICK f : /\ f = [i \in 1 .. n + 1 |-> IF i = 1 THEN s[i] ELSE f[i - 1] \o s[i]]
               /\ FlattenSeq(s) = f[n + 1]
  <2>1. Len(s) \in Nat \ {0}  OBVIOUS
  <2> QED  BY <2>1, FlattenUnfolds
<1>2. \A i \in 1 .. n + 1 : f[i] = IF i = 1 THEN s[i] ELSE f[i - 1] \o s[i]  BY <1>1
<1>2b. ASSUME NEW k \in 1 .. n PROVE f[k + 1] = f[k] \o s[k + 1]
  <2> DEFINE i == k + 1
  <2>1. i \in 1 .. n + 1 /\ i # 1 /\ i - 1 = k  OBVIOUS
  <2> HIDE DEF i
  <2>2. f[i] = f[i - 1] \o s[i]  BY <1>2, <2>1
  <2> QED  BY <2>1, <2>2 DEF i
<1> DEFINE typed == {k \in Nat : k + 1 <= n + 1 => f[k + 1] \in Seq(X)}
<1>3. \A k \in Nat : k \in typed
  <2>1. 0 \in typed
    <3>1. 1 \in 1 .. n + 1  OBVIOUS
    <3> QED  BY <1>0, <1>2, <3>1
  <2>2. ASSUME NEW k \in Nat, k \in typed PROVE k + 1 \in typed
    <3>1. ASSUME k + 1 + 1 <= n + 1 PROVE f[k + 1 + 1] \in Seq(X)
      <4>1. f[k + 1] \in Seq(X)  BY <2>2, <3>1
      <4>2. k + 1 \in 1 .. n /\ k + 1 + 1 \in 1 .. n + 1  BY <3>1
      <4>3. f[k + 1 + 1] = f[k + 1] \o s[k + 1 + 1]  BY <1>2b, <4>2
      <4>4. s[k + 1 + 1] \in Seq(X)  BY <1>0, <4>2
      <4> QED  BY <4>1, <4>3, <4>4
    <3> QED  BY <3>1
  <2> HIDE DEF typed
  <2> QED  BY <2>1, <2>2, Induction
<1>4. FlattenSeq(s) \in Seq(X)
  <2>1. n \in typed  BY <1>3
  <2>2. n \in Nat /\ n + 1 <= n + 1  OBVIOUS
  <2> QED  BY <1>1, <2>1, <2>2
<1>5. CASE n = 0
  <2>1. Len(t) = 0  BY <1>5
  <2>2. FlattenSeq(t) = << >>  BY <2>1 DEF FlattenSeq
  <2>3. FlattenSeq(s) = s[n + 1]  BY <1>1, <1>2, <1>5
  <2>4. s[n + 1] \in Seq(X)  BY <1>0
  <2>5. << >> \o s[n + 1] = s[n + 1]  BY <2>4, ConcatEmptySeq, SMTT(30)
  <2> QED  BY <1>4, <2>2, <2>3, <2>5
<1>6. CASE n # 0
  <2>1. PICK g : /\ g = [i \in 1 .. n |-> IF i = 1 THEN t[i] ELSE g[i - 1] \o t[i]]
                 /\ FlattenSeq(t) = g[n]
    <3>1. Len(t) \in Nat \ {0}  BY <1>6
    <3> QED  BY <3>1, FlattenUnfolds
  <2>2. \A i \in 1 .. n : g[i] = IF i = 1 THEN t[i] ELSE g[i - 1] \o t[i]  BY <2>1
  <2>2b. ASSUME NEW k \in 1 .. n - 1 PROVE g[k + 1] = g[k] \o t[k + 1]
    <3> DEFINE i == k + 1
    <3>1. i \in 1 .. n /\ i # 1 /\ i - 1 = k  OBVIOUS
    <3> HIDE DEF i
    <3>2. g[i] = g[i - 1] \o t[i]  BY <2>2, <3>1
    <3> QED  BY <3>1, <3>2 DEF i
  <2> DEFINE same == {k \in Nat : k + 1 <= n => f[k + 1] = g[k + 1]}
  <2>3. \A k \in Nat : k \in same
    <3>1. 0 \in same
      <4>1. 0 + 1 <= n => 1 \in 1 .. n /\ 1 \in 1 .. n + 1  OBVIOUS
      <4> QED  BY <1>2, <2>2, <4>1
    <3>2. ASSUME NEW k \in Nat, k \in same PROVE k + 1 \in same
      <4>1. ASSUME k + 1 + 1 <= n PROVE f[k + 1 + 1] = g[k + 1 + 1]
        <5>1. f[k + 1] = g[k + 1]  BY <3>2, <4>1
        <5>2. k + 1 \in 1 .. n /\ k + 1 \in 1 .. n - 1 /\ k + 1 + 1 \in 1 .. n  BY <4>1, SMTT(30)
        <5>3. f[k + 1 + 1] = f[k + 1] \o s[k + 1 + 1]  BY <1>2b, <5>2
        <5>4. g[k + 1 + 1] = g[k + 1] \o t[k + 1 + 1]  BY <2>2b, <5>2
        <5>5. s[k + 1 + 1] = t[k + 1 + 1]  BY <5>2
        <5> QED  BY <5>1, <5>3, <5>4, <5>5
      <4> QED  BY <4>1
    <3> HIDE DEF same
    <3> QED  BY <3>1, <3>2, Induction
  <2>4. f[n] = g[n]
    <3>1. n - 1 \in Nat /\ n - 1 + 1 = n /\ n - 1 + 1 <= n  BY <1>6
    <3>2. n - 1 \in same  BY <2>3, <3>1
    <3> QED  BY <3>1, <3>2
  <2>5. n \in 1 .. n  BY <1>6
  <2>6. f[n + 1] = f[n] \o s[n + 1]  BY <1>2b, <2>5
  <2> QED  BY <1>1, <1>4, <2>1, <2>4, <2>6
<1> QED  BY <1>5, <1>6

\* Nothing is joined.
LEMMA FlattenNone ==
  ASSUME NEW s, Len(s) = 0, s = << >>
  PROVE  FlattenSeq(s) = << >>
BY DEF FlattenSeq

\* Sequences joined are a sequence.
LEMMA FlattenTyped ==
  ASSUME NEW X, NEW s \in Seq(Seq(X))
  PROVE  FlattenSeq(s) \in Seq(X)
<1>1. CASE s = << >>
  <2>1. << >> \in Seq(X) /\ Len(s) = 0  BY <1>1
  <2>2. FlattenSeq(s) = << >>  BY <1>1, <2>1, FlattenNone
  <2> QED  BY <2>1, <2>2
<1>2. CASE s # << >>
  <2> DEFINE n == Len(s) - 1
             t == [i \in 1 .. n |-> s[i]]
  <2>1. n \in Nat /\ Len(s) = n + 1  BY <1>2
  <2>2. \A i \in 1 .. n : s[i] \in Seq(X)  BY <2>1
  <2> HIDE DEF n
  <2>3. t \in Seq(Seq(X)) /\ Len(t) = n /\ \A i \in 1 .. n : s[i] = t[i]  BY <2>1, <2>2
  <2> HIDE DEF t
  <2> QED  BY <2>1, <2>3, FlattenMore
<1> QED  BY <1>1, <1>2

\* The first n of some sequences, joined.
Part(w, n) == FlattenSeq([i \in 1 .. n |-> w[i]])

\* It is a sequence.
LEMMA PartTyped ==
  ASSUME NEW X, NEW w \in Seq(Seq(X)), NEW n \in 0 .. Len(w)
  PROVE  Part(w, n) \in Seq(X)
<1>1. [i \in 1 .. n |-> w[i]] \in Seq(Seq(X))
  <2>1. \A i \in 1 .. n : w[i] \in Seq(X)  OBVIOUS
  <2>2. n \in Nat  OBVIOUS
  <2> QED  BY <2>1, <2>2
<1> QED  BY <1>1, FlattenTyped DEF Part

\* None of them, and all of them.
LEMMA PartEnds ==
  ASSUME NEW X, NEW w \in Seq(Seq(X))
  PROVE  Part(w, 0) = << >> /\ Part(w, Len(w)) = FlattenSeq(w)
<1> DEFINE v == [i \in 1 .. 0 |-> w[i]]
<1>1. v = << >>  OBVIOUS
<1>2. Len(v) = 0  BY <1>1
<1>3. FlattenSeq(v) = << >>
  <2> HIDE DEF v
  <2> QED  BY <1>1, <1>2, FlattenNone
<1>4. [i \in 1 .. Len(w) |-> w[i]] = w  OBVIOUS
<1> QED  BY <1>3, <1>4 DEF Part

\* One more of them.
LEMMA PartMore ==
  ASSUME NEW X, NEW w \in Seq(Seq(X)), NEW n \in Nat, n + 1 <= Len(w)
  PROVE  Part(w, n + 1) = Part(w, n) \o w[n + 1]
<1> DEFINE s == [i \in 1 .. n + 1 |-> w[i]]
           t == [i \in 1 .. n |-> w[i]]
<1>1. \A i \in 1 .. n + 1 : w[i] \in Seq(X)
  <2>1. Len(w) \in Nat  OBVIOUS
  <2> QED  BY <2>1
<1>2. s \in Seq(Seq(X)) /\ Len(s) = n + 1 /\ s[n + 1] = w[n + 1]
  <2>1. n + 1 \in Nat /\ n + 1 \in 1 .. n + 1  OBVIOUS
  <2> QED  BY <1>1, <2>1
<1>3. t \in Seq(Seq(X)) /\ Len(t) = n
  <2>1. \A i \in 1 .. n : i \in 1 .. n + 1  OBVIOUS
  <2> QED  BY <1>1, <2>1
<1>4. \A i \in 1 .. n : s[i] = t[i]
  <2>1. \A i \in 1 .. n : i \in 1 .. n + 1  OBVIOUS
  <2> QED  BY <2>1
<1>5. Part(w, n + 1) = FlattenSeq(s) /\ Part(w, n) = FlattenSeq(t)  BY DEF Part
<1> HIDE DEF s, t
<1>6. FlattenSeq(s) = FlattenSeq(t) \o s[n + 1]  BY <1>2, <1>3, <1>4, FlattenMore
<1> QED  BY <1>2, <1>5, <1>6

\* Those that are empty add nothing.
LEMMA PartSkips ==
  ASSUME NEW X, NEW w \in Seq(Seq(X)), NEW m \in Nat, NEW n \in Nat, m <= n, n <= Len(w),
         \A i \in m + 1 .. n : w[i] = << >>
  PROVE  Part(w, n) = Part(w, m)
<1> DEFINE T == {k \in Nat : m + k <= n => Part(w, m + k) = Part(w, m)}
<1>0. Len(w) \in Nat  OBVIOUS
<1>1. 0 \in T
  <2>1. m + 0 = m  OBVIOUS
  <2> QED  BY <2>1
<1>2. ASSUME NEW k \in Nat, k \in T PROVE k + 1 \in T
  <2>1. ASSUME m + (k + 1) <= n PROVE Part(w, m + (k + 1)) = Part(w, m)
    <3> DEFINE a == m + k
    <3>1. a \in Nat /\ a + 1 = m + (k + 1) /\ a + 1 <= Len(w) /\ a \in 0 .. Len(w)
          /\ a + 1 \in m + 1 .. n /\ m + k <= n
      BY <1>0, <2>1
    <3>2. Part(w, a) = Part(w, m)  BY <1>2, <3>1
    <3> HIDE DEF a
    <3>3. Part(w, a + 1) = Part(w, a) \o w[a + 1]  BY <3>1, PartMore
    <3>4. w[a + 1] = << >>  BY <3>1
    <3>5. Part(w, a) \in Seq(X)  BY <3>1, PartTyped
    <3>6. Part(w, a) \o << >> = Part(w, a)  BY <3>5, ConcatEmptySeq
    <3>7. Part(w, a + 1) = Part(w, m)  BY <3>2, <3>3, <3>4, <3>6
    <3> QED  BY <3>1, <3>7
  <2> QED  BY <2>1
<1>3. \A k \in Nat : k \in T
  <2> HIDE DEF T
  <2> QED  BY <1>1, <1>2, Induction
<1>4. n - m \in Nat /\ m + (n - m) = n /\ n <= n  OBVIOUS
<1>5. n - m \in T  BY <1>3, <1>4
<1> QED  BY <1>4, <1>5

\* More of them begin with fewer of them.
LEMMA PartBegins ==
  ASSUME NEW X, NEW w \in Seq(Seq(X)), NEW m \in Nat, NEW n \in Nat, m <= n, n <= Len(w)
  PROVE  IsPrefix(Part(w, m), Part(w, n))
<1> DEFINE T == {k \in Nat : m + k <= n => IsPrefix(Part(w, m), Part(w, m + k))}
<1>0. Len(w) \in Nat /\ m \in 0 .. Len(w) /\ Part(w, m) \in Seq(X)
  <2>1. Len(w) \in Nat /\ m \in 0 .. Len(w)  OBVIOUS
  <2> QED  BY <2>1, PartTyped
<1>1. 0 \in T
  <2>1. m + 0 = m  OBVIOUS
  <2>2. IsPrefix(Part(w, m), Part(w, m))  BY <1>0, PrefixOfSelf
  <2> QED  BY <2>1, <2>2
<1>2. ASSUME NEW k \in Nat, k \in T PROVE k + 1 \in T
  <2>1. ASSUME m + (k + 1) <= n PROVE IsPrefix(Part(w, m), Part(w, m + (k + 1)))
    <3> DEFINE a == m + k
    <3>1. a \in Nat /\ a + 1 = m + (k + 1) /\ a + 1 <= Len(w) /\ a \in 0 .. Len(w)
          /\ a + 1 \in 1 .. Len(w) /\ m + k <= n
      BY <1>0, <2>1
    <3>2. IsPrefix(Part(w, m), Part(w, a))  BY <1>2, <3>1
    <3> HIDE DEF a
    <3>3. Part(w, a + 1) = Part(w, a) \o w[a + 1]  BY <3>1, PartMore
    <3>4. w[a + 1] \in Seq(X) /\ Part(w, a) \in Seq(X)  BY <3>1, PartTyped
    <3>5. IsPrefix(Part(w, m), Part(w, a) \o w[a + 1])  BY <1>0, <3>2, <3>4, PrefixGrows
    <3> QED  BY <3>1, <3>3, <3>5
  <2> QED  BY <2>1
<1>3. \A k \in Nat : k \in T
  <2> HIDE DEF T
  <2> QED  BY <1>1, <1>2, Induction
<1>4. n - m \in Nat /\ m + (n - m) = n /\ n <= n  OBVIOUS
<1>5. n - m \in T  BY <1>3, <1>4
<1> QED  BY <1>4, <1>5

=============================================================================
