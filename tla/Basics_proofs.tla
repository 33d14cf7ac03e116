------------------------------ MODULE Basics_proofs ------------------------------
(***************************************************************************)
(* What the proofs about the components share.                             *)
(*                                                                         *)
(* Induction over the natural numbers is stated for sets: the library's    *)
(* induction theorems have an operator as a parameter, a set can be given  *)
(* by any comprehension.  A message is taken apart with Occurs, which says *)
(* what lies at which offset of it.                                        *)
(***************************************************************************)
EXTENDS Integers, Sequences, SequenceTheorems, WellFoundedInduction, TLAPS

\* A nonempty set of natural numbers has a least element.
LEMMA LeastElement ==
  ASSUME NEW T, T \subseteq Nat, T # {}
  PROVE  \E x \in T : \A y \in T : x <= y
<1> DEFINE R == OpToRel(<, Nat)
<1>1. IsWellFoundedOn(R, Nat)
  BY NatLessThanWellFounded, Zenon
<1> HIDE DEF R
<1>2. PICK x \in T : \A y \in T : ~ (<<y, x>> \in R)
  BY <1>1, WFMin, Zenon
<1>3. \A a, b \in Nat : a < b => <<a, b>> \in R
  BY DEF R, OpToRel
<1>4. \A y \in T : ~(y < x)
  BY <1>2, <1>3
<1> QED
  BY <1>4

\* A set that has zero and every successor has every natural number.
LEMMA SetInduction ==
  ASSUME NEW S, 0 \in S, \A n \in Nat : n \in S => n + 1 \in S
  PROVE  Nat \subseteq S
<1> SUFFICES ASSUME ~(Nat \subseteq S) PROVE FALSE
  OBVIOUS
<1> DEFINE T == Nat \ S
<1>1. PICK x \in T : \A y \in T : x <= y
  BY LeastElement
<1>2. x # 0 /\ x - 1 \in Nat /\ x - 1 \notin T
  BY <1>1
<1> QED
  BY <1>2

\* A function that is computed from left to right, each value from the last.
Computes(f, n, base, step) ==
  f = [k \in 0 .. n |-> IF k = 0 THEN base ELSE step[k][f[k - 1]]]

\* There is one, and its values have the type of the steps.
LEMMA RecursionExists ==
  ASSUME NEW V, NEW base \in V, NEW step \in [Nat -> [V -> V]], NEW n \in Nat
  PROVE  \E f \in [0 .. n -> V] : Computes(f, n, base, step)
<1> DEFINE Good(f, m) == f \in [0 .. m -> V] /\ Computes(f, m, base, step)
           S == {m \in Nat : \E f : Good(f, m)}
<1>1. 0 \in S
  <2>1. Good([k \in 0 .. 0 |-> base], 0)
    BY DEF Computes
  <2> QED
    BY <2>1
<1>2. ASSUME NEW m \in Nat, m \in S PROVE m + 1 \in S
  <2>1. PICK f : Good(f, m)
    BY <1>2
  <2> DEFINE g == [k \in 0 .. (m + 1) |-> IF k = m + 1 THEN step[m + 1][f[m]] ELSE f[k]]
  <2>2. \A k \in 0 .. m : f[k] \in V /\ f[k] = IF k = 0 THEN base ELSE step[k][f[k - 1]]
    BY <2>1 DEF Computes
  <2>3. \A k \in 0 .. m : g[k] = f[k]
    OBVIOUS
  <2>4. step[m + 1][f[m]] \in V
    BY <2>2
  <2>5. g \in [0 .. (m + 1) -> V]
    BY <2>2, <2>4
  <2>6. ASSUME NEW k \in 0 .. (m + 1)
        PROVE  g[k] = IF k = 0 THEN base ELSE step[k][g[k - 1]]
    <3>1. CASE k = m + 1
      BY <2>3, <3>1
    <3>2. CASE k # m + 1
      BY <2>2, <2>3, <3>2
    <3> QED
      BY <3>1, <3>2
  <2>7. Computes(g, m + 1, base, step)
    BY <2>6 DEF Computes
  <2> HIDE DEF g
  <2> QED
    BY <2>5, <2>7
<1>3. n \in S
  <2> HIDE DEF S
  <2> QED
    BY <1>1, <1>2, SetInduction
<1> QED
  BY <1>3
-----------------------------------------------------------------------------
\* A sequence is a function on its positions.
LEMMA SeqIsFunction ==
  ASSUME NEW S, NEW s \in Seq(S)
  PROVE  Len(s) \in Nat /\ s \in [1 .. Len(s) -> S]
OBVIOUS

\* The sequence t lies in s, behind its first o elements.
Occurs(s, o, t) ==
  /\ o \in Nat /\ o + Len(t) <= Len(s)
  /\ \A j \in 1 .. Len(t) : s[o + j] = t[j]

\* A sequence lies in itself.
LEMMA OccursSelf ==
  ASSUME NEW S, NEW s \in Seq(S)
  PROVE  Occurs(s, 0, s)
BY DEF Occurs

\* Two sequences, one behind the other.
LEMMA OccursConcat ==
  ASSUME NEW S, NEW a \in Seq(S), NEW b \in Seq(S)
  PROVE  /\ a \o b \in Seq(S) /\ Len(a \o b) = Len(a) + Len(b)
         /\ Occurs(a \o b, 0, a) /\ Occurs(a \o b, Len(a), b)
<1>1. Len(a) \in Nat /\ Len(b) \in Nat
  OBVIOUS
<1>2. Len(a \o b) = Len(a) + Len(b)
  OBVIOUS
<1>3. \A j \in 1 .. Len(a) : (a \o b)[0 + j] = a[j]
  OBVIOUS
<1>4. \A j \in 1 .. Len(b) : (a \o b)[Len(a) + j] = b[j]
  OBVIOUS
<1> QED
  BY <1>1, <1>2, <1>3, <1>4 DEF Occurs

\* What lies in a part lies in the whole.
LEMMA OccursIn ==
  ASSUME NEW s, NEW t, NEW u, NEW o, NEW p,
         Len(s) \in Nat, Len(t) \in Nat, Len(u) \in Nat,
         Occurs(s, o, t), Occurs(t, p, u)
  PROVE  Occurs(s, o + p, u)
<1>1. /\ o \in Nat /\ p \in Nat /\ o + Len(t) <= Len(s) /\ p + Len(u) <= Len(t)
      /\ \A j \in 1 .. Len(t) : s[o + j] = t[j]
      /\ \A j \in 1 .. Len(u) : t[p + j] = u[j]
  BY DEF Occurs
<1>2. o + p \in Nat /\ (o + p) + Len(u) <= Len(s)
  BY <1>1
<1>3. ASSUME NEW j \in 1 .. Len(u) PROVE s[(o + p) + j] = u[j]
  <2>1. p + j \in 1 .. Len(t) /\ o + (p + j) = (o + p) + j
    BY <1>1
  <2>2. s[o + (p + j)] = t[p + j] /\ t[p + j] = u[j]
    BY <1>1, <2>1
  <2> QED
    BY <2>1, <2>2
<1> QED
  BY <1>2, <1>3 DEF Occurs

\* What lies in the first of two sequences lies in both together.
LEMMA OccursLeft ==
  ASSUME NEW S, NEW a \in Seq(S), NEW b \in Seq(S), NEW x \in Seq(S), NEW o, Occurs(a, o, x)
  PROVE  Occurs(a \o b, o, x)
<1>1. a \o b \in Seq(S) /\ Occurs(a \o b, 0, a)
  BY OccursConcat
<1>2. Len(a \o b) \in Nat /\ Len(a) \in Nat /\ Len(x) \in Nat /\ o \in Nat
  BY <1>1 DEF Occurs
<1>3. Occurs(a \o b, 0 + o, x)
  BY <1>1, <1>2, OccursIn
<1> QED
  BY <1>2, <1>3

\* The same, with everything that can be said of two sequences put together.
LEMMA Joined ==
  ASSUME NEW S, NEW a \in Seq(S), NEW b \in Seq(S)
  PROVE  /\ a \o b \in Seq(S) /\ Len(a \o b) = Len(a) + Len(b)
         /\ Occurs(a \o b, 0, a) /\ Occurs(a \o b, Len(a), b)
         /\ \A x \in Seq(S) : \A o : Occurs(a, o, x) => Occurs(a \o b, o, x)
BY OccursConcat, OccursLeft

\* A sequence that is as long as its part is that part.
LEMMA OccursWhole ==
  ASSUME NEW S, NEW s \in Seq(S), NEW t \in Seq(S), Occurs(s, 0, t), Len(s) = Len(t)
  PROVE  s = t
<1>1. \A j \in 1 .. Len(t) : s[j] = t[j]
  BY DEF Occurs
<1> QED
  BY <1>1, SeqEqual

\* The first elements of a sequence.
LEMMA OccursPrefix ==
  ASSUME NEW S, NEW s \in Seq(S), NEW n \in 0 .. Len(s)
  PROVE  /\ SubSeq(s, 1, n) \in Seq(S) /\ Len(SubSeq(s, 1, n)) = n
         /\ Occurs(s, 0, SubSeq(s, 1, n))
<1>1. \A k \in 1 .. n : s[k] \in S
  OBVIOUS
<1>2. /\ SubSeq(s, 1, n) \in Seq(S)
      /\ Len(SubSeq(s, 1, n)) = IF 1 <= n THEN n - 1 + 1 ELSE 0
      /\ \A k \in 1 .. (n - 1 + 1) : SubSeq(s, 1, n)[k] = s[1 + k - 1]
  BY <1>1, SubSeqProperties
<1>3. Len(SubSeq(s, 1, n)) = n /\ \A k \in 1 .. n : SubSeq(s, 1, n)[k] = s[k]
  BY <1>2
<1> QED
  BY <1>2, <1>3 DEF Occurs
===================================================================================
