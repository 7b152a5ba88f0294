---------------------------- MODULE SequenceFacts ----------------------------
(***************************************************************************)
(* Facts about flattened sequences that the proofs of Drivers need: what a *)
(* sequence of sequences becomes is a sequence of the elements of all.     *)
(*                                                                         *)
(* FlattenSeq is a recursive function.  That the function exists, and what *)
(* it computes, is proved by looking at the least number for which it      *)
(* would fail, of which the well-foundedness of < says that there is one.  *)
(***************************************************************************)
EXTENDS SequencesExt, WellFoundedInduction, TLAPS

LEMMA LeastNumber ==
  ASSUME NEW T, T \subseteq Nat, T # {}
  PROVE  \E x \in T : \A y \in T : x <= y
<1> DEFINE R == {p \in Nat \X Nat : p[1] < p[2]}
<1>1. R = OpToRel(<, Nat)
  BY DEF OpToRel
<1>2. IsWellFoundedOn(R, Nat)
  BY <1>1, NatLessThanWellFounded, Zenon
<1> HIDE DEF R
<1>3. PICK x \in T : \A y \in T : <<y, x>> \notin R
  BY <1>2, WFMin, Zenon
<1>4. ASSUME NEW y \in T PROVE x <= y
  <2>1. x \in Nat /\ y \in Nat
    OBVIOUS
  <2>2. y < x => <<y, x>> \in R
    BY <2>1 DEF R
  <2>3. QED
    BY <1>3, <2>1, <2>2
<1>5. QED
  BY <1>4

(* Induction from 1 to n.                                                  *)
LEMMA UpTo ==
  ASSUME NEW n \in Nat, NEW G, 1 \in G,
         \A m \in 1 .. n - 1 : m \in G => m + 1 \in G
  PROVE  1 .. n \subseteq G
<1> DEFINE T == 1 .. n \ G
<1> SUFFICES ASSUME T # {} PROVE FALSE
  OBVIOUS
<1>1. PICK x \in T : \A y \in T : x <= y
  <2>1. T \subseteq Nat
    OBVIOUS
  <2>2. QED
    BY <2>1, LeastNumber
<1>2. x - 1 \in 1 .. n - 1 /\ x - 1 \notin T
  BY <1>1
<1>3. (x - 1) + 1 = x
  BY <1>1
<1>4. QED
  BY <1>1, <1>2, <1>3

-----------------------------------------------------------------------------
LEMMA Concatenated ==
  ASSUME NEW X, NEW s \in Seq(X), NEW t \in Seq(X)
  PROVE  s \o t \in Seq(X) /\ ToSet(s \o t) = ToSet(s) \cup ToSet(t)
<1>1. /\ s \o t \in Seq(X) /\ Len(s \o t) = Len(s) + Len(t)
      /\ \A i \in 1 .. Len(s) + Len(t) :
           (s \o t)[i] = IF i <= Len(s) THEN s[i] ELSE t[i - Len(s)]
  OBVIOUS
<1>2. ToSet(s \o t) \subseteq ToSet(s) \cup ToSet(t)
  BY <1>1 DEF ToSet
<1>3. ASSUME NEW x \in ToSet(s) PROVE x \in ToSet(s \o t)
  BY <1>1 DEF ToSet
<1>4. ASSUME NEW x \in ToSet(t) PROVE x \in ToSet(s \o t)
  <2>1. PICK i \in 1 .. Len(t) : x = t[i]
    BY DEF ToSet
  <2>2. Len(s) + i \in 1 .. Len(s) + Len(t) /\ (s \o t)[Len(s) + i] = x
    BY <1>1, <2>1
  <2>3. QED
    BY <1>1, <2>2 DEF ToSet
<1>5. QED
  BY <1>1, <1>2, <1>3, <1>4

(* What the first m of the sequences become.                               *)
Flattens(f, s, m) ==
    f = [i \in 1 .. m |-> IF i = 1 THEN s[i] ELSE f[i - 1] \o s[i]]

LEMMA FlattenExists ==
  ASSUME NEW s, NEW n \in Nat \ {0}
  PROVE  \E f : Flattens(f, s, n)
<1> DEFINE G == {m \in 1 .. n : \E f : Flattens(f, s, m)}
<1>1. 1 \in G
  <2> DEFINE f == [i \in 1 .. 1 |-> s[i]]
  <2>1. Flattens(f, s, 1)
    BY DEF Flattens
  <2>2. QED
    BY <2>1
<1>2. ASSUME NEW m \in 1 .. n - 1, m \in G PROVE m + 1 \in G
  <2>1. PICK f : Flattens(f, s, m)
    BY <1>2
  <2> DEFINE g == [i \in 1 .. m + 1 |-> IF i = m + 1 THEN f[m] \o s[m + 1] ELSE f[i]]
  <2>2. \A i \in 1 .. m : f[i] = IF i = 1 THEN s[i] ELSE f[i - 1] \o s[i]
    BY <2>1 DEF Flattens
  <2>3. \A i \in 1 .. m + 1 : g[i] = IF i = 1 THEN s[i] ELSE g[i - 1] \o s[i]
    <3> SUFFICES ASSUME NEW i \in 1 .. m + 1
                 PROVE  g[i] = IF i = 1 THEN s[i] ELSE g[i - 1] \o s[i]
      OBVIOUS
    <3>1. CASE i = m + 1
      <4>1. i - 1 = m /\ m \in 1 .. m + 1 /\ m # m + 1 /\ i # 1
        BY <3>1
      <4>2. g[i] = f[m] \o s[i] /\ g[m] = f[m]
        BY <3>1, <4>1
      <4>3. QED
        BY <4>1, <4>2
    <3>2. CASE i # m + 1
      <4>1. i \in 1 .. m /\ g[i] = f[i] /\ (i # 1 => i - 1 \in 1 .. m /\ g[i - 1] = f[i - 1])
        BY <3>2
      <4>2. QED
        BY <2>2, <4>1
    <3>3. QED
      BY <3>1, <3>2
  <2>4. Flattens(g, s, m + 1)
    <3>1. g = [i \in 1 .. m + 1 |-> g[i]]
      OBVIOUS
    <3> HIDE DEF g
    <3>2. QED
      BY <2>3, <3>1 DEF Flattens
  <2>5. QED
    BY <2>4
<1>3. 1 .. n \subseteq G
  <2> HIDE DEF G
  <2>1. QED
    BY <1>1, <1>2, UpTo
<1>4. QED
  BY <1>3

(* Nothing is lost and nothing is added.                                   *)
THEOREM Flattened ==
  ASSUME NEW X, NEW s \in Seq(Seq(X))
  PROVE  /\ FlattenSeq(s) \in Seq(X)
         /\ ToSet(FlattenSeq(s)) = UNION {ToSet(s[i]) : i \in DOMAIN s}
<1> DEFINE n == Len(s)
<1>1. n \in Nat /\ DOMAIN s = 1 .. n /\ \A i \in 1 .. n : s[i] \in Seq(X)
  OBVIOUS
<1>2. CASE n = 0
  <2>1. s = << >> /\ FlattenSeq(s) = s
    BY <1>2 DEF FlattenSeq
  <2>2. << >> \in Seq(X) /\ ToSet(<< >>) = {} /\ DOMAIN s = {}
    BY <2>1 DEF ToSet
  <2>3. QED
    BY <2>1, <2>2
<1>3. CASE n # 0
  <2>1. PICK f : FlattenSeq(s) = f[n] /\ Flattens(f, s, n)
    <3> DEFINE P(g) == g = [i \in 1 .. Len(s) |-> IF i = 1 THEN s[i] ELSE g[i - 1] \o s[i]]
               f == CHOOSE g : P(g)
    <3>1. FlattenSeq(s) = f[n]
      BY <1>3, Zenon DEF FlattenSeq
    <3>2. \E g : P(g)
      <4>1. PICK g : Flattens(g, s, n)
        BY <1>1, <1>3, FlattenExists
      <4>2. P(g)
        BY <4>1 DEF Flattens
      <4>3. QED
        BY <4>2
    <3> HIDE DEF P
    <3>3. P(f)
      BY <3>2
    <3>4. QED
      BY <3>1, <3>3 DEF P, Flattens
  <2>2. \A i \in 1 .. n : f[i] = IF i = 1 THEN s[i] ELSE f[i - 1] \o s[i]
    BY <2>1 DEF Flattens
  <2> DEFINE All(m) == UNION {ToSet(s[i]) : i \in 1 .. m}
             G == {m \in 1 .. n : f[m] \in Seq(X) /\ ToSet(f[m]) = All(m)}
  <2>3. 1 \in G
    <3>1. f[1] = s[1] /\ s[1] \in Seq(X) /\ 1 \in 1 .. n
      BY <1>1, <1>3, <2>2
    <3>2. All(1) = ToSet(s[1])
      OBVIOUS
    <3>3. QED
      BY <3>1, <3>2
  <2>4. ASSUME NEW m \in 1 .. n - 1, m \in G PROVE m + 1 \in G
    <3>1. m + 1 \in 1 .. n /\ f[m + 1] = f[m] \o s[m + 1] /\ s[m + 1] \in Seq(X)
      <4>1. m + 1 \in 1 .. n /\ m + 1 # 1 /\ (m + 1) - 1 = m
        BY <1>1
      <4>2. QED
        BY <1>1, <2>2, <4>1
    <3>2. f[m + 1] \in Seq(X) /\ ToSet(f[m + 1]) = ToSet(f[m]) \cup ToSet(s[m + 1])
      BY <2>4, <3>1, Concatenated
    <3>3. All(m + 1) = All(m) \cup ToSet(s[m + 1])
      <4>1. 1 .. m + 1 = 1 .. m \cup {m + 1}
        OBVIOUS
      <4>2. QED
        BY <4>1
    <3>4. QED
      BY <2>4, <3>1, <3>2, <3>3
  <2>5. n \in G
    <3> HIDE DEF G
    <3>1. 1 .. n \subseteq G
      BY <1>1, <2>3, <2>4, UpTo
    <3>2. QED
      BY <1>1, <1>3, <3>1
  <2>6. QED
    BY <1>1, <2>1, <2>5
<1>4. QED
  BY <1>2, <1>3
=============================================================================
