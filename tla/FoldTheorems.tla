---------------------------- MODULE FoldTheorems ----------------------------
(***************************************************************************)
(* What MapThenFoldSet computes is a function on the subsets of 1..n, and  *)
(* to say that there is just one takes an induction.  It is done here with *)
(* least elements of sets of naturals, and the step of the fold is given   *)
(* as a function, so that a fold of any operator that keeps to a set can   *)
(* cite it.                                                                *)
(***************************************************************************)
EXTENDS Naturals, FiniteSetsExt, SequencesExt, WellFoundedInduction, TLAPS

Before == {p \in Nat \X Nat : p[1] < p[2]}

LEMMA LeastNatural ==
    ASSUME NEW S \in SUBSET Nat, S # {}
    PROVE  \E x \in S : \A y \in S : x <= y
  <1>1. IsWellFoundedOn(Before, Nat)
    BY NatLessThanWellFounded DEF OpToRel, Before
  <1>2. PICK x \in S : \A y \in S : ~(<<y, x>> \in Before)
    BY <1>1, WFMin
  <1>3. ASSUME NEW y \in S PROVE x <= y
    <2>1. x \in Nat /\ y \in Nat  OBVIOUS
    <2>2. ~(y < x)  BY <1>2, <2>1 DEF Before
    <2> QED  BY <2>1, <2>2
  <1> QED  BY <1>3

\* The operators Min and Max choose what there is.
LEMMA MinOfSet ==
    ASSUME NEW S \in SUBSET Nat, S # {}
    PROVE  Min(S) \in S /\ \A y \in S : Min(S) <= y
  BY LeastNatural DEF Min

LEMMA MaxOfSet ==
    ASSUME NEW n \in Nat, NEW S \in SUBSET (1..n), S # {}
    PROVE  Max(S) \in S /\ \A y \in S : y <= Max(S)
  <1> DEFINE T == {n - y : y \in S}
  <1>1. T \in SUBSET Nat /\ T # {}
    <2>1. \A y \in S : n - y \in Nat  OBVIOUS
    <2> QED  BY <2>1
  <1>2. PICK x \in T : \A y \in T : x <= y  BY <1>1, LeastNatural
  <1>3. PICK m \in S : x = n - m  BY <1>2
  <1>4. \A y \in S : n - y \in T  OBVIOUS
  <1>5. \A y \in S : m >= y  BY <1>2, <1>3, <1>4
  <1> QED  BY <1>3, <1>5 DEF Max

\* A set of naturals that contains n whenever it contains everything below n.
LEMMA Everything ==
    ASSUME NEW S, \A n \in Nat : (\A m \in Nat : m < n => m \in S) => n \in S
    PROVE  \A n \in Nat : n \in S
  <1> SUFFICES ASSUME Nat \ S # {} PROVE FALSE  OBVIOUS
  <1>1. PICK x \in Nat \ S : \A y \in Nat \ S : x <= y  BY LeastNatural
  <1>2. \A m \in Nat : m < x => m \in S  BY <1>1
  <1> QED  BY <1>1, <1>2

------------------------------------------------------------------------------
\* A set of indices without its greatest one lies below it.
LEMMA WithoutMax ==
    ASSUME NEW n \in Nat, NEW t \in SUBSET (1..n), t # {}
    PROVE  Max(t) \in t /\ Max(t) \in 1..n /\ t \ {Max(t)} \in SUBSET (1..(Max(t) - 1))
  <1>1. Max(t) \in t /\ \A y \in t : y <= Max(t)  BY MaxOfSet
  <1>2. \A y \in t \ {Max(t)} : y \in 1..n /\ y <= Max(t) /\ y # Max(t)  BY <1>1
  <1>3. Max(t) \in 1..n  BY <1>1
  <1> HIDE DEF Max
  <1>4. \A y \in t \ {Max(t)} : y \in 1..(Max(t) - 1)  BY <1>2, <1>3
  <1> QED  BY <1>1, <1>3, <1>4

\* g folds step over the sets of indices, from base.
Folding(g, D, base, step) ==
    g = [t \in D |-> IF t = {} THEN base ELSE step[<<Max(t), g[t \ {Max(t)}]>>]]

LEMMA FoldExists ==
    ASSUME NEW n \in Nat, NEW T, NEW base \in T, NEW step \in [(1..n) \X T -> T]
    PROVE  \E g \in [SUBSET (1..n) -> T] : Folding(g, SUBSET (1..n), base, step)
  <1> DEFINE Has(k) == \E g \in [SUBSET (1..k) -> T] : Folding(g, SUBSET (1..k), base, step)
             S == {k \in Nat : k <= n => Has(k)}
  <1>1. ASSUME NEW k \in Nat, \A m \in Nat : m < k => m \in S, k <= n
        PROVE  Has(k)
    <2>1. CASE k = 0
      <3> DEFINE g == [t \in SUBSET (1..k) |-> base]
      <3>1. \A t \in SUBSET (1..k) : t = {}  BY <2>1
      <3>2. g \in [SUBSET (1..k) -> T]  OBVIOUS
      <3>3. Folding(g, SUBSET (1..k), base, step)  BY <3>1 DEF Folding
      <3> QED  BY <3>2, <3>3
    <2>2. CASE k > 0
      <3>1. k - 1 \in Nat /\ k - 1 < k /\ k - 1 <= n  BY <1>1, <2>2
      <3>2. Has(k - 1)  BY <1>1, <3>1
      <3>3. PICK f \in [SUBSET (1..(k - 1)) -> T] :
                Folding(f, SUBSET (1..(k - 1)), base, step)
        BY <3>2
      <3> DEFINE g == [t \in SUBSET (1..k) |->
                          IF t = {} THEN base ELSE step[<<Max(t), f[t \ {Max(t)}]>>]]
      <3>4. ASSUME NEW t \in SUBSET (1..k), t # {}
            PROVE  Max(t) \in 1..n /\ t \ {Max(t)} \in SUBSET (1..(k - 1))
        <4>1. Max(t) \in 1..k /\ t \ {Max(t)} \in SUBSET (1..(Max(t) - 1))
          BY <3>4, WithoutMax
        <4> HIDE DEF Max
        <4>2. 1..(Max(t) - 1) \subseteq 1..(k - 1) /\ Max(t) \in 1..n  BY <1>1, <4>1
        <4> QED  BY <4>1, <4>2
      <3>5. ASSUME NEW t \in SUBSET (1..k) PROVE g[t] \in T
        <4>1. CASE t = {}  BY <4>1
        <4>2. CASE t # {}
          <5>1. f[t \ {Max(t)}] \in T /\ Max(t) \in 1..n  BY <4>2, <3>4
          <5>2. step[<<Max(t), f[t \ {Max(t)}]>>] \in T  BY <5>1
          <5> QED  BY <4>2, <5>2
        <4> QED  BY <4>1, <4>2
      <3>6. ASSUME NEW u \in SUBSET (1..(k - 1)) PROVE g[u] = f[u]
        <4>1. u \in SUBSET (1..k)  BY <3>1
        <4> QED  BY <4>1, <3>3 DEF Folding
      <3>7. \A t \in SUBSET (1..k) :
                g[t] = IF t = {} THEN base ELSE step[<<Max(t), g[t \ {Max(t)}]>>]
        BY <3>4, <3>6
      <3>8. g \in [SUBSET (1..k) -> T]  BY <3>5
      <3>9. g = [t \in SUBSET (1..k) |-> g[t]]  OBVIOUS
      <3> HIDE DEF g
      <3>10. Folding(g, SUBSET (1..k), base, step)  BY <3>7, <3>9 DEF Folding
      <3> QED  BY <3>8, <3>10
    <2>3. k = 0 \/ k > 0  OBVIOUS
    <2> HIDE DEF Has, S
    <2> QED  BY <2>1, <2>2, <2>3
  <1> HIDE DEF Has
  <1>2. \A k \in Nat : k \in S  BY <1>1, Everything
  <1>3. Has(n)  BY <1>2
  <1> QED  BY <1>3 DEF Has

\* Whatever folds keeps to a set when base is in it and every step stays there.
LEMMA FoldKeeps ==
    ASSUME NEW n \in Nat, NEW T, NEW g, g[{}] \in T,
           \A t \in SUBSET (1..n) : t # {} /\ g[t \ {Max(t)}] \in T => g[t] \in T
    PROVE  \A t \in SUBSET (1..n) : g[t] \in T
  <1> DEFINE S == {k \in Nat : k <= n => \A t \in SUBSET (1..k) : g[t] \in T}
  <1>1. ASSUME NEW k \in Nat, \A m \in Nat : m < k => m \in S, k <= n,
               NEW t \in SUBSET (1..k)
        PROVE  g[t] \in T
    <2>1. CASE t = {}  BY <2>1
    <2>2. CASE t # {}
      <3>1. Max(t) \in 1..k /\ t \ {Max(t)} \in SUBSET (1..(Max(t) - 1))
        BY <2>2, WithoutMax
      <3> HIDE DEF Max
      <3>2. Max(t) - 1 \in Nat /\ Max(t) - 1 < k /\ Max(t) - 1 <= n  BY <1>1, <3>1
      <3>3. g[t \ {Max(t)}] \in T  BY <1>1, <3>1, <3>2
      <3>4. t \in SUBSET (1..n)  BY <1>1
      <3> QED  BY <2>2, <3>3, <3>4
    <2> QED  BY <2>1, <2>2
  <1>2. \A k \in Nat : k \in S  BY <1>1, Everything
  <1> QED  BY <1>2
=============================================================================
