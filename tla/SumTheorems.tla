---------------------------- MODULE SumTheorems ----------------------------
(***************************************************************************)
(* Laws of the sums the ledger and the cart are made of.  A sum is a       *)
(* recursive function on the subsets of a finite set; each law is proved   *)
(* by induction on the subsets, as the absence of a minimal                *)
(* counterexample.                                                         *)
(***************************************************************************)
EXTENDS Integers, FiniteSets, Functions, FiniteSetTheorems,
        WellFoundedInduction, TLAPS

(***************************************************************************)
(* The image of a finite set is finite, and so is a union.                 *)
(***************************************************************************)
LEMMA ImageFinite ==
  ASSUME NEW S, IsFiniteSet(S), NEW f
  PROVE  IsFiniteSet({f[x] : x \in S})
<1> DEFINE T == {f[x] : x \in S}
           g == [x \in S |-> f[x]]
<1>1. g \in Surjection(S, T)
  BY DEF Surjection
<1> HIDE DEF T, g
<1>2. IsFiniteSet(T)
  BY <1>1, FS_Surjection
<1> QED
  BY <1>2 DEF T

LEMMA UnionFinite ==
  \A S, T : IsFiniteSet(S) /\ IsFiniteSet(T) => IsFiniteSet(S \cup T)
BY FS_Union

-----------------------------------------------------------------------------
Pick(s) == CHOOSE x \in s : TRUE

\* g adds up f on every subset of S.
AddsUp(g, f, S) ==
  g = [s \in SUBSET S |-> IF s = {} THEN 0 ELSE f[Pick(s)] + g[s \ {Pick(s)}]]

Total(f, S) == SumFunctionOnSet(f, S)

(***************************************************************************)
(* Of any collection of finite subsets, one has no smaller one.            *)
(***************************************************************************)
LEMMA SmallestSubset ==
  ASSUME NEW S, IsFiniteSet(S), NEW C \in SUBSET SUBSET S, C # {}
  PROVE  \E s \in C : \A t \in SUBSET s : t # s => t \notin C
<1> DEFINE R == StrictSubsetOrdering(S)
<1>1. FiniteSubsetsOf(S) = SUBSET S
  BY FS_FiniteSubsetsOfFinite
<1>2. IsWellFoundedOn(R, SUBSET S)
  BY <1>1, FS_StrictSubsetOrderingWellFounded
<1> HIDE DEF R
<1>3. PICK s \in C : \A t \in C : <<t, s>> \notin R
  BY <1>2, WFMin
<1>4. ASSUME NEW t \in SUBSET s, t # s, t \in C
      PROVE  FALSE
  <2>1. <<t, s>> \in R
    BY <1>4 DEF R, StrictSubsetOrdering
  <2> QED
    BY <2>1, <1>3, <1>4
<1> QED
  BY <1>3, <1>4

(***************************************************************************)
(* Two functions that add up f on two sets agree where both are defined.   *)
(***************************************************************************)
LEMMA SumsAgree ==
  ASSUME NEW f, NEW S, NEW T, IsFiniteSet(S), S \subseteq T,
         NEW g, NEW h, AddsUp(g, f, S), AddsUp(h, f, T)
  PROVE  \A s \in SUBSET S : g[s] = h[s]
<1> DEFINE C == {s \in SUBSET S : g[s] # h[s]}
<1>1. ASSUME C # {}
      PROVE  FALSE
  <2>1. PICK s \in C : \A t \in SUBSET s : t # s => t \notin C
    <3> HIDE DEF C
    <3>1. C \in SUBSET SUBSET S
      BY DEF C
    <3> QED
      BY <3>1, <1>1, SmallestSubset
  <2>2. s \in SUBSET S /\ s \in SUBSET T
    OBVIOUS
  <2>3. g[s] = IF s = {} THEN 0 ELSE f[Pick(s)] + g[s \ {Pick(s)}]
    BY <2>2 DEF AddsUp
  <2>4. h[s] = IF s = {} THEN 0 ELSE f[Pick(s)] + h[s \ {Pick(s)}]
    BY <2>2 DEF AddsUp
  <2>5. CASE s = {}
    BY <2>3, <2>4, <2>5
  <2>6. CASE s # {}
    <3>1. Pick(s) \in s
      BY <2>6 DEF Pick
    <3>2. g[s \ {Pick(s)}] = h[s \ {Pick(s)}]
      BY <3>1, <2>1, <2>2
    <3> QED
      BY <2>3, <2>4, <2>6, <3>2
  <2> QED
    BY <2>5, <2>6
<1> QED
  BY <1>1

(***************************************************************************)
(* Something adds up f on every finite set.                                *)
(***************************************************************************)
LEMMA SumsExist ==
  ASSUME NEW f, NEW S, IsFiniteSet(S)
  PROVE  \E g : AddsUp(g, f, S)
<1> DEFINE C == {s \in SUBSET S : ~ \E g : AddsUp(g, f, s)}
<1>1. ASSUME C # {}
      PROVE  FALSE
  <2>1. PICK s \in C : \A t \in SUBSET s : t # s => t \notin C
    <3> HIDE DEF C
    <3>1. C \in SUBSET SUBSET S
      BY DEF C
    <3> QED
      BY <3>1, <1>1, SmallestSubset
  <2>2. IsFiniteSet(s)
    BY FS_Subset
  <2>3. \A t \in SUBSET s : t # s => \E g : AddsUp(g, f, t)
    BY <2>1
  <2> DEFINE sum(t) == CHOOSE g : AddsUp(g, f, t)
  <2>4. \A t \in SUBSET s : t # s => AddsUp(sum(t), f, t)
    BY <2>3
  <2> DEFINE below == [t \in (SUBSET s) \ {s} |-> sum(t)[t]]
             top == IF s = {} THEN 0 ELSE f[Pick(s)] + below[s \ {Pick(s)}]
             g == [t \in SUBSET s |-> IF t = s THEN top ELSE sum(t)[t]]
  <2> HIDE DEF sum
  <2>5. ASSUME NEW t \in SUBSET s
        PROVE  g[t] = IF t = {} THEN 0 ELSE f[Pick(t)] + g[t \ {Pick(t)}]
    <3>1. CASE t = {}
      <4>1. CASE t = s
        BY <3>1, <4>1
      <4>2. CASE t # s
        <5>1. AddsUp(sum(t), f, t) /\ t \in SUBSET t
          BY <2>4, <4>2
        <5>2. sum(t)[t] = 0
          BY <5>1, <3>1 DEF AddsUp
        <5> QED
          BY <5>2, <4>2, <3>1
      <4> QED
        BY <4>1, <4>2
    <3>2. CASE t # {}
      <4> DEFINE r == t \ {Pick(t)}
      <4>1. Pick(t) \in t
        BY <3>2 DEF Pick
      <4>2. r \in SUBSET t /\ r # t /\ r \in SUBSET s /\ r # s
        BY <4>1
      <4>3. g[r] = sum(r)[r]
        BY <4>2
      <4>4. CASE t = s
        <5>1. g[t] = f[Pick(t)] + sum(r)[r]
          BY <4>4, <3>2, <4>2
        <5> QED
          BY <5>1, <4>3, <3>2
      <4>5. CASE t # s
        <5>1. AddsUp(sum(t), f, t) /\ AddsUp(sum(r), f, r)
          BY <2>4, <4>2, <4>5
        <5>2. IsFiniteSet(r)
          BY <4>2, <2>2, FS_Subset
        <5>3. sum(r)[r] = sum(t)[r]
          <6> HIDE DEF r
          <6> QED
            BY <5>1, <5>2, <4>2, SumsAgree
        <5>4. sum(t)[t] = f[Pick(t)] + sum(t)[r]
          BY <5>1, <3>2 DEF AddsUp
        <5> QED
          BY <5>3, <5>4, <4>3, <4>5, <3>2
      <4> QED
        BY <4>4, <4>5
    <3> QED
      BY <3>1, <3>2
  <2>6. AddsUp(g, f, s)
    <3>1. g = [t \in SUBSET s |-> g[t]]
      OBVIOUS
    <3> HIDE DEF g
    <3> QED
      BY <3>1, <2>5 DEF AddsUp
  <2> QED
    BY <2>6, <2>1
<1>2. S \notin C
  BY <1>1
<1> QED
  BY <1>2

(***************************************************************************)
(* The sum of the model is one that adds up.                               *)
(***************************************************************************)
LEMMA TotalAddsUp ==
  ASSUME NEW f, NEW S, IsFiniteSet(S)
  PROVE  \E g : AddsUp(g, f, S) /\ Total(f, S) = g[S]
<1> DEFINE g == CHOOSE g : AddsUp(g, f, S)
<1>1. AddsUp(g, f, S)
  BY SumsExist
<1>2. Total(f, S) = g[S]
  BY DEF Total, SumFunctionOnSet, FoldFunctionOnSet, MapThenFoldSet, AddsUp, Pick
<1> QED
  BY <1>1, <1>2

(***************************************************************************)
(* One element, picked by the definition, comes off a sum.                 *)
(***************************************************************************)
LEMMA TotalUnfolds ==
  ASSUME NEW f, NEW S, IsFiniteSet(S)
  PROVE  /\ S = {} => Total(f, S) = 0
         /\ S # {} => /\ Pick(S) \in S
                      /\ Total(f, S) = f[Pick(S)] + Total(f, S \ {Pick(S)})
<1>1. PICK g : AddsUp(g, f, S) /\ Total(f, S) = g[S]
  BY TotalAddsUp
<1>2. g[S] = IF S = {} THEN 0 ELSE f[Pick(S)] + g[S \ {Pick(S)}]
  BY <1>1 DEF AddsUp
<1>3. ASSUME S # {}
      PROVE  Pick(S) \in S /\ g[S \ {Pick(S)}] = Total(f, S \ {Pick(S)})
  <2> DEFINE r == S \ {Pick(S)}
  <2>1. Pick(S) \in S
    BY <1>3 DEF Pick
  <2>2. r \subseteq S /\ r \in SUBSET r /\ IsFiniteSet(r)
    BY FS_Subset
  <2>3. PICK h : AddsUp(h, f, r) /\ Total(f, r) = h[r]
    <3> HIDE DEF r
    <3> QED
      BY <2>2, TotalAddsUp
  <2>4. h[r] = g[r]
    <3> HIDE DEF r
    <3> QED
      BY <2>2, <2>3, <1>1, SumsAgree
  <2> QED
    BY <2>1, <2>3, <2>4
<1> QED
  BY <1>1, <1>2, <1>3

(***************************************************************************)
(* A sum of integers is an integer, and any element comes off it.          *)
(***************************************************************************)
LEMMA TotalRemove ==
  ASSUME NEW f, NEW S, IsFiniteSet(S), \A x \in S : f[x] \in Int
  PROVE  /\ Total(f, S) \in Int
         /\ \A x \in S : Total(f, S) = f[x] + Total(f, S \ {x})
<1> DEFINE Good(s) == /\ Total(f, s) \in Int
                      /\ \A x \in s : Total(f, s) = f[x] + Total(f, s \ {x})
           C == {s \in SUBSET S : ~Good(s)}
<1>1. ASSUME C # {}
      PROVE  FALSE
  <2>1. PICK s \in C : \A t \in SUBSET s : t # s => t \notin C
    <3> HIDE DEF C
    <3>1. C \in SUBSET SUBSET S
      BY DEF C
    <3> QED
      BY <3>1, <1>1, SmallestSubset
  <2>2. \A t \in SUBSET s : t # s => Good(t)
    BY <2>1
  <2>3. \A t \in SUBSET s : IsFiniteSet(t)
    BY FS_Subset
  <2> HIDE DEF Good
  <2>4. CASE s = {}
    <3>1. Total(f, s) = 0
      BY <2>3, <2>4, TotalUnfolds
    <3> QED
      BY <3>1, <2>4, <2>1 DEF Good
  <2>5. CASE s # {}
    <3> DEFINE p == Pick(s)
               r == s \ {p}
    <3>1. p \in s /\ Total(f, s) = f[p] + Total(f, r)
      BY <2>3, <2>5, TotalUnfolds
    <3> HIDE DEF p
    <3>2. Good(r) /\ f[p] \in Int
      BY <2>2, <3>1
    <3>3. Total(f, s) \in Int
      BY <3>1, <3>2 DEF Good
    <3>4. ASSUME NEW x \in s
          PROVE  Total(f, s) = f[x] + Total(f, s \ {x})
      <4>1. CASE x = p
        BY <3>1, <4>1
      <4>2. CASE x # p
        <5> DEFINE q == s \ {x}
                   b == s \ {x, p}
        <5>1. x \in r /\ r \ {x} = b /\ Total(f, r) = f[x] + Total(f, b)
          <6>1. x \in r /\ r \ {x} = b
            BY <4>2
          <6> QED
            BY <6>1, <3>2 DEF Good
        <5>2. p \in q /\ q \ {p} = b /\ Good(q)
          <6>1. q \in SUBSET s /\ q # s
            OBVIOUS
          <6> QED
            BY <6>1, <4>2, <3>1, <2>2
        <5>3. Total(f, q) = f[p] + Total(f, b)
          BY <5>2 DEF Good
        <5>4. Good(b)
          <6>1. b \in SUBSET s /\ b # s
            BY <3>1
          <6> QED
            BY <6>1, <2>2
        <5>5. f[x] \in Int /\ Total(f, b) \in Int
          BY <5>4 DEF Good
        <5> HIDE DEF r, q, b
        <5>6. Total(f, s) = f[x] + Total(f, q)
          BY <3>1, <3>2, <5>1, <5>3, <5>5
        <5> QED
          BY <5>6 DEF q
      <4> QED
        BY <4>1, <4>2
    <3>5. Good(s)
      BY <3>3, <3>4 DEF Good
    <3> QED
      BY <3>5, <2>1
  <2> QED
    BY <2>4, <2>5
<1>2. Good(S)
  BY <1>1
<1> QED
  BY <1>2

\* The sum of nothing.
LEMMA TotalEmpty ==
  ASSUME NEW f
  PROVE  Total(f, {}) = 0
BY FS_EmptySet, TotalUnfolds

(***************************************************************************)
(* Only the terms of a sum count.                                          *)
(***************************************************************************)
LEMMA TotalSame ==
  ASSUME NEW f, NEW h, NEW S, IsFiniteSet(S),
         \A x \in S : f[x] \in Int /\ f[x] = h[x]
  PROVE  Total(f, S) = Total(h, S)
<1> DEFINE C == {s \in SUBSET S : Total(f, s) # Total(h, s)}
<1>1. ASSUME C # {}
      PROVE  FALSE
  <2>1. PICK s \in C : \A t \in SUBSET s : t # s => t \notin C
    <3> HIDE DEF C
    <3>1. C \in SUBSET SUBSET S
      BY DEF C
    <3> QED
      BY <3>1, <1>1, SmallestSubset
  <2>2. IsFiniteSet(s)
    BY FS_Subset
  <2>3. s # {}
    BY <2>1, TotalEmpty
  <2>4. PICK x \in s : TRUE
    BY <2>3
  <2>5. Total(f, s \ {x}) = Total(h, s \ {x})
    <3>1. s \ {x} \in SUBSET s /\ s \ {x} # s
      OBVIOUS
    <3> QED
      BY <3>1, <2>1
  <2>6. Total(f, s) = f[x] + Total(f, s \ {x})
    BY <2>2, TotalRemove
  <2>7. Total(h, s) = h[x] + Total(h, s \ {x})
    <3>1. \A y \in s : h[y] \in Int
      OBVIOUS
    <3> QED
      BY <3>1, <2>2, TotalRemove
  <2> QED
    BY <2>1, <2>5, <2>6, <2>7
<1> QED
  BY <1>1

(***************************************************************************)
(* A sum is the sum over a part and the sum over the rest.                 *)
(***************************************************************************)
LEMMA TotalSplit ==
  ASSUME NEW f, NEW S, IsFiniteSet(S), \A x \in S : f[x] \in Int,
         NEW T \in SUBSET S
  PROVE  Total(f, S) = Total(f, T) + Total(f, S \ T)
<1> DEFINE C == {s \in SUBSET T : Total(f, S) # Total(f, s) + Total(f, S \ s)}
<1>1. ASSUME C # {}
      PROVE  FALSE
  <2>1. PICK s \in C : \A t \in SUBSET s : t # s => t \notin C
    <3> HIDE DEF C
    <3>1. C \in SUBSET SUBSET T /\ IsFiniteSet(T)
      BY FS_Subset DEF C
    <3> QED
      BY <3>1, <1>1, SmallestSubset
  <2>2. /\ IsFiniteSet(s) /\ IsFiniteSet(S \ s)
        /\ \A y \in s : f[y] \in Int
    BY FS_Subset
  <2>3. s # {}
    <3>1. ASSUME s = {}
          PROVE  FALSE
      <4>1. S \ s = S /\ Total(f, s) = 0 /\ Total(f, S) \in Int
        BY <3>1, TotalEmpty, TotalRemove
      <4>2. Total(f, S) # Total(f, s) + Total(f, S \ s)
        BY <2>1
      <4>3. Total(f, S) = 0 + Total(f, S)
        BY <4>1
      <4> QED
        BY <4>1, <4>2, <4>3
    <3> QED
      BY <3>1
  <2>4. PICK x \in s : TRUE
    BY <2>3
  <2> DEFINE r == s \ {x}
             u == S \ r
  <2>5. Total(f, S) = Total(f, r) + Total(f, u)
    <3>1. r \in SUBSET s /\ r # s
      OBVIOUS
    <3> QED
      BY <3>1, <2>1
  <2>6. Total(f, s) = f[x] + Total(f, r)
    BY <2>2, TotalRemove
  <2>7. Total(f, u) = f[x] + Total(f, S \ s)
    <3>1. x \in u /\ u \ {x} = S \ s /\ IsFiniteSet(u) /\ \A y \in u : f[y] \in Int
      BY FS_Subset
    <3> HIDE DEF u
    <3> QED
      BY <3>1, TotalRemove
  <2>8. f[x] \in Int /\ Total(f, r) \in Int /\ Total(f, S \ s) \in Int
    <3>1. IsFiniteSet(r) /\ \A y \in r : f[y] \in Int
      BY <2>2, FS_Subset
    <3> HIDE DEF r
    <3> QED
      BY <3>1, <2>2, TotalRemove
  <2> HIDE DEF r, u
  <2> QED
    BY <2>1, <2>5, <2>6, <2>7, <2>8
<1>2. T \notin C
  BY <1>1
<1> QED
  BY <1>2

(***************************************************************************)
(* Terms that are no debts add up to no debt, and to no more than any      *)
(* superset's.                                                             *)
(***************************************************************************)
LEMMA TotalNat ==
  ASSUME NEW f, NEW S, IsFiniteSet(S), \A x \in S : f[x] \in Nat
  PROVE  Total(f, S) \in Nat
<1> DEFINE C == {s \in SUBSET S : Total(f, s) \notin Nat}
<1>1. ASSUME C # {}
      PROVE  FALSE
  <2>1. PICK s \in C : \A t \in SUBSET s : t # s => t \notin C
    <3> HIDE DEF C
    <3>1. C \in SUBSET SUBSET S
      BY DEF C
    <3> QED
      BY <3>1, <1>1, SmallestSubset
  <2>2. IsFiniteSet(s) /\ \A y \in s : f[y] \in Int
    BY FS_Subset
  <2>3. s # {}
    <3>1. Total(f, {}) \in Nat
      BY TotalEmpty
    <3> QED
      BY <3>1, <2>1
  <2>4. PICK x \in s : TRUE
    BY <2>3
  <2>5. Total(f, s \ {x}) \in Nat
    <3>1. s \ {x} \in SUBSET s /\ s \ {x} # s
      OBVIOUS
    <3> QED
      BY <3>1, <2>1
  <2>6. Total(f, s) = f[x] + Total(f, s \ {x})
    BY <2>2, TotalRemove
  <2>7. f[x] \in Nat
    OBVIOUS
  <2> QED
    BY <2>1, <2>5, <2>6, <2>7
<1> QED
  BY <1>1

\* A part of a sum of natural numbers is no more than the sum.
LEMMA TotalOfPart ==
  ASSUME NEW f, NEW S, IsFiniteSet(S), \A x \in S : f[x] \in Nat,
         NEW T \in SUBSET S
  PROVE  Total(f, T) <= Total(f, S)
<1>1. /\ IsFiniteSet(T) /\ IsFiniteSet(S \ T)
      /\ \A x \in T : f[x] \in Nat
      /\ \A x \in S \ T : f[x] \in Nat
      /\ \A x \in S : f[x] \in Int
  BY FS_Subset
<1>2. Total(f, T) \in Nat /\ Total(f, S \ T) \in Nat
  BY <1>1, TotalNat
<1>3. Total(f, S) = Total(f, T) + Total(f, S \ T)
  BY <1>1, TotalSplit
<1> QED
  BY <1>2, <1>3

(***************************************************************************)
(* Terms that are zero can be left out.                                    *)
(***************************************************************************)
LEMMA TotalOfZeros ==
  ASSUME NEW f, NEW S, IsFiniteSet(S), \A x \in S : f[x] = 0
  PROVE  Total(f, S) = 0
<1> DEFINE C == {s \in SUBSET S : Total(f, s) # 0}
<1>1. ASSUME C # {}
      PROVE  FALSE
  <2>1. PICK s \in C : \A t \in SUBSET s : t # s => t \notin C
    <3> HIDE DEF C
    <3>1. C \in SUBSET SUBSET S
      BY DEF C
    <3> QED
      BY <3>1, <1>1, SmallestSubset
  <2>2. IsFiniteSet(s) /\ \A y \in s : f[y] \in Int
    BY FS_Subset
  <2>3. s # {}
    BY <2>1, TotalEmpty
  <2>4. PICK x \in s : TRUE
    BY <2>3
  <2>5. Total(f, s \ {x}) = 0
    <3>1. s \ {x} \in SUBSET s /\ s \ {x} # s
      OBVIOUS
    <3> QED
      BY <3>1, <2>1
  <2>6. Total(f, s) = f[x] + Total(f, s \ {x})
    BY <2>2, TotalRemove
  <2>7. f[x] = 0
    OBVIOUS
  <2> QED
    BY <2>1, <2>5, <2>6, <2>7
<1> QED
  BY <1>1

(***************************************************************************)
(* Changing one term changes the sum by the difference.                    *)
(***************************************************************************)
LEMMA TotalUpdate ==
  ASSUME NEW f, NEW h, NEW S, IsFiniteSet(S), NEW x \in S,
         \A y \in S : f[y] \in Int /\ h[y] \in Int,
         \A y \in S : y # x => f[y] = h[y]
  PROVE  Total(h, S) = Total(f, S) + h[x] - f[x]
<1> DEFINE r == S \ {x}
<1>1. IsFiniteSet(r) /\ \A y \in r : f[y] \in Int /\ f[y] = h[y]
  BY FS_Subset
<1>2. Total(f, r) = Total(h, r)
  <2> HIDE DEF r
  <2> QED
    BY <1>1, TotalSame
<1>3. Total(f, r) \in Int
  <2> HIDE DEF r
  <2> QED
    BY <1>1, TotalRemove
<1>4. Total(f, S) = f[x] + Total(f, r) /\ Total(h, S) = h[x] + Total(h, r)
  BY TotalRemove
<1> HIDE DEF r
<1> QED
  BY <1>2, <1>3, <1>4
=============================================================================
