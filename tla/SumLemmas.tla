------------------------------- MODULE SumLemmas -------------------------------
(***************************************************************************)
(* What SumFunctionOnSet computes for every finite set: nothing for the    *)
(* empty set, and for any other one element's value and the sum of the     *)
(* rest, whichever element is taken out.                                   *)
(*                                                                         *)
(* The sum folds over its set, in an order that CHOOSE picks, by a         *)
(* recursive function on the subsets of the set.  Every argument below     *)
(* is an induction on the size of a subset.  It is put as the absence of a *)
(* smallest counterexample, from the well-foundedness of the naturals.     *)
(***************************************************************************)
EXTENDS Functions, FiniteSetTheorems, TLAPS

\* One step of the fold: the sum of s, if g has the sums of its subsets.
FoldStep(g, a, s) ==
    IF s = {} THEN 0 ELSE LET x == CHOOSE x \in s : TRUE IN a[x] + g[s \ {x}]

\* g is the function that the fold over S defines.
IsFold(g, a, S) == g = [s \in SUBSET S |-> FoldStep(g, a, s)]

-----------------------------------------------------------------------------
LEMMA LeastNatural ==
    ASSUME NEW T, T \subseteq Nat, T # {}
    PROVE  \E n \in T : \A m \in T : n <= m
<1> DEFINE R == OpToRel(<, Nat)
<1>1. IsWellFoundedOn(R, Nat)
  BY NatLessThanWellFounded
<1> HIDE DEF R
<1>2. \E n \in T : \A m \in T : <<m, n>> \notin R
  BY <1>1, WFMin
<1>3. \A m, n \in Nat : <<m, n>> \notin R => n <= m
  BY DEF R, OpToRel
<1> QED BY <1>2, <1>3

\* A set of subsets that is not empty has a smallest member.
LEMMA SmallestSubset ==
    ASSUME NEW S, IsFiniteSet(S), NEW F, F \subseteq SUBSET S, F # {}
    PROVE  \E s \in F : \A t \in F : Cardinality(s) <= Cardinality(t)
<1> DEFINE T == {Cardinality(s) : s \in F}
<1>1. \A s \in F : Cardinality(s) \in Nat
  BY FS_Subset, FS_CardinalityType
<1>2. T \subseteq Nat /\ T # {}
  BY <1>1
<1>3. PICK n \in T : \A m \in T : n <= m
  BY <1>2, LeastNatural
<1> QED BY <1>3

LEMMA Chosen ==
    ASSUME NEW s, s # {}
    PROVE  (CHOOSE x \in s : TRUE) \in s
OBVIOUS

LEMMA Smaller ==
    ASSUME NEW S, IsFiniteSet(S), NEW s \in SUBSET S, NEW x \in s
    PROVE  /\ s \ {x} \in SUBSET S
           /\ Cardinality(s) \in Nat /\ Cardinality(s \ {x}) \in Nat
           /\ Cardinality(s \ {x}) = Cardinality(s) - 1
<1>1. IsFiniteSet(s)
  BY FS_Subset
<1> QED BY <1>1, FS_RemoveElement, FS_CardinalityType

-----------------------------------------------------------------------------
(* The recursive function exists *)

LEMMA StepType ==
    ASSUME NEW S, NEW a, \A x \in S : a[x] \in Int, NEW g \in [SUBSET S -> Int],
           NEW s \in SUBSET S
    PROVE  FoldStep(g, a, s) \in Int
<1>1. CASE s = {}
  BY <1>1 DEF FoldStep
<1>2. CASE s # {}
  <2> DEFINE x == CHOOSE x \in s : TRUE
  <2>1. x \in s
    BY <1>2, Chosen
  <2> HIDE DEF x
  <2>2. a[x] \in Int /\ g[s \ {x}] \in Int
    BY <2>1
  <2>3. a[x] + g[s \ {x}] \in Int
    BY <2>2
  <2> QED BY <1>2, <2>3 DEF FoldStep, x
<1> QED BY <1>1, <1>2

\* Two functions that agree on smaller sets take the same step.
LEMMA StepSame ==
    ASSUME NEW S, IsFiniteSet(S), NEW a, NEW g, NEW h, NEW s \in SUBSET S,
           \A t \in SUBSET S : Cardinality(t) < Cardinality(s) => g[t] = h[t]
    PROVE  FoldStep(g, a, s) = FoldStep(h, a, s)
<1>1. CASE s = {}
  BY <1>1 DEF FoldStep
<1>2. CASE s # {}
  <2> DEFINE x == CHOOSE x \in s : TRUE
  <2>1. x \in s
    BY <1>2, Chosen
  <2> HIDE DEF x
  <2>2. g[s \ {x}] = h[s \ {x}]
    BY <2>1, Smaller
  <2> QED BY <1>2, <2>2 DEF FoldStep, x
<1> QED BY <1>1, <1>2

\* g has the sums of the sets of at most n elements.
SumsUpTo(g, a, S, n) ==
    /\ g \in [SUBSET S -> Int]
    /\ \A s \in SUBSET S : Cardinality(s) <= n => g[s] = FoldStep(g, a, s)

LEMMA OneMore ==
    ASSUME NEW S, IsFiniteSet(S), NEW a, \A x \in S : a[x] \in Int, NEW n \in Int,
           NEW g, SumsUpTo(g, a, S, n)
    PROVE  \E h : SumsUpTo(h, a, S, n + 1)
<1> DEFINE h == [s \in SUBSET S |-> IF Cardinality(s) <= n THEN g[s] ELSE FoldStep(g, a, s)]
<1>1. g \in [SUBSET S -> Int]
  BY DEF SumsUpTo
<1>2. \A s \in SUBSET S : Cardinality(s) \in Nat
  BY FS_Subset, FS_CardinalityType
<1>3. h \in [SUBSET S -> Int]
  BY <1>1, StepType
<1>4. \A s \in SUBSET S : h[s] = IF Cardinality(s) <= n THEN g[s] ELSE FoldStep(g, a, s)
  OBVIOUS
<1> HIDE DEF h
<1>5. ASSUME NEW s \in SUBSET S, Cardinality(s) <= n + 1
      PROVE  h[s] = FoldStep(h, a, s)
  <2>1. \A t \in SUBSET S : Cardinality(t) < Cardinality(s) => g[t] = h[t]
    BY <1>2, <1>4, <1>5
  <2>2. FoldStep(g, a, s) = FoldStep(h, a, s)
    BY <2>1, StepSame
  <2>3. h[s] = FoldStep(g, a, s)
    BY <1>4 DEF SumsUpTo
  <2> QED BY <2>2, <2>3
<1>6. SumsUpTo(h, a, S, n + 1)
  BY <1>3, <1>5 DEF SumsUpTo
<1> QED BY <1>6

LEMMA SumsExist ==
    ASSUME NEW S, IsFiniteSet(S), NEW a, \A x \in S : a[x] \in Int
    PROVE  \A n \in Nat : \E g : SumsUpTo(g, a, S, n)
<1> DEFINE T == {n \in Nat : ~ \E g : SumsUpTo(g, a, S, n)}
<1>1. SUFFICES ASSUME T # {} PROVE FALSE
  OBVIOUS
<1>2. PICK n \in T : \A m \in T : n <= m
  BY <1>1, LeastNatural
<1>3. \E g : SumsUpTo(g, a, S, n - 1)
  <2>1. CASE n = 0
    <3> DEFINE g == [s \in SUBSET S |-> 0]
    <3>1. \A s \in SUBSET S : Cardinality(s) \in Nat
      BY FS_Subset, FS_CardinalityType
    <3>2. SumsUpTo(g, a, S, n - 1)
      BY <2>1, <3>1 DEF SumsUpTo
    <3> QED BY <3>2
  <2>2. CASE n # 0
    <3>1. n - 1 \in Nat /\ n - 1 \notin T
      BY <1>2, <2>2
    <3> QED BY <3>1
  <2> QED BY <2>1, <2>2
<1>4. n - 1 \in Int /\ (n - 1) + 1 = n
  BY <1>2
<1>5. \E g : SumsUpTo(g, a, S, n)
  BY <1>3, <1>4, OneMore
<1> QED BY <1>2, <1>5

LEMMA FoldExists ==
    ASSUME NEW S, IsFiniteSet(S), NEW a, \A x \in S : a[x] \in Int
    PROVE  \E g \in [SUBSET S -> Int] : IsFold(g, a, S)
<1>1. Cardinality(S) \in Nat
  BY FS_CardinalityType
<1>2. PICK g : SumsUpTo(g, a, S, Cardinality(S))
  BY <1>1, SumsExist
<1>3. g \in [SUBSET S -> Int] /\ \A s \in SUBSET S : g[s] = FoldStep(g, a, s)
  BY <1>2, FS_Subset DEF SumsUpTo
<1>4. g = [s \in SUBSET S |-> FoldStep(g, a, s)]
  BY <1>3
<1> QED BY <1>3, <1>4 DEF IsFold

LEMMA SumIsFold ==
    ASSUME NEW S, IsFiniteSet(S), NEW a, \A x \in S : a[x] \in Int
    PROVE  \E g \in [SUBSET S -> Int] : IsFold(g, a, S) /\ SumFunctionOnSet(a, S) = g[S]
<1> DEFINE g == CHOOSE g : IsFold(g, a, S)
<1>1. SumFunctionOnSet(a, S) = g[S]
  BY DEF SumFunctionOnSet, FoldFunctionOnSet, MapThenFoldSet, IsFold, FoldStep
<1>2. IsFold(g, a, S)
  BY FoldExists
<1> HIDE DEF g
<1>3. PICK h \in [SUBSET S -> Int] : IsFold(h, a, S)
  BY FoldExists
<1>4. g = h
  <2> DEFINE F == {s \in SUBSET S : g[s] # h[s]}
  <2>1. ASSUME F # {} PROVE FALSE
    <3>1. PICK s \in F : \A t \in F : Cardinality(s) <= Cardinality(t)
      <4>1. F \subseteq SUBSET S
        OBVIOUS
      <4> HIDE DEF F
      <4> QED BY <2>1, <4>1, SmallestSubset
    <3>2. \A t \in SUBSET S : Cardinality(t) \in Nat
      BY FS_Subset, FS_CardinalityType
    <3>3. \A t \in SUBSET S : Cardinality(t) < Cardinality(s) => g[t] = h[t]
      BY <3>1, <3>2
    <3>4. FoldStep(g, a, s) = FoldStep(h, a, s)
      BY <3>1, <3>3, StepSame
    <3> QED BY <1>2, <1>3, <3>1, <3>4 DEF IsFold
  <2>2. DOMAIN g = SUBSET S /\ DOMAIN h = SUBSET S
    BY <1>2, <1>3 DEF IsFold
  <2>3. g = [s \in SUBSET S |-> g[s]] /\ h = [s \in SUBSET S |-> h[s]]
    BY <1>2, <1>3 DEF IsFold
  <2> QED BY <2>1, <2>2, <2>3
<1> QED BY <1>1, <1>3, <1>4

-----------------------------------------------------------------------------
(* The order does not matter *)

\* The sum of s is the value of p and the sum of the rest.
TakesOut(g, a, s, p) == g[s] = a[p] + g[s \ {p}]

LEMMA FoldAt ==
    ASSUME NEW S, IsFiniteSet(S), NEW a, NEW g, IsFold(g, a, S), NEW s \in SUBSET S, s # {}
    PROVE  \E x \in s : TakesOut(g, a, s, x)
<1> DEFINE x == CHOOSE x \in s : TRUE
<1>1. x \in s
  BY Chosen
<1>2. TakesOut(g, a, s, x)
  BY DEF IsFold, FoldStep, TakesOut
<1> QED BY <1>1, <1>2

\* Any element can be the one that is taken out.
LEMMA FoldWithout ==
    ASSUME NEW S, IsFiniteSet(S), NEW a, \A x \in S : a[x] \in Int,
           NEW g \in [SUBSET S -> Int], IsFold(g, a, S), NEW R \in SUBSET S, NEW q \in R
    PROVE  TakesOut(g, a, R, q)
<1> DEFINE F == {s \in SUBSET S : \E p \in s : ~TakesOut(g, a, s, p)}
<1>1. SUFFICES ASSUME F # {} PROVE FALSE
  OBVIOUS
<1>2. PICK s \in F : \A t \in F : Cardinality(s) <= Cardinality(t)
  BY <1>1, SmallestSubset
<1>3. PICK p \in s : ~TakesOut(g, a, s, p)
  BY <1>2
<1>4. PICK x \in s : TakesOut(g, a, s, x)
  BY <1>2, <1>3, FoldAt
<1>5. x # p
  BY <1>3, <1>4
<1>6. ASSUME NEW r \in s PROVE s \ {r} \in SUBSET S /\ s \ {r} \notin F
  <2>1. /\ s \ {r} \in SUBSET S
        /\ Cardinality(s) \in Nat /\ Cardinality(s \ {r}) \in Nat
        /\ Cardinality(s \ {r}) = Cardinality(s) - 1
    BY <1>2, <1>6, Smaller
  <2>2. ~(Cardinality(s) <= Cardinality(s \ {r}))
    BY <2>1
  <2> HIDE DEF F
  <2> QED BY <1>2, <2>1, <2>2
<1>7. p \in s \ {x} /\ x \in s \ {p}
  BY <1>3, <1>4, <1>5
<1>8. TakesOut(g, a, s \ {x}, p) /\ TakesOut(g, a, s \ {p}, x)
  BY <1>6, <1>7
<1>9. (s \ {x}) \ {p} = (s \ {p}) \ {x}
  OBVIOUS
<1>10. a[x] \in Int /\ a[p] \in Int /\ g[(s \ {p}) \ {x}] \in Int
  BY <1>2, <1>7
<1>11. TakesOut(g, a, s, p)
  <2> DEFINE u == a[x]
             v == a[p]
             w == g[(s \ {p}) \ {x}]
  <2>1. u \in Int /\ v \in Int /\ w \in Int
    BY <1>10
  <2>2. g[s] = u + (v + w) /\ g[s \ {p}] = u + w
    BY <1>4, <1>8, <1>9 DEF TakesOut
  <2> HIDE DEF u, v, w
  <2>3. g[s] = v + g[s \ {p}]
    BY <2>1, <2>2
  <2> QED BY <2>3 DEF v, TakesOut
<1> QED BY <1>3, <1>11

\* The sum of a part is the same wherever the fold starts.
LEMMA FoldOfPart ==
    ASSUME NEW S, IsFiniteSet(S), NEW a, NEW g, IsFold(g, a, S),
           NEW R \in SUBSET S, NEW h, IsFold(h, a, R)
    PROVE  \A s \in SUBSET R : g[s] = h[s]
<1> DEFINE F == {s \in SUBSET R : g[s] # h[s]}
<1>1. SUFFICES ASSUME F # {} PROVE FALSE
  OBVIOUS
<1>2. IsFiniteSet(R)
  BY FS_Subset
<1>3. PICK s \in F : \A t \in F : Cardinality(s) <= Cardinality(t)
  <2>1. F \subseteq SUBSET R
    OBVIOUS
  <2> HIDE DEF F
  <2> QED BY <1>1, <1>2, <2>1, SmallestSubset
<1>4. \A t \in SUBSET R : Cardinality(t) \in Nat
  BY <1>2, FS_Subset, FS_CardinalityType
<1>5. \A t \in SUBSET R : Cardinality(t) < Cardinality(s) => g[t] = h[t]
  BY <1>3, <1>4
<1>6. FoldStep(g, a, s) = FoldStep(h, a, s)
  BY <1>2, <1>3, <1>5, StepSame
<1> QED BY <1>3, <1>6 DEF IsFold

-----------------------------------------------------------------------------
\* Nothing adds up to nothing.
THEOREM SumOfNone == ASSUME NEW a PROVE SumFunctionOnSet(a, {}) = 0
<1>1. IsFiniteSet({})
  BY FS_EmptySet
<1>2. PICK g \in [SUBSET {} -> Int] : IsFold(g, a, {}) /\ SumFunctionOnSet(a, {}) = g[{}]
  BY <1>1, SumIsFold
<1> QED BY <1>2 DEF IsFold, FoldStep

\* SumFunctionOnSet adds up the values of every finite set, one element after the
\* other in whatever order.
THEOREM SumOfRest ==
    ASSUME NEW S, IsFiniteSet(S), NEW a, \A x \in S : a[x] \in Int, NEW p \in S
    PROVE  /\ SumFunctionOnSet(a, S) = a[p] + SumFunctionOnSet(a, S \ {p})
           /\ SumFunctionOnSet(a, S \ {p}) \in Int
<1>1. PICK g \in [SUBSET S -> Int] : IsFold(g, a, S) /\ SumFunctionOnSet(a, S) = g[S]
  BY SumIsFold
<1>2. IsFiniteSet(S \ {p}) /\ S \ {p} \in SUBSET S
  BY FS_RemoveElement
<1>3. PICK h \in [SUBSET (S \ {p}) -> Int] :
        IsFold(h, a, S \ {p}) /\ SumFunctionOnSet(a, S \ {p}) = h[S \ {p}]
  BY <1>2, SumIsFold
<1>4. TakesOut(g, a, S, p)
  <2>1. g \in [SUBSET S -> Int] /\ IsFold(g, a, S) /\ S \in SUBSET S
    BY <1>1
  <2> QED BY <2>1, FoldWithout
<1>5. g[S \ {p}] = h[S \ {p}]
  BY <1>1, <1>2, <1>3, FoldOfPart
<1> QED BY <1>1, <1>3, <1>4, <1>5 DEF TakesOut

\* The sum of a set that gets an element.
THEOREM SumOfMore ==
    ASSUME NEW S, IsFiniteSet(S), NEW p, p \notin S, NEW a,
           \A x \in S \cup {p} : a[x] \in Int
    PROVE  SumFunctionOnSet(a, S \cup {p}) = SumFunctionOnSet(a, S) + a[p]
<1>1. IsFiniteSet(S \cup {p}) /\ (S \cup {p}) \ {p} = S
  BY FS_AddElement
<1>2. /\ SumFunctionOnSet(a, S \cup {p}) = a[p] + SumFunctionOnSet(a, S)
      /\ SumFunctionOnSet(a, S) \in Int
  BY <1>1, SumOfRest
<1> QED BY <1>2
=============================================================================
