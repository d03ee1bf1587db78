--------------------------------- MODULE Sums ---------------------------------
(***************************************************************************)
(* What a sum over a finite set is, and a fold over a sequence.  The       *)
(* models add up volumes, frozen lots and money with SumFunctionOnSet:     *)
(* these lemmas take such a sum apart, one element at a time, whatever     *)
(* order the fold chose.  A fold over a sequence that carries a value      *)
(* along is a run of values, each made of the one before.                  *)
(*                                                                         *)
(* Induction is over a set: G is a set of good numbers or subsets, and a   *)
(* least bad one leads to a contradiction.                                 *)
(***************************************************************************)
EXTENDS FiniteSetsExt, FiniteSetTheorems, TLAPS

-----------------------------------------------------------------------------
(* Induction.                                                              *)

LEMMA NatSetInduction ==
    ASSUME NEW G, 0 \in G, \A n \in Nat : n \in G => n + 1 \in G
    PROVE  Nat \subseteq G
<1> SUFFICES ASSUME {n \in Nat : n \notin G} # {} PROVE FALSE
  OBVIOUS
<1> DEFINE B == {n \in Nat : n \notin G}
<1>1. PICK x \in B : \A y \in B : << y, x >> \notin OpToRel(<, Nat)
  <2>1. B \subseteq Nat /\ B # {}
    OBVIOUS
  <2> HIDE DEF B
  <2> QED  BY <2>1, WFMin, NatLessThanWellFounded
<1>2. x \in Nat /\ x # 0 /\ x - 1 \in Nat
  OBVIOUS
<1>3. x - 1 \in B
  BY <1>2
<1>4. << x - 1, x >> \in OpToRel(<, Nat)
  BY <1>2 DEF OpToRel
<1> QED  BY <1>1, <1>3, <1>4

\* The least of a set of naturals.
LEMMA MinBelongs ==
    ASSUME NEW s, s \subseteq Nat, s # {}
    PROVE  Min(s) \in s /\ \A j \in s : Min(s) <= j
<1>1. PICK k \in s : \A j \in s : << j, k >> \notin OpToRel(<, Nat)
  BY WFMin, NatLessThanWellFounded
<1>2. ASSUME NEW j \in s PROVE k <= j
  <2>1. << j, k >> \in Nat \X Nat /\ k \in Nat
    OBVIOUS
  <2> QED  BY <1>1, <2>1 DEF OpToRel
<1> QED  BY <1>2 DEF Min

\* A nonempty set is good when each set with one element less is.
LEMMA SubsetInduction ==
    ASSUME NEW S, IsFiniteSet(S), NEW G, {} \in G,
           \A R \in SUBSET S : R # {} /\ (\A x \in R : R \ {x} \in G) => R \in G
    PROVE  \A R \in SUBSET S : R \in G
<1> DEFINE N == {n \in Nat : \A R \in SUBSET S : Cardinality(R) = n => R \in G}
<1>1. \A R \in SUBSET S : IsFiniteSet(R) /\ Cardinality(R) \in Nat
  BY FS_Subset, FS_CardinalityType
<1>2. 0 \in N
  <2>1. \A R \in SUBSET S : Cardinality(R) = 0 => R = {}
    BY <1>1, FS_EmptySet
  <2> QED  BY <2>1
<1>3. ASSUME NEW n \in Nat, n \in N PROVE n + 1 \in N
  <2>1. SUFFICES ASSUME NEW R \in SUBSET S, Cardinality(R) = n + 1 PROVE R \in G
    OBVIOUS
  <2>2. R # {}
    BY <2>1, FS_EmptySet
  <2>3. \A x \in R : Cardinality(R \ {x}) = n
    BY <2>1, <1>1, FS_RemoveElement
  <2>4. \A x \in R : R \ {x} \in G
    BY <2>3, <1>3
  <2> QED  BY <2>2, <2>4
<1>4. Nat \subseteq N
  <2> HIDE DEF N
  <2> QED  BY <1>2, <1>3, NatSetInduction
<1> QED  BY <1>1, <1>4

-----------------------------------------------------------------------------
(* The recursive function a sum is defined by.                             *)

Sole(s) == CHOOSE x \in s : TRUE

Partial(f, g, s) == IF s = {} THEN 0 ELSE f[Sole(s)] + g[s \ {Sole(s)}]

Iter(f, S) == CHOOSE iter : iter = [s \in SUBSET S |-> Partial(f, iter, s)]

LEMMA SumIsIter ==
    ASSUME NEW f, NEW S
    PROVE  SumFunctionOnSet(f, S) = Iter(f, S)[S]
BY DEF SumFunctionOnSet, FoldFunctionOnSet, MapThenFoldSet, Iter, Partial, Sole

LEMMA SoleBelongs == ASSUME NEW s, s # {} PROVE Sole(s) \in s
BY DEF Sole

\* The function exists: one that is right up to n elements is made right for n + 1.
LEMMA IterExists ==
    ASSUME NEW f, NEW S, IsFiniteSet(S)
    PROVE  \E iter : iter = [s \in SUBSET S |-> Partial(f, iter, s)]
<1> DEFINE Right(g, n) == \A s \in SUBSET S : Cardinality(s) <= n => g[s] = Partial(f, g, s)
           Extends(g, n) == [s \in SUBSET S |-> IF Cardinality(s) <= n THEN g[s]
                                                ELSE Partial(f, g, s)]
           G == {n \in Nat : \E g : Right(g, n)}
<1>1. \A s \in SUBSET S : IsFiniteSet(s) /\ Cardinality(s) \in Nat
  BY FS_Subset, FS_CardinalityType
<1>2. 0 \in G
  <2>1. \A s \in SUBSET S : Cardinality(s) <= 0 => s = {}
    BY <1>1, FS_EmptySet
  <2>2. Right([s \in SUBSET S |-> 0], 0)
    BY <2>1 DEF Partial
  <2> QED  BY <2>2
<1>3. ASSUME NEW n \in Nat, n \in G PROVE n + 1 \in G
  <2>1. PICK g : Right(g, n)
    BY <1>3
  <2> DEFINE h == Extends(g, n)
  <2>2. ASSUME NEW s \in SUBSET S, Cardinality(s) <= n + 1 PROVE h[s] = Partial(f, g, s)
    BY <2>1, <2>2
  <2>3. ASSUME NEW s \in SUBSET S, Cardinality(s) <= n + 1
        PROVE  Partial(f, h, s) = Partial(f, g, s)
    <3>1. CASE s = {}
      BY <3>1 DEF Partial
    <3>2. CASE s # {}
      <4>1. Cardinality(s \ {Sole(s)}) = Cardinality(s) - 1 /\ s \ {Sole(s)} \in SUBSET S
        BY <1>1, <3>2, SoleBelongs, FS_RemoveElement
      <4>2. Cardinality(s \ {Sole(s)}) <= n
        BY <1>1, <2>3, <4>1
      <4>3. h[s \ {Sole(s)}] = g[s \ {Sole(s)}]
        BY <4>1, <4>2
      <4> HIDE DEF h
      <4> QED  BY <3>2, <4>3 DEF Partial
    <3> QED  BY <3>1, <3>2
  <2>4. Right(h, n + 1)
    <3> HIDE DEF h
    <3> QED  BY <2>2, <2>3
  <2> HIDE DEF h
  <2> QED  BY <2>4
<1>4. Cardinality(S) \in G
  <2>1. Nat \subseteq G
    <3> HIDE DEF G
    <3> QED  BY <1>2, <1>3, NatSetInduction
  <2> QED  BY <1>1, <2>1
<1>5. PICK g : Right(g, Cardinality(S))
  BY <1>4
<1>6. \A s \in SUBSET S : g[s] = Partial(f, g, s)
  BY <1>5, FS_Subset
<1> DEFINE h == [s \in SUBSET S |-> g[s]]
<1>7. \A s \in SUBSET S : h[s] = Partial(f, h, s)
  <2>1. ASSUME NEW s \in SUBSET S PROVE Partial(f, g, s) = Partial(f, h, s)
    <3>1. s \ {Sole(s)} \in SUBSET S
      OBVIOUS
    <3> QED  BY <3>1 DEF Partial
  <2> QED  BY <1>6, <2>1
<1>8. h = [s \in SUBSET S |-> Partial(f, h, s)]
  BY <1>7
<1> HIDE DEF h
<1> QED  BY <1>8

LEMMA IterUnfolds ==
    ASSUME NEW f, NEW S, IsFiniteSet(S)
    PROVE  /\ Iter(f, S)[{}] = 0
           /\ \A s \in SUBSET S : s # {} =>
                 Iter(f, S)[s] = f[Sole(s)] + Iter(f, S)[s \ {Sole(s)}]
<1>1. Iter(f, S) = [s \in SUBSET S |-> Partial(f, Iter(f, S), s)]
  BY IterExists DEF Iter
<1>2. \A s \in SUBSET S : Iter(f, S)[s] = Partial(f, Iter(f, S), s)
  BY <1>1
<1> QED  BY <1>2 DEF Partial

LEMMA IterAgrees ==
    ASSUME NEW f, NEW S, IsFiniteSet(S), NEW Q \in SUBSET S
    PROVE  Iter(f, Q)[Q] = Iter(f, S)[Q]
<1> DEFINE G == {R \in SUBSET Q : Iter(f, Q)[R] = Iter(f, S)[R]}
<1>1. IsFiniteSet(Q)
  BY FS_Subset
<1>2. {} \in G
  BY <1>1, IterUnfolds
<1>3. ASSUME NEW R \in SUBSET Q, R # {}, \A x \in R : R \ {x} \in G PROVE R \in G
  <2>1. Iter(f, Q)[R \ {Sole(R)}] = Iter(f, S)[R \ {Sole(R)}]
    BY <1>3, SoleBelongs
  <2>2. Iter(f, Q)[R] = f[Sole(R)] + Iter(f, Q)[R \ {Sole(R)}]
    <3>1. \A s \in SUBSET Q : s # {} =>
             Iter(f, Q)[s] = f[Sole(s)] + Iter(f, Q)[s \ {Sole(s)}]
      BY <1>1, IterUnfolds
    <3> QED  BY <1>3, <3>1
  <2>3. Iter(f, S)[R] = f[Sole(R)] + Iter(f, S)[R \ {Sole(R)}]
    BY <1>3, IterUnfolds
  <2> QED  BY <2>1, <2>2, <2>3
<1>4. \A R \in SUBSET Q : R \in G
  <2> HIDE DEF G
  <2> QED  BY <1>1, <1>2, <1>3, SubsetInduction
<1> QED  BY <1>4

-----------------------------------------------------------------------------
(* Sums.                                                                   *)

LEMMA SumEmpty == ASSUME NEW f PROVE SumFunctionOnSet(f, {}) = 0
BY SumIsIter, IterUnfolds, FS_EmptySet

LEMMA SumUnfolds ==
    ASSUME NEW f, NEW S, IsFiniteSet(S), S # {}
    PROVE  SumFunctionOnSet(f, S) = f[Sole(S)] + SumFunctionOnSet(f, S \ {Sole(S)})
<1>1. S \ {Sole(S)} \in SUBSET S
  OBVIOUS
<1> QED  BY <1>1, SumIsIter, IterUnfolds, IterAgrees

LEMMA SumType ==
    ASSUME NEW f, NEW S, IsFiniteSet(S), \A x \in S : f[x] \in Int
    PROVE  SumFunctionOnSet(f, S) \in Int
<1> DEFINE G == {R \in SUBSET S : SumFunctionOnSet(f, R) \in Int}
<1>1. {} \in G
  BY SumEmpty
<1>2. ASSUME NEW R \in SUBSET S, R # {}, \A x \in R : R \ {x} \in G PROVE R \in G
  <2>1. SumFunctionOnSet(f, R) = f[Sole(R)] + SumFunctionOnSet(f, R \ {Sole(R)})
    BY <1>2, FS_Subset, SumUnfolds
  <2> QED  BY <1>2, <2>1, SoleBelongs
<1>3. \A R \in SUBSET S : R \in G
  <2> HIDE DEF G
  <2> QED  BY <1>1, <1>2, SubsetInduction
<1> QED  BY <1>3

\* Any element may be taken out of a sum.
LEMMA SumTakesOut ==
    ASSUME NEW f, NEW S, IsFiniteSet(S), \A x \in S : f[x] \in Int, NEW e \in S
    PROVE  SumFunctionOnSet(f, S) = f[e] + SumFunctionOnSet(f, S \ {e})
<1> DEFINE Sum(R) == SumFunctionOnSet(f, R)
           G == {R \in SUBSET S : \A x \in R : Sum(R) = f[x] + Sum(R \ {x})}
<1> HIDE DEF Sum
<1>1. \A R \in SUBSET S : IsFiniteSet(R) /\ Sum(R) \in Int
  BY FS_Subset, SumType DEF Sum
<1>2. \A R \in SUBSET S : R # {} => Sum(R) = f[Sole(R)] + Sum(R \ {Sole(R)})
  BY <1>1, SumUnfolds DEF Sum
<1>3. ASSUME NEW R \in SUBSET S, R # {}, \A x \in R : R \ {x} \in G,
             NEW x \in R
      PROVE  Sum(R) = f[x] + Sum(R \ {x})
  <2>1. PICK c \in R : Sum(R) = f[c] + Sum(R \ {c})
    BY <1>2, <1>3, SoleBelongs
  <2>2. CASE x = c
    BY <2>1, <2>2
  <2>3. CASE x # c
    <3>1. Sum(R \ {c}) = f[x] + Sum((R \ {c}) \ {x})
      BY <1>3, <2>3
    <3>2. Sum(R \ {x}) = f[c] + Sum((R \ {x}) \ {c})
      BY <1>3, <2>3
    <3>3. (R \ {c}) \ {x} = (R \ {x}) \ {c}
      OBVIOUS
    <3>4. PICK rest \in Int : rest = Sum((R \ {x}) \ {c})
      BY <1>1
    <3>5. Sum(R \ {c}) = f[x] + rest /\ Sum(R \ {x}) = f[c] + rest
      BY <3>1, <3>2, <3>3, <3>4, Zenon
    <3>6. f[x] \in Int /\ f[c] \in Int /\ Sum(R) = f[c] + Sum(R \ {c})
      BY <2>1
    <3> QED  BY ONLY <3>5, <3>6, rest \in Int
  <2> QED  BY <2>2, <2>3
<1>4. \A R \in SUBSET S : R \in G
  <2>1. {} \in G
    OBVIOUS
  <2>2. \A R \in SUBSET S : R # {} /\ (\A x \in R : R \ {x} \in G) => R \in G
    BY <1>3
  <2> HIDE DEF G
  <2> QED  BY <2>1, <2>2, SubsetInduction
<1> QED  BY <1>4 DEF Sum

\* A sum with one element more.
LEMMA SumAdds ==
    ASSUME NEW f, NEW S, IsFiniteSet(S), \A x \in S : f[x] \in Int, NEW e, e \notin S,
           f[e] \in Int
    PROVE  SumFunctionOnSet(f, S \cup {e}) = f[e] + SumFunctionOnSet(f, S)
<1>1. IsFiniteSet(S \cup {e}) /\ (S \cup {e}) \ {e} = S
  BY FS_AddElement
<1> QED  BY <1>1, SumTakesOut

\* The sum depends on the values of the elements only.
LEMMA SumDependsOnValues ==
    ASSUME NEW f, NEW g, NEW S, IsFiniteSet(S), \A x \in S : f[x] = g[x]
    PROVE  SumFunctionOnSet(f, S) = SumFunctionOnSet(g, S)
<1> DEFINE G == {R \in SUBSET S : SumFunctionOnSet(f, R) = SumFunctionOnSet(g, R)}
<1>1. {} \in G
  BY SumEmpty
<1>2. ASSUME NEW R \in SUBSET S, R # {}, \A x \in R : R \ {x} \in G PROVE R \in G
  <2>1. /\ SumFunctionOnSet(f, R) = f[Sole(R)] + SumFunctionOnSet(f, R \ {Sole(R)})
        /\ SumFunctionOnSet(g, R) = g[Sole(R)] + SumFunctionOnSet(g, R \ {Sole(R)})
    BY <1>2, FS_Subset, SumUnfolds
  <2> QED  BY <1>2, <2>1, SoleBelongs
<1>3. \A R \in SUBSET S : R \in G
  <2> HIDE DEF G
  <2> QED  BY <1>1, <1>2, SubsetInduction
<1> QED  BY <1>3

\* One element of a sum changes by d, and the sum does.
LEMMA SumChanges ==
    ASSUME NEW f, NEW g, NEW S, IsFiniteSet(S), NEW e \in S, NEW d \in Int,
           \A x \in S : f[x] \in Int,
           \A x \in S \ {e} : g[x] = f[x],
           g[e] = f[e] + d
    PROVE  SumFunctionOnSet(g, S) = SumFunctionOnSet(f, S) + d
<1>1. IsFiniteSet(S \ {e}) /\ \A x \in S : g[x] \in Int
  BY FS_RemoveElement
<1>2. SumFunctionOnSet(g, S) = g[e] + SumFunctionOnSet(g, S \ {e})
  BY <1>1, SumTakesOut
<1>3. SumFunctionOnSet(f, S) = f[e] + SumFunctionOnSet(f, S \ {e})
  BY SumTakesOut
<1>4. SumFunctionOnSet(g, S \ {e}) = SumFunctionOnSet(f, S \ {e})
  BY <1>1, SumDependsOnValues
<1>5. SumFunctionOnSet(f, S \ {e}) \in Int
  BY <1>1, SumType
<1> QED  BY <1>2, <1>3, <1>4, <1>5

\* A sum of naturals, and each of its elements.
LEMMA SumOfNaturals ==
    ASSUME NEW f, NEW S, IsFiniteSet(S), \A x \in S : f[x] \in Nat
    PROVE  SumFunctionOnSet(f, S) \in Nat
<1> DEFINE G == {R \in SUBSET S : SumFunctionOnSet(f, R) \in Nat}
<1>1. {} \in G
  BY SumEmpty
<1>2. ASSUME NEW R \in SUBSET S, R # {}, \A x \in R : R \ {x} \in G PROVE R \in G
  <2>1. SumFunctionOnSet(f, R) = f[Sole(R)] + SumFunctionOnSet(f, R \ {Sole(R)})
    BY <1>2, FS_Subset, SumUnfolds
  <2> QED  BY <1>2, <2>1, SoleBelongs
<1>3. \A R \in SUBSET S : R \in G
  <2> HIDE DEF G
  <2> QED  BY <1>1, <1>2, SubsetInduction
<1> QED  BY <1>3

LEMMA SumCoversElements ==
    ASSUME NEW f, NEW S, IsFiniteSet(S), \A x \in S : f[x] \in Nat, NEW e \in S
    PROVE  f[e] <= SumFunctionOnSet(f, S)
<1>1. SumFunctionOnSet(f, S) = f[e] + SumFunctionOnSet(f, S \ {e})
  BY SumTakesOut
<1>2. SumFunctionOnSet(f, S \ {e}) \in Nat
  BY FS_RemoveElement, SumOfNaturals
<1> QED  BY <1>1, <1>2

\* Part of a sum of naturals is not more than the sum.
LEMMA SumOfPart ==
    ASSUME NEW f, NEW S, IsFiniteSet(S), \A x \in S : f[x] \in Nat, NEW P \in SUBSET S
    PROVE  SumFunctionOnSet(f, P) <= SumFunctionOnSet(f, S)
<1> DEFINE Sum(R) == SumFunctionOnSet(f, R)
           G == {R \in SUBSET S : \A Q \in SUBSET R : Sum(Q) <= Sum(R)}
<1> HIDE DEF Sum
<1>1. \A R \in SUBSET S : IsFiniteSet(R) /\ Sum(R) \in Nat
  BY FS_Subset, SumOfNaturals DEF Sum
<1>2. {} \in G
  BY <1>1
<1>3. ASSUME NEW R \in SUBSET S, R # {}, \A x \in R : R \ {x} \in G, NEW Q \in SUBSET R
      PROVE  Sum(Q) <= Sum(R)
  <2>1. CASE Q = R
    BY <1>1, <2>1
  <2>2. CASE Q # R
    <3>1. PICK x \in R : x \notin Q
      BY <2>2
    <3>2. Sum(Q) <= Sum(R \ {x})
      BY <1>3, <3>1
    <3>3. Sum(R) = f[x] + Sum(R \ {x})
      BY <1>1, SumTakesOut DEF Sum
    <3>4. f[x] \in Nat /\ Sum(Q) \in Nat /\ Sum(R \ {x}) \in Nat
      BY <1>1
    <3> QED  BY <3>2, <3>3, <3>4
  <2> QED  BY <2>1, <2>2
<1>4. \A R \in SUBSET S : R # {} /\ (\A x \in R : R \ {x} \in G) => R \in G
  BY <1>3
<1>5. \A R \in SUBSET S : R \in G
  <2> HIDE DEF G
  <2> QED  BY <1>2, <1>4, SubsetInduction
<1> QED  BY <1>5 DEF Sum

-----------------------------------------------------------------------------
(* Two sums over the same elements.                                        *)

LEMMA SumOfSums ==
    ASSUME NEW f, NEW g, NEW h, NEW S, IsFiniteSet(S),
           \A x \in S : f[x] \in Int /\ g[x] \in Int /\ h[x] = f[x] + g[x]
    PROVE  SumFunctionOnSet(h, S) = SumFunctionOnSet(f, S) + SumFunctionOnSet(g, S)
<1> DEFINE Sum(k, R) == SumFunctionOnSet(k, R)
           G == {R \in SUBSET S : Sum(h, R) = Sum(f, R) + Sum(g, R)}
<1>1. {} \in G
  BY SumEmpty
<1>2. ASSUME NEW R \in SUBSET S, R # {}, \A x \in R : R \ {x} \in G PROVE R \in G
  <2>1. PICK x \in R : TRUE
    BY <1>2
  <2>2. /\ IsFiniteSet(R) /\ IsFiniteSet(R \ {x})
        /\ \A y \in R : f[y] \in Int /\ g[y] \in Int /\ h[y] \in Int
    BY FS_Subset
  <2>3. /\ Sum(f, R) = f[x] + Sum(f, R \ {x}) /\ Sum(g, R) = g[x] + Sum(g, R \ {x})
        /\ Sum(h, R) = h[x] + Sum(h, R \ {x})
    BY <2>2, SumTakesOut
  <2>4. Sum(f, R \ {x}) \in Int /\ Sum(g, R \ {x}) \in Int
    BY <2>2, SumType
  <2>5. Sum(h, R \ {x}) = Sum(f, R \ {x}) + Sum(g, R \ {x})
    BY <1>2
  <2>6. h[x] = f[x] + g[x] /\ f[x] \in Int /\ g[x] \in Int
    OBVIOUS
  <2> HIDE DEF Sum
  <2>7. Sum(h, R) = Sum(f, R) + Sum(g, R)
    BY <2>3, <2>4, <2>5, <2>6
  <2> QED  BY <2>7
<1>3. \A R \in SUBSET S : R \in G
  <2> HIDE DEF G
  <2> QED  BY <1>1, <1>2, SubsetInduction
<1> QED  BY <1>3

LEMMA SumOfNothing ==
    ASSUME NEW f, NEW S, IsFiniteSet(S), \A x \in S : f[x] = 0
    PROVE  SumFunctionOnSet(f, S) = 0
<1>1. SumFunctionOnSet(f, S) = SumFunctionOnSet(f, S) + SumFunctionOnSet(f, S)
  BY SumOfSums
<1> QED  BY <1>1, SumType

\* Elements without a value do not count.
LEMMA SumSkipsNothing ==
    ASSUME NEW f, NEW S, IsFiniteSet(S), NEW P \in SUBSET S,
           \A x \in S : f[x] \in Int, \A x \in S \ P : f[x] = 0
    PROVE  SumFunctionOnSet(f, S) = SumFunctionOnSet(f, P)
<1> DEFINE Sum(R) == SumFunctionOnSet(f, R)
           G == {R \in SUBSET S : P \subseteq R => Sum(R) = Sum(P)}
<1>1. {} \in G
  OBVIOUS
<1>2. ASSUME NEW R \in SUBSET S, R # {}, \A x \in R : R \ {x} \in G PROVE R \in G
  <2>1. CASE ~(P \subseteq R) \/ R = P
    BY <2>1
  <2>2. CASE P \subseteq R /\ R # P
    <3>1. PICK x \in R : x \notin P
      BY <2>2
    <3>2. Sum(R) = f[x] + Sum(R \ {x}) /\ f[x] = 0
      BY <3>1, FS_Subset, SumTakesOut
    <3>3. Sum(R \ {x}) = Sum(P)
      BY <1>2, <2>2, <3>1
    <3>4. Sum(P) \in Int
      BY FS_Subset, SumType
    <3> HIDE DEF Sum
    <3> QED  BY <3>2, <3>3, <3>4
  <2> QED  BY <2>1, <2>2
<1>3. \A R \in SUBSET S : R \in G
  <2> HIDE DEF G
  <2> QED  BY <1>1, <1>2, SubsetInduction
<1> QED  BY <1>3

LEMMA SumOfDifferences ==
    ASSUME NEW f, NEW g, NEW h, NEW S, IsFiniteSet(S),
           \A x \in S : f[x] \in Int /\ g[x] \in Int /\ h[x] = f[x] - g[x]
    PROVE  SumFunctionOnSet(h, S) = SumFunctionOnSet(f, S) - SumFunctionOnSet(g, S)
<1>1. \A x \in S : h[x] \in Int /\ g[x] \in Int /\ f[x] = h[x] + g[x]
  OBVIOUS
<1>2. SumFunctionOnSet(f, S) = SumFunctionOnSet(h, S) + SumFunctionOnSet(g, S)
  BY <1>1, SumOfSums
<1>3. SumFunctionOnSet(h, S) \in Int /\ SumFunctionOnSet(g, S) \in Int
  BY <1>1, SumType
<1> QED  BY <1>2, <1>3

\* Smaller elements, smaller sum; if it is not smaller, neither was an element.
LEMMA SumIsMonotone ==
    ASSUME NEW f, NEW g, NEW S, IsFiniteSet(S),
           \A x \in S : f[x] \in Int /\ g[x] \in Int /\ f[x] <= g[x]
    PROVE  /\ SumFunctionOnSet(f, S) <= SumFunctionOnSet(g, S)
           /\ SumFunctionOnSet(f, S) = SumFunctionOnSet(g, S) => \A x \in S : f[x] = g[x]
<1> DEFINE h == [x \in S |-> g[x] - f[x]]
<1>1. \A x \in S : h[x] \in Nat /\ h[x] = g[x] - f[x]
  OBVIOUS
<1> HIDE DEF h
<1>2. SumFunctionOnSet(h, S) = SumFunctionOnSet(g, S) - SumFunctionOnSet(f, S)
  BY <1>1, SumOfDifferences
<1>3. /\ SumFunctionOnSet(h, S) \in Nat
      /\ SumFunctionOnSet(f, S) \in Int /\ SumFunctionOnSet(g, S) \in Int
  BY <1>1, SumOfNaturals, SumType
<1>4. \A x \in S : h[x] <= SumFunctionOnSet(h, S)
  BY <1>1, SumCoversElements
<1>5. SumFunctionOnSet(f, S) <= SumFunctionOnSet(g, S)
  BY <1>2, <1>3
<1>6. ASSUME SumFunctionOnSet(f, S) = SumFunctionOnSet(g, S), NEW x \in S PROVE f[x] = g[x]
  <2>1. h[x] = 0
    BY <1>1, <1>2, <1>3, <1>4, <1>6
  <2> QED  BY <1>1, <2>1
<1> QED  BY <1>5, <1>6

-----------------------------------------------------------------------------
(* Folds over sequences.                                                   *)

\* The largest of a set of positions.
LEMMA MaxBelongs ==
    ASSUME NEW n \in Nat, NEW s \in SUBSET (1 .. n), s # {}
    PROVE  Max(s) \in s
<1> DEFINE below == {n - i : i \in s}
<1>1. below \subseteq Nat /\ below # {}
  <2>1. \A i \in s : n - i \in Nat
    OBVIOUS
  <2> QED  BY <2>1
<1>2. PICK k \in below : \A j \in below : << j, k >> \notin OpToRel(<, Nat)
  <2> HIDE DEF below
  <2> QED  BY <1>1, WFMin, NatLessThanWellFounded
<1>3. \A j \in below : ~(j < k)
  <2>1. SUFFICES ASSUME NEW j \in below PROVE ~(j < k)
    OBVIOUS
  <2>2. << j, k >> \in Nat \X Nat
    BY <1>1
  <2> HIDE DEF below
  <2> QED  BY <1>2, <2>2 DEF OpToRel
<1>4. PICK i \in s : k = n - i
  OBVIOUS
<1>5. \A j \in s : n - j \in below
  OBVIOUS
<1>6. \A j \in s : i >= j
  <2> HIDE DEF below
  <2> QED  BY <1>3, <1>4, <1>5
<1> QED  BY <1>6 DEF Max

\* A value that takes up the elements of a sequence one after the other, by F, is
\* defined, and goes on in S.
FoldStep(F, base, g, s) == IF s = {} THEN base ELSE F[Max(s)][g[s \ {Max(s)}]]

ClosedBy(F, n, S) == \A i \in 1 .. n : \A x \in S : F[i][x] \in S

IsFold(g, F, base, n, S) ==
    /\ g \in [SUBSET (1 .. n) -> S]
    /\ \A s \in SUBSET (1 .. n) : g[s] = FoldStep(F, base, g, s)

LEMMA FoldExists ==
    ASSUME NEW n \in Nat, NEW S, NEW base \in S, NEW F, ClosedBy(F, n, S)
    PROVE  \E g : IsFold(g, F, base, n, S)
<1> DEFINE D == SUBSET (1 .. n)
           Right(g, m) == \A s \in D : Cardinality(s) <= m => g[s] = FoldStep(F, base, g, s)
           Extends(g, m) == [s \in D |-> IF Cardinality(s) <= m THEN g[s]
                                         ELSE FoldStep(F, base, g, s)]
           G == {m \in Nat : \E g \in [D -> S] : Right(g, m)}
<1>1. IsFiniteSet(1 .. n)
  BY FS_Interval
<1>2. \A s \in D : IsFiniteSet(s) /\ Cardinality(s) \in Nat
  BY <1>1, FS_Subset, FS_CardinalityType
<1>3. ASSUME NEW g \in [D -> S], NEW s \in D PROVE FoldStep(F, base, g, s) \in S
  <2>1. CASE s = {}
    BY <2>1 DEF FoldStep
  <2>2. CASE s # {}
    <3>1. Max(s) \in 1 .. n /\ s \ {Max(s)} \in D
      BY <2>2, MaxBelongs
    <3> QED  BY <2>2, <3>1 DEF FoldStep, ClosedBy
  <2> QED  BY <2>1, <2>2
<1>4. 0 \in G
  <2>1. \A s \in D : Cardinality(s) <= 0 => s = {}
    BY <1>2, FS_EmptySet
  <2>2. [s \in D |-> base] \in [D -> S]
    OBVIOUS
  <2>3. Right([s \in D |-> base], 0)
    BY <2>1 DEF FoldStep
  <2> QED  BY <2>2, <2>3
<1>5. ASSUME NEW m \in Nat, m \in G PROVE m + 1 \in G
  <2>1. PICK g \in [D -> S] : Right(g, m)
    BY <1>5
  <2> DEFINE h == Extends(g, m)
  <2>2. h \in [D -> S]
    BY <1>3
  <2>3. ASSUME NEW s \in D, Cardinality(s) <= m + 1 PROVE h[s] = FoldStep(F, base, g, s)
    BY <2>1, <2>3
  <2>4. ASSUME NEW s \in D, Cardinality(s) <= m + 1
        PROVE  FoldStep(F, base, h, s) = FoldStep(F, base, g, s)
    <3>1. CASE s = {}
      BY <3>1 DEF FoldStep
    <3>2. CASE s # {}
      <4>1. Cardinality(s \ {Max(s)}) = Cardinality(s) - 1 /\ s \ {Max(s)} \in D
        BY <1>2, <3>2, MaxBelongs, FS_RemoveElement
      <4>2. Cardinality(s \ {Max(s)}) <= m
        BY <1>2, <2>4, <4>1
      <4>3. h[s \ {Max(s)}] = g[s \ {Max(s)}]
        BY <4>1, <4>2
      <4> HIDE DEF h
      <4> QED  BY <3>2, <4>3 DEF FoldStep
    <3> QED  BY <3>1, <3>2
  <2> HIDE DEF h
  <2>5. Right(h, m + 1) /\ m + 1 \in Nat
    BY <2>3, <2>4
  <2> HIDE DEF Right
  <2> QED  BY <2>2, <2>5
<1>6. n \in G
  <2> HIDE DEF G
  <2>1. Nat \subseteq G
    BY <1>4, <1>5, NatSetInduction
  <2> QED  BY <2>1
<1>7. PICK g \in [D -> S] : Right(g, n)
  BY <1>6
<1>8. \A s \in D : Cardinality(s) <= n
  <2>1. Cardinality(1 .. n) = n
    BY FS_Interval
  <2>2. \A s \in D : Cardinality(s) <= Cardinality(1 .. n)
    BY <1>1, FS_Subset
  <2> QED  BY <2>1, <2>2
<1> QED  BY <1>7, <1>8 DEF IsFold

\* Whatever function takes up the elements, it does not leave S.
LEMMA FoldStays ==
    ASSUME NEW n \in Nat, NEW S, NEW g, g[{}] \in S,
           \A s \in SUBSET (1 .. n) :
              s # {} /\ g[s \ {Max(s)}] \in S => g[s] \in S
    PROVE  g[1 .. n] \in S
<1> DEFINE G == {s \in SUBSET (1 .. n) : g[s] \in S}
<1>1. {} \in G
  OBVIOUS
<1>2. ASSUME NEW s \in SUBSET (1 .. n), s # {}, \A x \in s : s \ {x} \in G PROVE s \in G
  BY <1>2, MaxBelongs
<1>3. IsFiniteSet(1 .. n)
  BY FS_Interval
<1>4. \A s \in SUBSET (1 .. n) : s \in G
  <2> HIDE DEF G
  <2> QED  BY <1>1, <1>2, <1>3, SubsetInduction
<1> QED  BY <1>4

-----------------------------------------------------------------------------
(* The values a fold goes through.                                         *)

IsRun(v, F, base, n, S) ==
    /\ v \in [0 .. n -> S] /\ v[0] = base
    /\ \A k \in 1 .. n : v[k] = F[k][v[k - 1]]

\* The last of a first stretch.
LEMMA LastOfFirst ==
    ASSUME NEW k \in Nat \ {0}
    PROVE  Max(1 .. k) = k /\ (1 .. k) \ {Max(1 .. k)} = 1 .. (k - 1)
<1>1. \E x \in 1 .. k : \A y \in 1 .. k : x >= y
  <2>1. k \in 1 .. k /\ \A y \in 1 .. k : k >= y
    OBVIOUS
  <2> QED  BY <2>1
<1>2. Max(1 .. k) \in 1 .. k /\ \A y \in 1 .. k : Max(1 .. k) >= y
  BY <1>1 DEF Max
<1>3. Max(1 .. k) = k
  BY <1>2
<1> QED  BY <1>3

\* What each further element makes of the value so far.
Iterates(iter, F, base, n, S) ==
    /\ iter[{}] = base
    /\ \A s \in SUBSET (1 .. n) : s # {} /\ iter[s \ {Max(s)}] \in S =>
          iter[s] = F[Max(s)][iter[s \ {Max(s)}]]

\* A fold over a sequence takes up one element after the other.
LEMMA FoldRuns ==
    ASSUME NEW n \in Nat, NEW S, NEW base \in S, NEW F, ClosedBy(F, n, S),
           NEW iter, Iterates(iter, F, base, n, S)
    PROVE  \E v : IsRun(v, F, base, n, S)
                 /\ v[n] = iter[1 .. n]
<1> DEFINE v == [k \in 0 .. n |-> iter[1 .. k]]
           K == {k \in Nat : k <= n => iter[1 .. k] \in S}
<1>1. 1 .. 0 = {}
  OBVIOUS
<1>2. ASSUME NEW k \in 1 .. n, iter[1 .. (k - 1)] \in S
      PROVE  iter[1 .. k] = F[k][iter[1 .. (k - 1)]] /\ iter[1 .. k] \in S
  <2>1. /\ 1 .. k \in SUBSET (1 .. n) /\ 1 .. k # {}
        /\ Max(1 .. k) = k /\ (1 .. k) \ {Max(1 .. k)} = 1 .. (k - 1)
    BY LastOfFirst
  <2>2. iter[1 .. k] = F[k][iter[1 .. (k - 1)]]
    BY <1>2, <2>1 DEF Iterates
  <2> QED  BY <1>2, <2>2 DEF ClosedBy
<1>3. 0 \in K
  BY <1>1 DEF Iterates
<1>4. ASSUME NEW k \in Nat, k \in K PROVE k + 1 \in K
  <2>1. SUFFICES ASSUME k + 1 <= n PROVE iter[1 .. (k + 1)] \in S
    OBVIOUS
  <2>2. k + 1 \in 1 .. n /\ (k + 1) - 1 = k /\ iter[1 .. k] \in S
    BY <1>4, <2>1
  <2> QED  BY <1>2, <2>2
<1>5. Nat \subseteq K
  <2> HIDE DEF K
  <2> QED  BY <1>3, <1>4, NatSetInduction
<1>6. \A k \in 0 .. n : iter[1 .. k] \in S
  BY <1>5
<1>7. ASSUME NEW k \in 1 .. n PROVE v[k] = F[k][v[k - 1]]
  <2>1. k \in 0 .. n /\ k - 1 \in 0 .. n
    OBVIOUS
  <2> QED  BY <1>2, <1>6, <2>1
<1>8. v \in [0 .. n -> S] /\ v[0] = base /\ v[n] = iter[1 .. n]
  BY <1>1, <1>6 DEF Iterates
<1> HIDE DEF v
<1> QED  BY <1>7, <1>8 DEF IsRun

\* Two runs by the same steps are the same as far as both go.
LEMMA RunsAgree ==
    ASSUME NEW n \in Nat, NEW m \in Nat, n <= m, NEW S, NEW base, NEW F, NEW H, NEW u, NEW v,
           IsRun(u, F, base, n, S), IsRun(v, H, base, m, S),
           \A k \in 1 .. n : \A x \in S : F[k][x] = H[k][x]
    PROVE  u[n] = v[n]
<1> DEFINE K == {k \in Nat : k <= n => u[k] = v[k]}
<1>1. 0 \in K
  BY DEF IsRun
<1>2. ASSUME NEW k \in Nat, k \in K PROVE k + 1 \in K
  <2>1. SUFFICES ASSUME k + 1 <= n PROVE u[k + 1] = v[k + 1]
    OBVIOUS
  <2>2. /\ k + 1 \in 1 .. n /\ k + 1 \in 1 .. m /\ (k + 1) - 1 = k /\ k \in 0 .. n
        /\ u[k] = v[k]
    BY <1>2, <2>1
  <2>3. u[k + 1] = F[k + 1][u[k]] /\ v[k + 1] = H[k + 1][v[k]] /\ u[k] \in S
    BY <2>2 DEF IsRun
  <2> QED  BY <2>2, <2>3
<1>3. Nat \subseteq K
  <2> HIDE DEF K
  <2> QED  BY <1>1, <1>2, NatSetInduction
<1> QED  BY <1>3

\* A run by steps that change nothing ends where it starts.
LEMMA RunOfNothing ==
    ASSUME NEW n \in Nat, NEW S, NEW base \in S, NEW F, NEW v, IsRun(v, F, base, n, S),
           \A k \in 1 .. n : \A x \in S : F[k][x] = x
    PROVE  v[n] = base
<1> DEFINE u == [k \in 0 .. n |-> base]
<1>1. IsRun(u, F, base, n, S)
  BY DEF IsRun
<1>2. u[n] = base
  OBVIOUS
<1> HIDE DEF u
<1> QED  BY <1>1, <1>2, RunsAgree

\* A run that is one step longer.
LEMMA RunGoesOn ==
    ASSUME NEW n \in Nat, NEW m \in Nat, m = n + 1, NEW S, NEW base \in S,
           NEW F, NEW H, NEW u, NEW v,
           IsRun(u, F, base, n, S), IsRun(v, H, base, m, S),
           \A k \in 1 .. n : \A x \in S : F[k][x] = H[k][x]
    PROVE  v[m] = H[m][u[n]] /\ u[n] \in S
<1>1. u[n] = v[n]
  <2>1. n <= m
    OBVIOUS
  <2> QED  BY <2>1, RunsAgree
<1>2. m \in 1 .. m /\ m - 1 = n /\ n \in 0 .. n
  OBVIOUS
<1> QED  BY <1>1, <1>2 DEF IsRun
=============================================================================
