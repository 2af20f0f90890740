------------------------------ MODULE Shop_proofs ------------------------------
(***************************************************************************)
(* Proofs about what a shop computes for its customers: Pricing, for every *)
(* menu, cart, promotion and coupon; PickupSlots, for all settings, days   *)
(* and hours; and ConnPool, for every pool that has more than three        *)
(* connections for each export.  Amounts and connections are sums, so the  *)
(* first part is about sums over finite sets.                              *)
(***************************************************************************)
EXTENDS Pricing, PickupSlots, ConnPool, FiniteSetTheorems, TLAPS

(***************************************************************************)
(* Induction over the subsets of a finite set, with a set of subsets in    *)
(* the place of a predicate.                                               *)
(***************************************************************************)
LEMMA SubsetInduction ==
    ASSUME NEW D, IsFiniteSet(D), NEW G,
           \A S \in SUBSET D : (\A T \in SUBSET S : T # S => T \in G) => S \in G
    PROVE  SUBSET D \subseteq G
<1> DEFINE B == {S \in SUBSET D : S \notin G}
           R == StrictSubsetOrdering(D)
<1> SUFFICES ASSUME B # {} PROVE FALSE
  OBVIOUS
<1>1. B \subseteq FiniteSubsetsOf(D)
  BY FS_Subset DEF FiniteSubsetsOf
<1>2. IsWellFoundedOn(R, FiniteSubsetsOf(D))
  BY FS_StrictSubsetOrderingWellFounded
<1>3. PICK S \in B : \A T \in B : <<T, S>> \notin R
  <2> HIDE DEF B, R
  <2> QED
    BY <1>1, <1>2, WFMin
<1>4. \A T \in SUBSET S : T # S => T \in G
  BY <1>3 DEF StrictSubsetOrdering
<1> QED
  BY <1>3, <1>4

\* A finite set of integers that is not empty has a greatest element.
LEMMA GreatestOfFinite ==
    ASSUME NEW D \in SUBSET Int, IsFiniteSet(D), D # {}
    PROVE  \E d \in D : \A e \in D : e <= d
<1> DEFINE G == {S \in SUBSET D : S # {} => \E d \in S : \A e \in S : e <= d}
<1>1. ASSUME NEW S \in SUBSET D, \A T \in SUBSET S : T # S => T \in G
      PROVE  S \in G
  <2> SUFFICES ASSUME S # {} PROVE \E d \in S : \A e \in S : e <= d
    OBVIOUS
  <2>1. PICK x \in S : TRUE
    OBVIOUS
  <2>2. CASE S = {x}
    BY <2>2
  <2>3. CASE S # {x}
    <3>1. PICK d \in S \ {x} : \A e \in S \ {x} : e <= d
      <4>1. S \ {x} \in G /\ S \ {x} # {}
        BY <1>1, <2>1, <2>3
      <4> QED
        BY <4>1
    <3>2. d \in Int /\ x \in Int
      BY <2>1, <3>1
    <3>3. CASE x <= d
      BY <3>1, <3>3
    <3>4. CASE d <= x
      <4>1. \A e \in S : e <= x
        BY <3>1, <3>2, <3>4
      <4> QED
        BY <2>1, <4>1
    <3> QED
      BY <3>2, <3>3, <3>4
  <2> QED
    BY <2>2, <2>3
<1>2. SUBSET D \subseteq G
  <2> HIDE DEF G
  <2> QED
    BY <1>1, SubsetInduction
<1> QED
  BY <1>2

(***************************************************************************)
(* What the sums of the community modules compute.                         *)
(***************************************************************************)
Pick(S) == CHOOSE x \in S : TRUE

IsSum(f, D, it) ==
    it = [S \in SUBSET D |-> IF S = {} THEN 0 ELSE f[Pick(S)] + it[S \ {Pick(S)}]]

SumFrom(f, D) == CHOOSE it : IsSum(f, D, it)

LEMMA SumIsChosen ==
    ASSUME NEW f, NEW D
    PROVE  SumFunctionOnSet(f, D) = SumFrom(f, D)[D]
BY DEF SumFunctionOnSet, FoldFunctionOnSet, MapThenFoldSet, Pick, IsSum, SumFrom

LEMMA PickedIsIn ==
    ASSUME NEW S, S # {}
    PROVE  Pick(S) \in S
BY DEF Pick

\* Two of them agree on the finite sets that both are about.
LEMMA SumsAgree ==
    ASSUME NEW f, NEW C, NEW D, NEW g, NEW h, IsSum(f, C, g), IsSum(f, D, h),
           NEW S \in SUBSET (C \cap D), IsFiniteSet(S)
    PROVE  g[S] = h[S]
<1> DEFINE G == {T \in SUBSET S : g[T] = h[T]}
<1>1. ASSUME NEW T \in SUBSET S, \A U \in SUBSET T : U # T => U \in G
      PROVE  g[T] = h[T]
  <2>1. CASE T = {}
    BY <2>1 DEF IsSum
  <2>2. CASE T # {}
    <3>1. T \ {Pick(T)} \in SUBSET T /\ T \ {Pick(T)} # T
      BY <2>2, PickedIsIn
    <3>2. g[T \ {Pick(T)}] = h[T \ {Pick(T)}]
      BY <1>1, <3>1
    <3>3. T \in SUBSET C /\ T \in SUBSET D
      OBVIOUS
    <3>4. g[T] = f[Pick(T)] + g[T \ {Pick(T)}]
      BY <2>2, <3>3 DEF IsSum
    <3>5. h[T] = f[Pick(T)] + h[T \ {Pick(T)}]
      BY <2>2, <3>3 DEF IsSum
    <3> QED
      BY <3>2, <3>4, <3>5
  <2> QED
    BY <2>1, <2>2
<1>2. SUBSET S \subseteq G
  <2>1. \A T \in SUBSET S : (\A U \in SUBSET T : U # T => U \in G) => T \in G
    BY <1>1
  <2> HIDE DEF G
  <2> QED
    BY <2>1, SubsetInduction
<1> QED
  BY <1>2

LEMMA SumExists ==
    ASSUME NEW f, NEW D, IsFiniteSet(D)
    PROVE  IsSum(f, D, SumFrom(f, D))
<1> DEFINE G == {T \in SUBSET D : IsSum(f, T, SumFrom(f, T))}
<1>1. ASSUME NEW T \in SUBSET D, \A U \in SUBSET T : U # T => U \in G
      PROVE  IsSum(f, T, SumFrom(f, T))
  <2> DEFINE total(U) == SumFrom(f, U)[U]
             it == [U \in SUBSET T |-> IF U = {} THEN 0 ELSE f[Pick(U)] + total(U \ {Pick(U)})]
  <2>1. ASSUME NEW U \in SUBSET T, U # T
        PROVE  it[U] = total(U)
    <3>1. IsSum(f, U, SumFrom(f, U))
      BY <1>1, <2>1
    <3>2. CASE U = {}
      <4>1. SumFrom(f, U)[U] = 0
        BY <3>1, <3>2 DEF IsSum
      <4> QED
        BY <3>2, <4>1
    <3>3. CASE U # {}
      <4> DEFINE V == U \ {Pick(U)}
      <4>1. V \in SUBSET U /\ V \in SUBSET T /\ V # T
        BY <2>1
      <4>2. IsSum(f, V, SumFrom(f, V))
        BY <1>1, <4>1
      <4>3. IsFiniteSet(V)
        BY FS_Subset
      <4>4. V \in SUBSET (U \cap V)
        BY <4>1
      <4>5. SumFrom(f, U)[V] = SumFrom(f, V)[V]
        <5> HIDE DEF V
        <5> QED
          BY <3>1, <4>2, <4>3, <4>4, SumsAgree
      <4>6. U \in SUBSET U
        OBVIOUS
      <4>7. SumFrom(f, U)[U] = f[Pick(U)] + SumFrom(f, U)[V]
        BY <3>1, <3>3, <4>6 DEF IsSum
      <4> QED
        BY <3>3, <4>5, <4>7
    <3> QED
      BY <3>2, <3>3
  <2>2. ASSUME NEW U \in SUBSET T, U # {}
        PROVE  it[U \ {Pick(U)}] = total(U \ {Pick(U)})
    <3>1. U \ {Pick(U)} \in SUBSET T /\ U \ {Pick(U)} # T
      BY <2>2, PickedIsIn
    <3> HIDE DEF it, total
    <3> QED
      BY <2>1, <3>1
  <2>3. IsSum(f, T, it)
    <3>1. it = [U \in SUBSET T |-> IF U = {} THEN 0 ELSE f[Pick(U)] + it[U \ {Pick(U)}]]
      <4>1. ASSUME NEW U \in SUBSET T
            PROVE  it[U] = IF U = {} THEN 0 ELSE f[Pick(U)] + it[U \ {Pick(U)}]
        BY <2>2
      <4>2. it = [U \in SUBSET T |-> it[U]]
        OBVIOUS
      <4> HIDE DEF it, total
      <4> QED
        BY <4>1, <4>2
    <3> HIDE DEF it, total
    <3> QED
      BY <3>1 DEF IsSum
  <2> HIDE DEF it, total
  <2> QED
    BY <2>3 DEF SumFrom
<1>2. SUBSET D \subseteq G
  <2>1. \A T \in SUBSET D : (\A U \in SUBSET T : U # T => U \in G) => T \in G
    BY <1>1
  <2> HIDE DEF G
  <2> QED
    BY <2>1, SubsetInduction
<1> QED
  BY <1>2

LEMMA SumOfNone ==
    ASSUME NEW f
    PROVE  SumFunctionOnSet(f, {}) = 0
<1>1. IsSum(f, {}, SumFrom(f, {}))
  BY SumExists, FS_EmptySet
<1>2. {} \in SUBSET {}
  OBVIOUS
<1>3. SumFrom(f, {})[{}] = 0
  BY <1>1, <1>2 DEF IsSum
<1> QED
  BY <1>3, SumIsChosen

LEMMA SumOfPicked ==
    ASSUME NEW f, NEW D, IsFiniteSet(D), D # {}
    PROVE  SumFunctionOnSet(f, D) = f[Pick(D)] + SumFunctionOnSet(f, D \ {Pick(D)})
<1> DEFINE V == D \ {Pick(D)}
<1>1. IsFiniteSet(V)
  BY FS_Subset
<1>2. IsSum(f, D, SumFrom(f, D)) /\ IsSum(f, V, SumFrom(f, V))
  <2> HIDE DEF V
  <2> QED
    BY <1>1, SumExists
<1>3. SumFrom(f, D)[V] = SumFrom(f, V)[V]
  <2>1. V \in SUBSET (D \cap V)
    OBVIOUS
  <2> HIDE DEF V
  <2> QED
    BY <1>1, <1>2, <2>1, SumsAgree
<1>4. SumFrom(f, D)[D] = f[Pick(D)] + SumFrom(f, D)[V]
  BY <1>2 DEF IsSum
<1> QED
  BY <1>3, <1>4, SumIsChosen

\* Integers have an integer as their sum, whichever comes first.
LEMMA SumIsInt ==
    ASSUME NEW D, IsFiniteSet(D), NEW f, \A x \in D : f[x] \in Int
    PROVE  SumFunctionOnSet(f, D) \in Int
<1> DEFINE G == {S \in SUBSET D : SumFunctionOnSet(f, S) \in Int}
<1>1. ASSUME NEW S \in SUBSET D, \A T \in SUBSET S : T # S => T \in G
      PROVE  SumFunctionOnSet(f, S) \in Int
  <2>1. CASE S = {}
    BY <2>1, SumOfNone
  <2>2. CASE S # {}
    <3>1. Pick(S) \in S /\ IsFiniteSet(S)
      BY <2>2, PickedIsIn, FS_Subset
    <3>2. SumFunctionOnSet(f, S \ {Pick(S)}) \in Int
      BY <1>1, <3>1
    <3>3. SumFunctionOnSet(f, S) = f[Pick(S)] + SumFunctionOnSet(f, S \ {Pick(S)})
      BY <2>2, <3>1, SumOfPicked
    <3>4. f[Pick(S)] \in Int
      BY <3>1
    <3> QED
      BY <3>2, <3>3, <3>4
  <2> QED
    BY <2>1, <2>2
<1>2. SUBSET D \subseteq G
  <2>1. \A S \in SUBSET D : (\A T \in SUBSET S : T # S => T \in G) => S \in G
    BY <1>1
  <2> HIDE DEF G
  <2> QED
    BY <2>1, SubsetInduction
<1> QED
  BY <1>2

LEMMA SumSplit ==
    ASSUME NEW D, IsFiniteSet(D), NEW f, \A x \in D : f[x] \in Int, NEW x \in D
    PROVE  SumFunctionOnSet(f, D) = f[x] + SumFunctionOnSet(f, D \ {x})
<1> DEFINE Total(S) == SumFunctionOnSet(f, S)
           G == {S \in SUBSET D : \A y \in S : Total(S) = f[y] + Total(S \ {y})}
<1>1. ASSUME NEW S \in SUBSET D, \A T \in SUBSET S : T # S => T \in G, NEW y \in S
      PROVE  Total(S) = f[y] + Total(S \ {y})
  <2> DEFINE p == Pick(S)
  <2>1. p \in S /\ IsFiniteSet(S)
    BY PickedIsIn, FS_Subset
  <2>2. Total(S) = f[p] + Total(S \ {p})
    BY <2>1, SumOfPicked
  <2>3. CASE y = p
    BY <2>2, <2>3
  <2>4. CASE y # p
    <3> HIDE DEF p
    <3> DEFINE rest == S \ {p, y}
    <3>1. (S \ {p}) \ {y} = rest /\ (S \ {y}) \ {p} = rest
      OBVIOUS
    <3>2. Total(S \ {p}) = f[y] + Total(rest)
      BY <1>1, <2>1, <2>4, <3>1
    <3>3. Total(S \ {y}) = f[p] + Total(rest)
      BY <1>1, <2>1, <2>4, <3>1
    <3>4. Total(rest) \in Int
      <4>1. IsFiniteSet(rest) /\ \A z \in rest : f[z] \in Int
        BY <2>1, FS_Subset
      <4> HIDE DEF rest
      <4> QED
        BY <4>1, SumIsInt
    <3>5. f[y] \in Int /\ f[p] \in Int
      BY <2>1
    <3> HIDE DEF Total, G, rest
    <3> QED
      BY <2>2, <3>2, <3>3, <3>4, <3>5
  <2> QED
    BY <2>3, <2>4
<1>2. SUBSET D \subseteq G
  <2>1. \A S \in SUBSET D : (\A T \in SUBSET S : T # S => T \in G) => S \in G
    BY <1>1
  <2> HIDE DEF G
  <2> QED
    BY <2>1, SubsetInduction
<1> QED
  BY <1>2

\* A sum does not depend on what its terms are called.
LEMMA SumRenamed ==
    ASSUME NEW C, NEW D, IsFiniteSet(C), NEW p \in Bijection(C, D), NEW f, NEW g,
           \A x \in C : f[x] \in Int /\ f[x] = g[p[x]]
    PROVE  SumFunctionOnSet(f, C) = SumFunctionOnSet(g, D)
<1> DEFINE Img(S) == {p[x] : x \in S}
           G == {S \in SUBSET C : SumFunctionOnSet(f, S) = SumFunctionOnSet(g, Img(S))}
<1>1. /\ \A x, y \in C : p[x] = p[y] => x = y
      /\ Img(C) = D
  BY DEF Bijection, Injection, IsInjective, Surjection
<1>2. ASSUME NEW S \in SUBSET C, \A T \in SUBSET S : T # S => T \in G
      PROVE  SumFunctionOnSet(f, S) = SumFunctionOnSet(g, Img(S))
  <2>1. CASE S = {}
    <3>1. Img(S) = {}
      BY <2>1
    <3> HIDE DEF Img
    <3> QED
      BY <2>1, <3>1, SumOfNone
  <2>2. CASE S # {}
    <3> DEFINE x == Pick(S)
               T == S \ {x}
    <3>1. x \in S /\ T \in SUBSET S /\ T # S /\ IsFiniteSet(S)
      BY <2>2, PickedIsIn, FS_Subset
    <3>2. SumFunctionOnSet(f, S) = f[x] + SumFunctionOnSet(f, T)
      BY <2>2, <3>1, SumOfPicked
    <3> HIDE DEF x
    <3>3. SumFunctionOnSet(f, T) = SumFunctionOnSet(g, Img(T))
      BY <1>2, <3>1
    <3>4. IsFiniteSet(Img(S)) /\ \A y \in Img(S) : g[y] \in Int
      <4>1. [y \in S |-> p[y]] \in Surjection(S, Img(S))
        BY DEF Surjection
      <4>2. \A y \in Img(S) : g[y] \in Int
        OBVIOUS
      <4> HIDE DEF Img
      <4> QED
        BY <3>1, <4>1, <4>2, FS_Surjection
    <3>5. p[x] \in Img(S) /\ Img(S) \ {p[x]} = Img(T)
      BY <1>1, <3>1
    <3>6. SumFunctionOnSet(g, Img(S)) = g[p[x]] + SumFunctionOnSet(g, Img(T))
      <4> HIDE DEF Img, T
      <4>1. SumFunctionOnSet(g, Img(S)) = g[p[x]] + SumFunctionOnSet(g, Img(S) \ {p[x]})
        BY <3>4, <3>5, SumSplit
      <4> QED
        BY <3>5, <4>1, Zenon
    <3>7. f[x] = g[p[x]]
      BY <3>1
    <3> HIDE DEF Img, T
    <3> QED
      BY <3>2, <3>3, <3>6, <3>7
  <2> QED
    BY <2>1, <2>2
<1>3. SUBSET C \subseteq G
  <2>1. \A S \in SUBSET C : (\A T \in SUBSET S : T # S => T \in G) => S \in G
    BY <1>2
  <2> HIDE DEF G
  <2> QED
    BY <2>1, SubsetInduction
<1>4. SumFunctionOnSet(f, C) = SumFunctionOnSet(g, Img(C))
  BY <1>3
<1> HIDE DEF Img
<1> QED
  BY <1>1, <1>4

\* Nor on what the function is elsewhere.
LEMMA SumsEqual ==
    ASSUME NEW D, IsFiniteSet(D), NEW f, NEW g, \A x \in D : f[x] \in Int /\ f[x] = g[x]
    PROVE  SumFunctionOnSet(f, D) = SumFunctionOnSet(g, D)
<1> DEFINE p == [x \in D |-> x]
<1>1. p \in Bijection(D, D) /\ \A x \in D : p[x] = x
  BY DEF Bijection, Injection, IsInjective, Surjection
<1> HIDE DEF p
<1>2. \A x \in D : f[x] \in Int /\ f[x] = g[p[x]]
  BY <1>1
<1> QED
  BY <1>1, <1>2, SumRenamed

\* Terms of at most n on E and at most none elsewhere.
LEMMA SumAtMost ==
    ASSUME NEW D, IsFiniteSet(D), NEW E, NEW n \in Nat, NEW f,
           \A x \in D : f[x] \in Int /\ f[x] <= IF x \in E THEN n ELSE 0
    PROVE  SumFunctionOnSet(f, D) <= n * Cardinality(D \cap E)
<1> DEFINE Few(S) == SumFunctionOnSet(f, S) <= n * Cardinality(S \cap E)
           G == {S \in SUBSET D : Few(S)}
<1>1. ASSUME NEW S \in SUBSET D, \A T \in SUBSET S : T # S => T \in G
      PROVE  Few(S)
  <2>1. CASE S = {}
    <3>1. S \cap E = {} /\ Cardinality({}) = 0
      BY <2>1, FS_EmptySet
    <3> QED
      BY <2>1, <3>1, SumOfNone
  <2>2. CASE S # {}
    <3> DEFINE x == Pick(S)
               T == S \ {x}
    <3>1. x \in S /\ T \in SUBSET S /\ T # S /\ IsFiniteSet(S)
      BY <2>2, PickedIsIn, FS_Subset
    <3>2. SumFunctionOnSet(f, S) = f[x] + SumFunctionOnSet(f, T)
      BY <2>2, <3>1, SumOfPicked
    <3> HIDE DEF x
    <3>3. SumFunctionOnSet(f, T) <= n * Cardinality(T \cap E)
      BY <1>1, <3>1
    <3>4. IsFiniteSet(T) /\ \A y \in T : f[y] \in Int
      BY <3>1, FS_Subset
    <3>5. SumFunctionOnSet(f, T) \in Int
      BY <3>4, SumIsInt
    <3>6. IsFiniteSet(S \cap E) /\ IsFiniteSet(T \cap E)
      BY <3>1, FS_Subset
    <3>7. Cardinality(T \cap E) = IF x \in E THEN Cardinality(S \cap E) - 1 ELSE Cardinality(S \cap E)
      <4>1. (S \cap E) \ {x} = T \cap E
        OBVIOUS
      <4>2. Cardinality((S \cap E) \ {x})
              = IF x \in S \cap E THEN Cardinality(S \cap E) - 1 ELSE Cardinality(S \cap E)
        BY <3>6, FS_RemoveElement
      <4> HIDE DEF T
      <4>3. x \in S \cap E <=> x \in E
        BY <3>1
      <4> QED
        BY <4>1, <4>2, <4>3
    <3>8. Cardinality(S \cap E) \in Nat /\ Cardinality(T \cap E) \in Nat
      BY <3>6, FS_CardinalityType
    <3>9. f[x] \in Int /\ f[x] <= IF x \in E THEN n ELSE 0
      BY <3>1
    <3> HIDE DEF T
    <3>10. CASE x \in E
      <4>1. n * Cardinality(S \cap E) = n * Cardinality(T \cap E) + n
        BY <3>7, <3>8, <3>10
      <4>2. f[x] <= n
        BY <3>9, <3>10
      <4>3. n * Cardinality(T \cap E) \in Int
        BY <3>8
      <4> QED
        BY <3>2, <3>3, <3>5, <3>9, <4>1, <4>2, <4>3
    <3>11. CASE x \notin E
      <4>1. n * Cardinality(S \cap E) = n * Cardinality(T \cap E) /\ n * Cardinality(T \cap E) \in Int
        BY <3>7, <3>8, <3>11
      <4> QED
        BY <3>2, <3>3, <3>5, <3>9, <3>11, <4>1
    <3> QED
      BY <3>10, <3>11
  <2> QED
    BY <2>1, <2>2
<1>2. SUBSET D \subseteq G
  <2>1. \A S \in SUBSET D : (\A T \in SUBSET S : T # S => T \in G) => S \in G
    BY <1>1
  <2> HIDE DEF G
  <2> QED
    BY <2>1, SubsetInduction
<1> QED
  BY <1>2

(***************************************************************************)
(* ConnPool: what a request holds after its first k queries and closes.    *)
(***************************************************************************)
LEMMA PrefixSum ==
    ASSUME NEW w, NEW k \in Nat, \A i \in 1..(k + 1) : w[i] \in Int
    PROVE  /\ SumFunction(SubSeq(w, 1, 0)) = 0
           /\ SumFunction(SubSeq(w, 1, k + 1)) = SumFunction(SubSeq(w, 1, k)) + w[k + 1]
<1> DEFINE s == SubSeq(w, 1, k + 1)
           t == SubSeq(w, 1, k)
<1>1. SubSeq(w, 1, 0) = <<>> /\ DOMAIN <<>> = {}
  OBVIOUS
<1>2. DOMAIN s = 1..(k + 1) /\ \A i \in 1..(k + 1) : s[i] = w[i]
  OBVIOUS
<1>3. DOMAIN t = 1..k /\ \A i \in 1..k : t[i] = w[i]
  OBVIOUS
<1> HIDE DEF s, t
<1>4. IsFiniteSet(1..k) /\ IsFiniteSet(1..(k + 1))
  BY FS_Interval
<1>5. SumFunctionOnSet(s, 1..(k + 1)) = s[k + 1] + SumFunctionOnSet(s, (1..(k + 1)) \ {k + 1})
  BY <1>2, <1>4, SumSplit
<1>6. (1..(k + 1)) \ {k + 1} = 1..k
  OBVIOUS
<1>7. SumFunctionOnSet(s, (1..(k + 1)) \ {k + 1}) = SumFunctionOnSet(s, 1..k)
  BY <1>6, Zenon
<1>8. SumFunctionOnSet(t, 1..k) = SumFunctionOnSet(s, 1..k) /\ SumFunctionOnSet(t, 1..k) \in Int
  <2>1. \A i \in 1..k : t[i] \in Int /\ t[i] = s[i]
    BY <1>2, <1>3
  <2> QED
    BY <1>4, <2>1, SumsEqual, SumIsInt
<1>9. SumFunction(s) = SumFunctionOnSet(s, 1..(k + 1)) /\ SumFunction(t) = SumFunctionOnSet(t, 1..k)
  BY <1>2, <1>3 DEF SumFunction
<1>10. SumFunction(s) = SumFunction(t) + w[k + 1]
  BY <1>2, <1>5, <1>7, <1>8, <1>9
<1>11. SumFunction(<<>>) = 0
  BY <1>1, SumOfNone DEF SumFunction
<1> QED
  BY <1>1, <1>10, <1>11 DEF s, t

ExportSteps == <<1, -1, 1, -1, 1, 1, 1, -1, 1, 1, -1, -1, -1, -1>>
ReaderSteps == <<1, -1, 1, -1, 1, -1, 1, -1>>

LEMMA ExportWalk == Len(Export) = 14 /\ \A i \in 1..14 : Export[i] = ExportSteps[i]
BY DEF Export, exportProducts, exportOptionGroups, ExportSteps

LEMMA ReaderWalk == Len(GetProductDetail) = 8 /\ \A i \in 1..8 : GetProductDetail[i] = ReaderSteps[i]
BY DEF GetProductDetail, listSKUs, listOptionGroups, ReaderSteps

\* What is held after k of them.
ExportHeld == <<1, 0, 1, 0, 1, 2, 3, 2, 3, 4, 3, 2, 1, 0>>
ReaderHeld == <<1, 0, 1, 0, 1, 0, 1, 0>>

LEMMA ExportHolds ==
    \A k \in 0..14 : SumFunction(SubSeq(Export, 1, k)) = IF k = 0 THEN 0 ELSE ExportHeld[k]
<1> DEFINE H(k) == SumFunction(SubSeq(Export, 1, k))
<1>1. \A i \in 1..14 : Export[i] \in Int
  BY ExportWalk DEF ExportSteps
<1>2. H(0) = 0
  <2>1. 0 \in Nat /\ \A i \in 1..(0 + 1) : Export[i] \in Int
    BY <1>1
  <2> QED
    BY <2>1, PrefixSum
<1>3. ASSUME NEW k \in 0..13
      PROVE  H(k + 1) = H(k) + Export[k + 1]
  <2>1. k \in Nat /\ \A i \in 1..(k + 1) : Export[i] \in Int
    BY <1>1
  <2> QED
    BY <2>1, PrefixSum
<1> HIDE DEF H
<1>4. H(1) = 1 /\ H(2) = 0 /\ H(3) = 1 /\ H(4) = 0 /\ H(5) = 1 /\ H(6) = 2 /\ H(7) = 3
  <2>1. /\ H(0 + 1) = H(0) + 1 /\ H(1 + 1) = H(1) + -1 /\ H(2 + 1) = H(2) + 1
        /\ H(3 + 1) = H(3) + -1 /\ H(4 + 1) = H(4) + 1 /\ H(5 + 1) = H(5) + 1
        /\ H(6 + 1) = H(6) + 1
    BY <1>3, ExportWalk DEF ExportSteps
  <2> QED
    BY <1>2, <2>1
<1>5. H(8) = 2 /\ H(9) = 3 /\ H(10) = 4 /\ H(11) = 3 /\ H(12) = 2 /\ H(13) = 1 /\ H(14) = 0
  <2>1. /\ H(7 + 1) = H(7) + -1 /\ H(8 + 1) = H(8) + 1 /\ H(9 + 1) = H(9) + 1
        /\ H(10 + 1) = H(10) + -1 /\ H(11 + 1) = H(11) + -1 /\ H(12 + 1) = H(12) + -1
        /\ H(13 + 1) = H(13) + -1
    BY <1>3, ExportWalk DEF ExportSteps
  <2> QED
    BY <1>4, <2>1
<1>6. \A k \in 0..14 : H(k) = IF k = 0 THEN 0 ELSE ExportHeld[k]
  BY <1>2, <1>4, <1>5 DEF ExportHeld
<1> QED
  BY <1>6 DEF H

LEMMA ReaderHolds ==
    \A k \in 0..8 : SumFunction(SubSeq(GetProductDetail, 1, k)) = IF k = 0 THEN 0 ELSE ReaderHeld[k]
<1> DEFINE H(k) == SumFunction(SubSeq(GetProductDetail, 1, k))
<1>1. \A i \in 1..8 : GetProductDetail[i] \in Int
  BY ReaderWalk DEF ReaderSteps
<1>2. H(0) = 0
  <2>1. 0 \in Nat /\ \A i \in 1..(0 + 1) : GetProductDetail[i] \in Int
    BY <1>1
  <2> QED
    BY <2>1, PrefixSum
<1>3. ASSUME NEW k \in 0..7
      PROVE  H(k + 1) = H(k) + GetProductDetail[k + 1]
  <2>1. k \in Nat /\ \A i \in 1..(k + 1) : GetProductDetail[i] \in Int
    BY <1>1
  <2> QED
    BY <2>1, PrefixSum
<1> HIDE DEF H
<1>4. /\ H(0 + 1) = H(0) + 1 /\ H(1 + 1) = H(1) + -1 /\ H(2 + 1) = H(2) + 1
      /\ H(3 + 1) = H(3) + -1 /\ H(4 + 1) = H(4) + 1 /\ H(5 + 1) = H(5) + -1
      /\ H(6 + 1) = H(6) + 1 /\ H(7 + 1) = H(7) + -1
  BY <1>3, ReaderWalk DEF ReaderSteps
<1>5. \A k \in 0..8 : H(k) = IF k = 0 THEN 0 ELSE ReaderHeld[k]
  BY <1>2, <1>4 DEF ReaderHeld
<1> QED
  BY <1>5 DEF H

(***************************************************************************)
(* Where a request is in its walk is all there is to keep.                 *)
(***************************************************************************)
Requests == Exports \cup Readers

PoolInv ==
    /\ DOMAIN at = Requests
    /\ \A r \in Requests : at[r] \in 0..Len(Walk(r))

LEMMA WalkIsOneOfTwo ==
    ASSUME NEW r
    PROVE  /\ r \in Exports => Walk(r) = Export /\ Len(Walk(r)) = 14
           /\ r \notin Exports => Walk(r) = GetProductDetail /\ Len(Walk(r)) = 8
BY ExportWalk, ReaderWalk DEF Walk

LEMMA PoolInvInit == PoolInit => PoolInv
<1> SUFFICES ASSUME PoolInit PROVE PoolInv
  OBVIOUS
<1>1. \A r \in Requests : at[r] = 0 /\ Len(Walk(r)) \in Nat
  BY WalkIsOneOfTwo DEF PoolInit, Requests
<1> QED
  BY <1>1 DEF PoolInit, PoolInv, Requests

LEMMA PoolInvStep == PoolInv /\ [PoolNext]_at => PoolInv'
<1> SUFFICES ASSUME PoolInv, [PoolNext]_at PROVE PoolInv'
  OBVIOUS
<1>1. ASSUME NEW r \in Requests PROVE Len(Walk(r)) \in Nat /\ at[r] \in 0..Len(Walk(r))
  BY WalkIsOneOfTwo DEF PoolInv
<1>2. ASSUME NEW r \in Requests, NEW k \in 0..Len(Walk(r)), at' = [at EXCEPT ![r] = k]
      PROVE  PoolInv'
  BY <1>2 DEF PoolInv, Walk
<1>3. ASSUME NEW r \in Requests, Query(r) \/ CloseRows(r) PROVE PoolInv'
  <2>1. at[r] + 1 \in 0..Len(Walk(r)) /\ at' = [at EXCEPT ![r] = at[r] + 1]
    BY <1>1, <1>3 DEF Query, CloseRows, Waiting
  <2> QED
    BY <1>2, <2>1
<1>4. ASSUME NEW r \in Requests, AnswerRead(r) \/ Disconnect(r) PROVE PoolInv'
  <2>1. 0 \in 0..Len(Walk(r)) /\ at' = [at EXCEPT ![r] = 0]
    BY <1>1, <1>4 DEF AnswerRead, Disconnect
  <2> QED
    BY <1>2, <2>1
<1>5. CASE UNCHANGED at
  BY <1>5 DEF PoolInv, Walk
<1> QED
  BY <1>3, <1>4, <1>5 DEF PoolNext, Requests

\* While it waits for a connection an export holds three at the most, a
\* reader of a dish none.
LEMMA HeldByWaiting ==
    ASSUME PoolInv, NEW r \in Requests
    PROVE  /\ Holds(r) \in Int
           /\ Waiting(r) => Holds(r) <= IF r \in Exports THEN 3 ELSE 0
<1>1. CASE r \in Exports
  <2>1. Walk(r) = Export /\ Len(Walk(r)) = 14 /\ at[r] \in 0..14
    BY <1>1, WalkIsOneOfTwo DEF PoolInv
  <2>2. Holds(r) = IF at[r] = 0 THEN 0 ELSE ExportHeld[at[r]]
    BY <2>1, ExportHolds DEF Holds
  <2>3. Waiting(r) => at[r] < 14 /\ ExportSteps[at[r] + 1] = 1
    BY <2>1, ExportWalk DEF Waiting
  <2> QED
    BY <1>1, <2>1, <2>2, <2>3 DEF ExportHeld, ExportSteps
<1>2. CASE r \notin Exports
  <2>1. Walk(r) = GetProductDetail /\ Len(Walk(r)) = 8 /\ at[r] \in 0..8
    BY <1>2, WalkIsOneOfTwo DEF PoolInv
  <2>2. Holds(r) = IF at[r] = 0 THEN 0 ELSE ReaderHeld[at[r]]
    BY <2>1, ReaderHolds DEF Holds
  <2>3. Waiting(r) => at[r] < 8 /\ ReaderSteps[at[r] + 1] = 1
    BY <2>1, ReaderWalk DEF Waiting
  <2> QED
    BY <1>2, <2>1, <2>2, <2>3 DEF ReaderHeld, ReaderSteps
<1> QED
  BY <1>1, <1>2

LEMMA PoolInvariant == PoolSpec => []PoolInv
<1>1. PoolInit => PoolInv
  BY PoolInvInit
<1>2. PoolInv /\ [PoolNext]_at => PoolInv'
  BY PoolInvStep
<1> QED
  BY <1>1, <1>2, PTL DEF PoolSpec

\* Whatever the number of connections, exports and readers: when everyone who
\* has a connection waits for another and none is left, all of them are
\* exports, at least one for every three connections.  So sixteen exports do
\* not stop the 50 connections of storage/db.go:25; seventeen may.
THEOREM OnlyExportsStopThePool == PoolSpec => []OnlyExportsJam
<1>1. PoolInv => OnlyExportsJam
  <2> SUFFICES ASSUME PoolInv, InUse = PoolSize, \A r \in Holders : Waiting(r)
               PROVE  Holders \subseteq Exports /\ PoolSize <= 3 * Cardinality(Holders)
    BY DEF OnlyExportsJam, Jammed
  <2> DEFINE held == [r \in Requests |-> Holds(r)]
  <2>1. /\ Holders \subseteq Requests
        /\ \A r \in Requests : Holds(r) > 0 <=> r \in Holders
    BY DEF Holders, Requests
  <2>2. \A r \in Requests : Holds(r) \in Int /\ (r \in Holders => Holds(r) <= IF r \in Exports THEN 3 ELSE 0)
    BY <2>1, HeldByWaiting
  <2>3. Holders \subseteq Exports
    BY <2>1, <2>2
  <2>4. ASSUME NEW r \in Requests
        PROVE  held[r] \in Int /\ held[r] <= IF r \in Holders THEN 3 ELSE 0
    BY <2>1, <2>2, <2>3
  <2>5. IsFiniteSet(Requests) /\ IsFiniteSet(Holders)
    BY <2>1, PoolAssumption, FS_Union, FS_Subset DEF Requests
  <2>6. InUse = SumFunctionOnSet(held, Requests)
    BY DEF InUse, SumFunction, Requests
  <2> HIDE DEF held
  <2>7. SumFunctionOnSet(held, Requests) <= 3 * Cardinality(Requests \cap Holders)
    BY <2>4, <2>5, SumAtMost
  <2>8. Requests \cap Holders = Holders
    BY <2>1
  <2>9. Cardinality(Requests \cap Holders) = Cardinality(Holders)
    BY <2>8, Zenon
  <2> QED
    BY <2>3, <2>6, <2>7, <2>9
<1> QED
  BY <1>1, PoolInvariant, PTL

(***************************************************************************)
(* PickupSlots: steps of a given length, and how many fit.                 *)
(***************************************************************************)
LEMMA Division ==
    ASSUME NEW n \in Nat, NEW s \in Nat \ {0}
    PROVE  n \div s \in Int /\ s * (n \div s) <= n /\ n < s * (n \div s) + s
OBVIOUS

LEMMA LongerForMore ==
    ASSUME NEW s \in Nat \ {0}, NEW a \in Int, NEW b \in Int, a <= b
    PROVE  s * a <= s * b
OBVIOUS

LEMMA WholeSteps ==
    ASSUME NEW s \in Nat \ {0}, NEW d \in Nat
    PROVE  d % s = 0 <=> \E i \in Nat : d = s * i
<1>1. ASSUME NEW i \in Nat
      PROVE  (s * i) % s = 0
  OBVIOUS
<1>2. ASSUME d % s = 0
      PROVE  d \div s \in Nat /\ d = s * (d \div s)
  <2>1. d = s * (d \div s) /\ d \div s \in Int
    BY <1>2
  <2>2. ASSUME d \div s <= -1
        PROVE  FALSE
    <3>1. s * (d \div s) <= s * (-1)
      BY <2>1, <2>2, LongerForMore
    <3> QED
      BY <2>1, <3>1
  <2> QED
    BY <2>1, <2>2
<1> QED
  BY <1>1, <1>2

\* The number of steps is right: step i + 1 is one of them when it begins
\* before the n minutes are over.
LEMMA StepsThatFit ==
    ASSUME NEW s \in Nat \ {0}, NEW n \in Nat, NEW i \in Nat
    PROVE  i + 1 <= (n + s - 1) \div s <=> s * i < n
<1> DEFINE q == (n + s - 1) \div s
<1>1. q \in Int /\ s * q <= n + s - 1 /\ n + s - 1 < s * q + s
  <2>1. n + s - 1 \in Nat
    OBVIOUS
  <2> QED
    BY <2>1, Division
<1> HIDE DEF q
<1>2. s * i \in Int /\ s * q \in Int /\ s * (i + 1) = s * i + s
  BY <1>1
<1>3. ASSUME i + 1 <= q
      PROVE  s * i < n
  <2>1. s * (i + 1) <= s * q
    BY <1>1, <1>3, LongerForMore
  <2> QED
    BY <1>1, <1>2, <2>1
<1>4. ASSUME q <= i
      PROVE  n <= s * i
  <2>1. s * q <= s * i
    BY <1>1, <1>4, LongerForMore
  <2> QED
    BY <1>1, <1>2, <2>1
<1>5. i + 1 <= q <=> s * i < n
  BY <1>1, <1>2, <1>3, <1>4
<1> QED
  BY <1>5 DEF q

\* The places taken are looked up under keys that the map never has.
LEMMA NothingReserved ==
    ASSUME NEW booked, NEW m
    PROVE  ReservedAt(ReservedBySlot(booked), m) = 0
BY DEF ReservedAt, ReservedBySlot

LEMMA ConfigTypes ==
    ASSUME NEW cfg \in PickupConfig
    PROVE  cfg.hours \in Hours /\ cfg.step \in Nat /\ cfg.capacity \in Nat /\ cfg.lead \in Nat
<1>1. cfg.hours \in Hours /\ cfg.step \in SlotMinutes
  BY DEF PickupConfig
<1>2. cfg.capacity \in SlotCapacities /\ cfg.lead \in LeadMinutes
  BY DEF PickupConfig
<1>3. SlotMinutes \subseteq Nat /\ SlotCapacities \subseteq Nat /\ LeadMinutes \subseteq Nat
  BY SlotsAssumption
<1> QED
  BY <1>1, <1>2, <1>3

\* The slots of a day with settings in their range.
LEMMA SlotsOfDay ==
    ASSUME NEW cfg \in PickupConfig, ValidConfig(cfg), NEW day \in Nat, NEW now \in Nat, NEW booked,
           NEW m \in Nat
    PROVE  LET open == day * DayMinutes + parseHHMM(cfg.hours.from)
               close == day * DayMinutes + parseHHMM(cfg.hours.to)
               slots == GenerateSlots(cfg, day, now, ReservedBySlot(booked))
           IN /\ (\E i \in DOMAIN slots : slots[i].available /\ slots[i].at = m)
                    <=> open <= m /\ m < close /\ (m - open) % cfg.step = 0 /\ m > now + cfg.lead
              /\ \A i \in DOMAIN slots : slots[i].remaining = cfg.capacity
<1> DEFINE open == day * DayMinutes + parseHHMM(cfg.hours.from)
           close == day * DayMinutes + parseHHMM(cfg.hours.to)
           slots == GenerateSlots(cfg, day, now, ReservedBySlot(booked))
           n == parseHHMM(cfg.hours.to) - parseHHMM(cfg.hours.from)
           s == cfg.step
           count == (n + s - 1) \div s
<1>1. s \in Nat \ {0} /\ cfg.lead \in Nat /\ cfg.capacity \in Nat /\ cfg.capacity >= 1 /\ cfg.hours \in Hours
  BY ConfigTypes DEF ValidConfig
<1>2. parseHHMM(cfg.hours.from) \in Nat /\ parseHHMM(cfg.hours.to) \in Nat
  BY <1>1, SlotsAssumption DEF parseHHMM
<1>3. open \in Nat /\ n \in Nat /\ close = open + n
  BY <1>2 DEF ValidConfig, ParseBusinessHours, DayMinutes
<1>4. count \in Int
  BY <1>1, <1>3, Division
<1>5. /\ DOMAIN slots = 1..count
      /\ \A i \in 1..count :
           LET t == open + (i - 1) * s IN
           /\ slots[i].at = t /\ (slots[i].available <=> LateEnough(cfg, now, t))
           /\ slots[i].remaining = cfg.capacity
  <2>1. \A t : /\ Remaining(cfg, ReservedBySlot(booked), t) = cfg.capacity
               /\ Remaining(cfg, ReservedBySlot(booked), t) > 0
    BY <1>1, NothingReserved DEF Remaining
  <2> QED
    BY <2>1 DEF GenerateSlots
<1> HIDE DEF open, close, slots, n, s
<1>6. ASSUME NEW i \in 1..count
      PROVE  /\ s * (i - 1) \in Nat /\ (i - 1) * s = s * (i - 1)
             /\ s * (i - 1) < n /\ (s * (i - 1)) % s = 0
  <2>1. i - 1 \in Nat /\ (i - 1) + 1 <= count
    BY <1>4
  <2> HIDE DEF count
  <2>2. s * (i - 1) \in Nat /\ (i - 1) * s = s * (i - 1)
    BY <1>1, <2>1
  <2>3. s * (i - 1) < n
    BY <1>1, <1>3, <2>1, StepsThatFit DEF count
  <2>4. (s * (i - 1)) % s = 0
    BY <1>1, <2>1, <2>2, WholeSteps
  <2> QED
    BY <2>2, <2>3, <2>4
<1>7. ASSUME NEW k \in Nat, s * k < n
      PROVE  /\ k + 1 \in 1..count /\ ((k + 1) - 1) * s = s * k
  <2>1. k + 1 <= count
    BY <1>1, <1>3, <1>7, StepsThatFit DEF count
  <2> HIDE DEF count
  <2> QED
    BY <1>1, <1>4, <2>1
<1> HIDE DEF count
<1>8. ASSUME NEW i \in DOMAIN slots, slots[i].available, slots[i].at = m
      PROVE  open <= m /\ m < close /\ (m - open) % s = 0 /\ m > now + cfg.lead
  <2>1. i \in 1..count /\ m = open + (i - 1) * s /\ m > now + cfg.lead
    BY <1>5, <1>8 DEF LateEnough
  <2>2. m - open = s * (i - 1)
    BY <1>3, <1>6, <2>1
  <2> QED
    BY <1>3, <1>6, <2>1, <2>2
<1>9. ASSUME open <= m, m < close, (m - open) % s = 0, m > now + cfg.lead
      PROVE  \E i \in DOMAIN slots : slots[i].available /\ slots[i].at = m
  <2>1. m - open \in Nat
    BY <1>3, <1>9
  <2>2. PICK k \in Nat : m - open = s * k
    BY <1>1, <1>9, <2>1, WholeSteps
  <2>3. s * k < n
    BY <1>3, <1>9, <2>1, <2>2
  <2>4. k + 1 \in 1..count /\ open + ((k + 1) - 1) * s = m
    BY <1>1, <1>3, <1>7, <2>2, <2>3
  <2> QED
    BY <1>5, <1>9, <2>4 DEF LateEnough
<1>10. \A i \in DOMAIN slots : slots[i].remaining = cfg.capacity
  BY <1>5
<1> QED
  BY <1>8, <1>9, <1>10 DEF open, close, slots, s

\* A time is offered exactly when it is one the settings allow and the lead
\* has passed, for all settings, days and hours; and it is offered as free,
\* however many places are taken.
THEOREM OfferedAsFree == SlotsSpec => []OffersOpenTimesAsFree
<1>1. SlotsInit => OffersOpenTimesAsFree
  BY DEF SlotsInit, NotOffered, OffersOpenTimesAsFree
<1>2. ASSUME NEW cfg \in PickupConfig, NEW day \in Days, NEW now \in Nows, NEW booked,
             AskSlots(cfg, day, now, booked)
      PROVE  OffersOpenTimesAsFree'
  <2> DEFINE midnight == day * DayMinutes
             slots == offer'.slots
             Open(m) == /\ cfg.enabled /\ ValidConfig(cfg)
                        /\ parseHHMM(cfg.hours.from) <= m - midnight
                        /\ m - midnight < parseHHMM(cfg.hours.to)
                        /\ (m - midnight - parseHHMM(cfg.hours.from)) % cfg.step = 0
                        /\ m - now > cfg.lead
  <2>1. /\ offer'.asked /\ offer'.cfg = cfg /\ offer'.day = day /\ offer'.now = now
        /\ slots = IF cfg.enabled /\ ValidConfig(cfg)
                   THEN GenerateSlots(cfg, day, now, ReservedBySlot(booked)) ELSE <<>>
    BY <1>2 DEF AskSlots
  <2>2. day \in Nat /\ now \in Nat /\ midnight \in Nat /\ cfg.lead \in Nat /\ cfg.hours \in Hours
    BY ConfigTypes, SlotsAssumption DEF DayMinutes
  <2>3. parseHHMM(cfg.hours.from) \in Nat /\ parseHHMM(cfg.hours.to) \in Nat
    BY <2>2, SlotsAssumption DEF parseHHMM
  <2>4. ASSUME NEW m \in midnight..(midnight + DayMinutes - 1)
        PROVE  (\E i \in DOMAIN slots : slots[i].available /\ slots[i].at = m) <=> Open(m)
    <3>1. m \in Nat
      BY <2>2 DEF DayMinutes
    <3>2. CASE cfg.enabled /\ ValidConfig(cfg)
      <4>1. /\ midnight + parseHHMM(cfg.hours.from) <= m
                 <=> parseHHMM(cfg.hours.from) <= m - midnight
            /\ m < midnight + parseHHMM(cfg.hours.to) <=> m - midnight < parseHHMM(cfg.hours.to)
            /\ m - (midnight + parseHHMM(cfg.hours.from)) = m - midnight - parseHHMM(cfg.hours.from)
            /\ m > now + cfg.lead <=> m - now > cfg.lead
        BY <2>2, <2>3, <3>1
      <4> QED
        BY <2>1, <2>2, <3>1, <3>2, <4>1, SlotsOfDay
    <3>3. CASE ~(cfg.enabled /\ ValidConfig(cfg))
      <4>1. DOMAIN slots = {}
        BY <2>1, <3>3
      <4> QED
        BY <3>3, <4>1
    <3> QED
      BY <3>2, <3>3
  <2>5. \A i \in DOMAIN slots : slots[i].remaining = cfg.capacity
    <3>1. CASE cfg.enabled /\ ValidConfig(cfg)
      <4>1. slots = GenerateSlots(cfg, day, now, ReservedBySlot(booked))
        BY <2>1, <3>1
      <4> HIDE DEF slots
      <4> QED
        BY <2>2, <3>1, <4>1, SlotsOfDay
    <3>2. CASE ~(cfg.enabled /\ ValidConfig(cfg))
      BY <2>1, <3>2
    <3> QED
      BY <3>1, <3>2
  <2>6. ASSUME NEW m
        PROVE  m \in {slots[i].at : i \in {j \in DOMAIN slots : slots[j].available}}
                 <=> \E i \in DOMAIN slots : slots[i].available /\ slots[i].at = m
    OBVIOUS
  <2> HIDE DEF slots
  <2> QED
    BY <2>1, <2>4, <2>5, <2>6 DEF OffersOpenTimesAsFree, slots
<1>3. OffersOpenTimesAsFree /\ [SlotsNext]_offer => OffersOpenTimesAsFree'
  BY <1>2 DEF SlotsNext, OffersOpenTimesAsFree
<1> QED
  BY <1>1, <1>3, PTL DEF SlotsSpec

(***************************************************************************)
(* Pricing: the amounts of a cart that passed its check are integers.      *)
(***************************************************************************)
CheckedLine(line) ==
    /\ line.item \in Items /\ line.qty \in Nat
    /\ line.opts \in Seq(Range(line.opts)) /\ Range(line.opts) \subseteq Options

CheckedCart(cart) ==
    cart \in Seq(Range(cart)) /\ \A l \in DOMAIN cart : CheckedLine(cart[l])

LEMMA ValidIsChecked ==
    ASSUME NEW in, in.cart \in Carts, Validate(in)
    PROVE  CheckedCart(in.cart)
<1>1. in.cart \in Seq(Range(in.cart))
  BY PricingAssumption
<1>2. ASSUME NEW l \in DOMAIN in.cart
      PROVE  CheckedLine(in.cart[l])
  <2>1. in.cart[l].opts \in Seq(Range(in.cart[l].opts))
    BY PricingAssumption
  <2>2. in.cart[l].qty \in 1..99 /\ in.cart[l].item \in Items
    BY DEF Validate
  <2>3. Range(in.cart[l].opts) \subseteq Options
    BY DEF Validate
  <2>4. in.cart[l].qty \in Nat
    BY <2>2
  <2> QED
    BY <2>1, <2>2, <2>3, <2>4, Zenon DEF CheckedLine
<1> QED
  BY <1>1, <1>2 DEF CheckedCart

LEMMA PlacesOf ==
    ASSUME NEW s, s \in Seq(Range(s))
    PROVE  /\ Len(s) \in Nat /\ DOMAIN s = 1..Len(s) /\ IsFiniteSet(DOMAIN s)
           /\ \A i \in DOMAIN s : s[i] \in Range(s)
<1>1. Len(s) \in Nat /\ DOMAIN s = 1..Len(s) /\ \A i \in DOMAIN s : s[i] \in Range(s)
  OBVIOUS
<1> QED
  BY <1>1, FS_Interval

OptionPrices(line) == [i \in DOMAIN line.opts |-> OptionPrice[line.opts[i]]]
LineAmounts(cart) == [l \in DOMAIN cart |-> Unit(cart[l]) * cart[l].qty]
LinePacks(cart) == [l \in DOMAIN cart |-> ItemPack[cart[l].item] * cart[l].qty]

LEMMA UnitIs ==
    ASSUME NEW line
    PROVE  Unit(line) = ItemPrice[line.item] + SumFunctionOnSet(OptionPrices(line), DOMAIN line.opts)
BY DEF Unit, SumOf, SumFunction, OptionPrices

LEMMA ItemAmountIs ==
    ASSUME NEW cart
    PROVE  ItemAmount(cart) = SumFunctionOnSet(LineAmounts(cart), DOMAIN cart)
BY DEF ItemAmount, SumOf, SumFunction, LineAmounts

LEMMA PackagingFeeIs ==
    ASSUME NEW in
    PROVE  PackagingFee(in) = IF in.scenario = "PICKUP"
                              THEN SumFunctionOnSet(LinePacks(in.cart), DOMAIN in.cart) ELSE 0
BY DEF PackagingFee, SumOf, SumFunction, LinePacks

LEMMA UnitIsInt ==
    ASSUME NEW line, CheckedLine(line)
    PROVE  Unit(line) \in Int
<1>1. IsFiniteSet(DOMAIN line.opts) /\ \A i \in DOMAIN line.opts : line.opts[i] \in Options
  BY PlacesOf DEF CheckedLine
<1>2. \A i \in DOMAIN line.opts : OptionPrices(line)[i] \in Int
  BY <1>1, PricingAssumption DEF OptionPrices
<1>3. SumFunctionOnSet(OptionPrices(line), DOMAIN line.opts) \in Int
  BY <1>1, <1>2, SumIsInt
<1>4. ItemPrice[line.item] \in Int
  BY PricingAssumption DEF CheckedLine
<1> QED
  BY <1>3, <1>4, UnitIs

LEMMA AmountsAreInts ==
    ASSUME NEW cart, CheckedCart(cart)
    PROVE  /\ \A l \in DOMAIN cart : LineAmounts(cart)[l] \in Int /\ LinePacks(cart)[l] \in Int
           /\ ItemAmount(cart) \in Int
           /\ SumFunctionOnSet(LinePacks(cart), DOMAIN cart) \in Int
<1>1. IsFiniteSet(DOMAIN cart)
  BY PlacesOf DEF CheckedCart
<1>2. ASSUME NEW l \in DOMAIN cart
      PROVE  LineAmounts(cart)[l] \in Int /\ LinePacks(cart)[l] \in Int
  <2>1. CheckedLine(cart[l])
    BY DEF CheckedCart
  <2>2. Unit(cart[l]) \in Int /\ cart[l].qty \in Int /\ ItemPack[cart[l].item] \in Int
    BY <2>1, UnitIsInt, PricingAssumption DEF CheckedLine
  <2> QED
    BY <2>2 DEF LineAmounts, LinePacks
<1> QED
  BY <1>1, <1>2, SumIsInt, ItemAmountIs

(***************************************************************************)
(* The offers.                                                             *)
(***************************************************************************)
LEMMA PromotionIsNat ==
    ASSUME NEW promos \in Promotions, NEW base \in Int
    PROVE  PromotionDiscount(promos, base) \in Nat
<1> DEFINE J == {j \in DOMAIN promos : base >= promos[j].threshold}
           Reached == {promos[i].discount : i \in J}
           D == {0} \cup Reached
<1>1. IsFiniteSet(DOMAIN promos)
  BY PricingAssumption, PlacesOf
<1>2. IsFiniteSet(J)
  BY <1>1, FS_Subset
<1>3. [i \in J |-> promos[i].discount] \in Surjection(J, Reached)
  BY DEF Surjection
<1>4. D \subseteq Nat
  BY PricingAssumption
<1>5. IsFiniteSet(Reached)
  <2> HIDE DEF J, Reached
  <2> QED
    BY <1>2, <1>3, FS_Surjection
<1>6. IsFiniteSet(D) /\ D # {} /\ D \subseteq Int
  <2>1. IsFiniteSet({0})
    BY FS_Singleton
  <2>2. D \subseteq Int /\ D # {}
    BY <1>4
  <2> HIDE DEF Reached
  <2>3. IsFiniteSet({0} \cup Reached)
    BY <1>5, <2>1, FS_Union
  <2> QED
    BY <2>2, <2>3
<1>7. PromotionDiscount(promos, base) = CHOOSE d \in D : \A e \in D : e <= d
  BY DEF PromotionDiscount
<1> HIDE DEF D
<1>8. \E d \in D : \A e \in D : e <= d
  BY <1>6, GreatestOfFinite
<1>9. PromotionDiscount(promos, base) \in D
  BY <1>7, <1>8
<1> QED
  BY <1>4, <1>9

LEMMA NoPromotion ==
    ASSUME NEW base \in Int
    PROVE  PromotionDiscount(<<>>, base) = 0
<1> DEFINE D == {0} \cup {<<>>[i].discount : i \in {j \in DOMAIN <<>> : base >= <<>>[j].threshold}}
<1>1. D = {0}
  OBVIOUS
<1>2. PromotionDiscount(<<>>, base) = CHOOSE d \in D : \A e \in D : e <= d
  BY DEF PromotionDiscount
<1> HIDE DEF D
<1> QED
  BY <1>1, <1>2

LEMMA CouponIsNat ==
    ASSUME NEW coupon \in Vouchers \cup {NoVoucher}, NEW base \in Int
    PROVE  CouponDiscount(coupon, base) \in Nat /\ CouponDiscount(NoVoucher, base) = 0
BY PricingAssumption DEF CouponDiscount

(***************************************************************************)
(* The last call of the engine was one with a possible input.              *)
(***************************************************************************)
IsInput(in) ==
    /\ in = [cart |-> in.cart, scenario |-> in.scenario, table |-> in.table,
             scheduled |-> in.scheduled, promos |-> in.promos, coupon |-> in.coupon, left |-> in.left]
    /\ in.cart \in Carts
    /\ in.promos \in Promotions \cup {<<>>}
    /\ in.coupon \in Vouchers \cup {NoVoucher}

PricingInv ==
    priced.asked # "none" => IsInput(priced.in) /\ priced.out = Price(priced.in)

LEMMA PricingInvInit == PricingInit => PricingInv
BY DEF PricingInit, NotPriced, PricingInv

LEMMA PricingInvStep == PricingInv /\ [PricingNext]_priced => PricingInv'
<1> SUFFICES ASSUME PricingInv, [PricingNext]_priced PROVE PricingInv'
  OBVIOUS
<1>1. CASE PriceAsked
  <2>1. PICK cart \in Carts, scenario \in {"DINE_IN", "PICKUP"}, promos \in Promotions,
             coupon \in Vouchers \cup {NoVoucher} :
          LET in == [cart |-> cart, scenario |-> scenario, table |-> TRUE, scheduled |-> FALSE,
                     promos |-> promos, coupon |-> coupon, left |-> ItemLeft]
          IN priced' = [asked |-> "engine", in |-> in, out |-> Price(in)]
    BY <1>1 DEF PriceAsked
  <2> QED
    BY <2>1 DEF PricingInv, IsInput
<1>2. CASE PreviewAsked
  <2>1. PICK cart \in Carts, scenario \in {"DINE_IN", "PICKUP"}, scheduled \in BOOLEAN :
          LET in == buildPricingInput(cart, scenario, scheduled)
          IN priced' = [asked |-> "preview", in |-> in, out |-> Price(in)]
    BY <1>2 DEF PreviewAsked
  <2> QED
    BY <2>1 DEF PricingInv, IsInput, buildPricingInput
<1>3. CASE UNCHANGED priced
  BY <1>3 DEF PricingInv
<1> QED
  BY <1>1, <1>2, <1>3 DEF PricingNext

LEMMA PricingInvariant == PricingSpec => []PricingInv
<1>1. PricingInit => PricingInv
  BY PricingInvInit
<1>2. PricingInv /\ [PricingNext]_priced => PricingInv'
  BY PricingInvStep
<1> QED
  BY <1>1, <1>2, PTL DEF PricingSpec

(***************************************************************************)
(* The better offer, and no more than there is to pay.                     *)
(***************************************************************************)
Gross(in) == ItemAmount(in.cart) + PackagingFee(in)

LEMMA PriceIs ==
    ASSUME NEW in, Validate(in)
    PROVE  LET d == Discount(in, ItemAmount(in.cart))
               cut == IF d.cents > Gross(in) THEN Gross(in) ELSE d.cents
           IN /\ Price(in).ok /\ Price(in).gross = Gross(in) /\ Price(in).kind = d.kind
              /\ Price(in).discount = cut /\ Price(in).payable = Gross(in) - cut
BY DEF Price, Gross

LEMMA OkIsValid ==
    ASSUME NEW in, Price(in).ok
    PROVE  Validate(in)
BY DEF Price

LEMMA GrossIsInt ==
    ASSUME NEW in, in.cart \in Carts, Validate(in)
    PROVE  ItemAmount(in.cart) \in Int /\ Gross(in) \in Int
<1>1. ItemAmount(in.cart) \in Int /\ SumFunctionOnSet(LinePacks(in.cart), DOMAIN in.cart) \in Int
  BY ValidIsChecked, AmountsAreInts
<1>2. PackagingFee(in) \in Int
  BY <1>1, PackagingFeeIs
<1> QED
  BY <1>1, <1>2 DEF Gross

LEMMA BetterOffer ==
    ASSUME NEW in, NEW base,
           PromotionDiscount(in.promos, base) \in Nat, CouponDiscount(in.coupon, base) \in Nat
    PROVE  LET p == PromotionDiscount(in.promos, base)
               c == CouponDiscount(in.coupon, base)
           IN /\ Discount(in, base).cents = IF p >= c THEN p ELSE c
              /\ Discount(in, base).kind = "coupon" => c > p
BY DEF Discount

\* The offers of one call of the engine: a coupon and a promotion never add
\* up, whatever the menu, the cart, the promotions and the coupon.
THEOREM OffersDoNotAdd == PricingSpec => []OffersNeverAdd
<1>1. PricingInv => OffersNeverAdd
  <2> SUFFICES ASSUME PricingInv, Ok PROVE OffersNeverAdd
    BY DEF OffersNeverAdd
  <2> DEFINE in == priced.in
             bare == [in EXCEPT !.coupon = NoVoucher]
             full == [in EXCEPT !.promos = <<>>]
             base == ItemAmount(in.cart)
             p == PromotionDiscount(in.promos, base)
             c == CouponDiscount(in.coupon, base)
             g == Gross(in)
             Left(d) == g - (IF d > g THEN g ELSE d)
  <2>1. IsInput(in) /\ priced.out = Price(in) /\ Validate(in)
    BY OkIsValid DEF PricingInv, Ok
  <2>2. /\ bare.cart = in.cart /\ bare.scenario = in.scenario /\ bare.table = in.table
        /\ bare.scheduled = in.scheduled /\ bare.left = in.left
        /\ bare.promos = in.promos /\ bare.coupon = NoVoucher
    BY <2>1 DEF IsInput
  <2>3. /\ full.cart = in.cart /\ full.scenario = in.scenario /\ full.table = in.table
        /\ full.scheduled = in.scheduled /\ full.left = in.left
        /\ full.promos = <<>> /\ full.coupon = in.coupon
    BY <2>1 DEF IsInput
  <2>4. in.cart \in Carts /\ in.promos \in Promotions \cup {<<>>} /\ in.coupon \in Vouchers \cup {NoVoucher}
    BY <2>1 DEF IsInput
  <2> HIDE DEF in, bare, full
  <2>5. Validate(bare) /\ Validate(full) /\ Gross(bare) = g /\ Gross(full) = g
    BY <2>1, <2>2, <2>3 DEF Validate, Gross, PackagingFee
  <2>6. base \in Int /\ g \in Int
    BY <2>1, <2>4, GrossIsInt
  <2>7. PromotionDiscount(<<>>, base) = 0 /\ p \in Nat
    BY <2>4, <2>6, NoPromotion, PromotionIsNat
  <2>8. CouponDiscount(NoVoucher, base) = 0 /\ c \in Nat
    BY <2>4, <2>6, CouponIsNat
  <2>9. /\ Price(in).payable = Left(Discount(in, base).cents)
        /\ Price(in).payable + Price(in).discount = g /\ Price(in).gross = g
        /\ Price(in).kind = Discount(in, base).kind
        /\ Discount(in, base).cents = IF p >= c THEN p ELSE c
        /\ Discount(in, base).kind = "coupon" => c > p
    BY <2>1, <2>6, <2>7, <2>8, PriceIs, BetterOffer
  <2>10. Price(bare).payable = Left(p)
    <3>1. Discount(bare, base).cents = IF p >= 0 THEN p ELSE 0
      BY <2>2, <2>7, <2>8, BetterOffer
    <3>2. Discount(bare, base).cents = p
      BY <2>7, <3>1
    <3> HIDE DEF p, base, g
    <3> QED
      BY <2>2, <2>5, <3>2, PriceIs DEF base
  <2>11. Price(full).payable = Left(c)
    <3>1. Discount(full, base).cents = IF 0 >= c THEN 0 ELSE c
      BY <2>3, <2>7, <2>8, BetterOffer
    <3>2. Discount(full, base).cents = c
      BY <2>8, <3>1
    <3> HIDE DEF c, base, g
    <3> QED
      BY <2>3, <2>5, <3>2, PriceIs DEF base
  <2>12. /\ Price(in).payable = IF Left(p) <= Left(c) THEN Left(p) ELSE Left(c)
         /\ Price(in).payable >= 0 /\ Price(in).payable + Price(in).discount = Price(in).gross
         /\ Price(in).kind = "coupon" => Price(in).payable < Left(p) \/ Price(in).payable = 0
    <3> HIDE DEF p, c, base, g
    <3> QED
      BY <2>6, <2>7, <2>8, <2>9
  <2> QED
    BY <2>1, <2>10, <2>11, <2>12 DEF OffersNeverAdd, in, bare, full
<1> QED
  BY <1>1, PricingInvariant, PTL

(***************************************************************************)
(* Lines and carts in another order.                                       *)
(***************************************************************************)
LEMMA CountRenamed ==
    ASSUME NEW C, IsFiniteSet(C), NEW p \in Bijection(C, C), NEW A \in SUBSET C, NEW B \in SUBSET C,
           \A i \in C : i \in A <=> p[i] \in B
    PROVE  Cardinality(A) = Cardinality(B)
<1> DEFINE q == [i \in A |-> p[i]]
<1>1. \A i, j \in C : p[i] = p[j] => i = j
  BY DEF Bijection, Injection, IsInjective
<1>2. \A j \in C : \E i \in C : p[i] = j
  BY DEF Bijection, Surjection
<1>3. q \in [A -> B]
  OBVIOUS
<1>4. q \in Injection(A, B)
  <2>1. \A i, j \in A : q[i] = q[j] => i = j
    BY <1>1
  <2>2. DOMAIN q = A
    OBVIOUS
  <2> HIDE DEF q
  <2> QED
    BY <1>3, <2>1, <2>2 DEF Injection, IsInjective
<1>5. q \in Surjection(A, B)
  <2>1. \A j \in B : \E i \in A : q[i] = j
    BY <1>2
  <2> HIDE DEF q
  <2> QED
    BY <1>3, <2>1 DEF Surjection
<1>6. IsFiniteSet(A)
  BY FS_Subset
<1>7. ExistsBijection(A, B)
  <2>1. q \in Bijection(A, B)
    BY <1>4, <1>5 DEF Bijection
  <2> HIDE DEF q
  <2> QED
    BY <2>1 DEF ExistsBijection
<1> QED
  BY <1>6, <1>7, FS_Bijection

LEMMA SameLineIs ==
    ASSUME NEW a, NEW b, SameLine(a, b),
           a.opts \in Seq(Range(a.opts)), b.opts \in Seq(Range(b.opts))
    PROVE  /\ a.item = b.item /\ a.qty = b.qty /\ DOMAIN a.opts = DOMAIN b.opts
           /\ IsFiniteSet(DOMAIN a.opts)
           /\ \E p \in Bijection(DOMAIN a.opts, DOMAIN a.opts) :
                \A i \in DOMAIN a.opts : a.opts[i] = b.opts[p[i]]
<1>1. /\ a.item = b.item /\ a.qty = b.qty /\ Len(a.opts) = Len(b.opts)
      /\ \E p \in Bijection(DOMAIN a.opts, DOMAIN a.opts) :
           \A i \in DOMAIN a.opts : a.opts[i] = b.opts[p[i]]
  BY DEF SameLine, Reordered
<1>2. DOMAIN a.opts = 1..Len(a.opts) /\ DOMAIN b.opts = 1..Len(b.opts) /\ IsFiniteSet(DOMAIN a.opts)
  BY PlacesOf
<1> QED
  BY <1>1, <1>2

\* The same options in another order are the same line to the engine and in
\* the summary.
LEMMA SameLineFacts ==
    ASSUME NEW a, NEW b, SameLine(a, b),
           a.opts \in Seq(Range(a.opts)), b.opts \in Seq(Range(b.opts))
    PROVE  /\ a.item = b.item /\ a.qty = b.qty /\ Range(a.opts) = Range(b.opts)
           /\ LineSummary(a) = LineSummary(b)
           /\ CheckedLine(b) => CheckedLine(a) /\ Unit(a) = Unit(b)
<1> DEFINE C == DOMAIN a.opts
<1>1. /\ a.item = b.item /\ a.qty = b.qty /\ C = DOMAIN b.opts /\ IsFiniteSet(C)
      /\ \E p \in Bijection(C, C) : \A i \in C : a.opts[i] = b.opts[p[i]]
  BY SameLineIs
<1>2. PICK p \in Bijection(C, C) : \A i \in C : a.opts[i] = b.opts[p[i]]
  BY <1>1
<1>3. (\A i \in C : p[i] \in C) /\ (\A j \in C : \E i \in C : p[i] = j)
  BY DEF Bijection, Surjection
<1>4. Range(a.opts) = Range(b.opts)
  <2>1. \A v : v \in Range(a.opts) <=> \E i \in C : a.opts[i] = v
    BY DEF Range
  <2>2. \A v : v \in Range(b.opts) <=> \E i \in DOMAIN b.opts : b.opts[i] = v
    BY DEF Range
  <2>3. \A v : v \in Range(b.opts) <=> \E i \in C : b.opts[i] = v
    BY <1>1, <2>2
  <2>4. ASSUME NEW v, v \in Range(a.opts)
        PROVE  v \in Range(b.opts)
    BY <1>2, <1>3, <2>1, <2>3, <2>4
  <2>5. ASSUME NEW v, v \in Range(b.opts)
        PROVE  v \in Range(a.opts)
    <3>1. PICK j \in C : b.opts[j] = v
      BY <2>3, <2>5
    <3>2. PICK i \in C : p[i] = j
      BY <1>3
    <3>3. a.opts[i] = v
      BY <1>2, <3>1, <3>2
    <3> QED
      BY <2>1, <3>3
  <2> QED
    BY <2>4, <2>5
<1>5. ASSUME NEW o
      PROVE  Cardinality({i \in C : a.opts[i] = o}) = Cardinality({i \in C : b.opts[i] = o})
  <2> DEFINE A == {i \in C : a.opts[i] = o}
             B == {i \in C : b.opts[i] = o}
  <2>1. A \in SUBSET C /\ B \in SUBSET C /\ \A i \in C : i \in A <=> p[i] \in B
    BY <1>2, <1>3
  <2> HIDE DEF A, B, C
  <2>2. Cardinality(A) = Cardinality(B)
    BY <1>1, <2>1, CountRenamed
  <2> QED
    BY <2>2 DEF A, B
<1>6. LineSummary(a) = LineSummary(b)
  BY <1>1, <1>5 DEF LineSummary
<1>7. ASSUME CheckedLine(b)
      PROVE  CheckedLine(a) /\ Unit(a) = Unit(b)
  <2>1. CheckedLine(a)
    <3>1. Range(a.opts) \subseteq Options
      BY <1>4, <1>7 DEF CheckedLine
    <3> QED
      BY <1>1, <1>7, <3>1, Zenon DEF CheckedLine
  <2>2. \A i \in C : a.opts[i] \in Options
    BY <2>1, PlacesOf DEF CheckedLine
  <2>3. ASSUME NEW i \in C
        PROVE  OptionPrices(a)[i] \in Int /\ OptionPrices(a)[i] = OptionPrices(b)[p[i]]
    <3>1. OptionPrices(a)[i] = OptionPrice[a.opts[i]]
      BY DEF OptionPrices
    <3>2. p[i] \in DOMAIN b.opts
      BY <1>1, <1>3
    <3>3. OptionPrices(b)[p[i]] = OptionPrice[b.opts[p[i]]]
      BY <3>2 DEF OptionPrices
    <3>4. a.opts[i] = b.opts[p[i]] /\ OptionPrice[a.opts[i]] \in Int
      BY <1>2, <2>2, PricingAssumption
    <3> QED
      BY <3>1, <3>3, <3>4
  <2> HIDE DEF C
  <2>4. SumFunctionOnSet(OptionPrices(a), C) = SumFunctionOnSet(OptionPrices(b), C)
    BY <1>1, <2>3, SumRenamed
  <2> QED
    BY <1>1, <2>1, <2>4, UnitIs DEF C
<1> QED
  BY <1>1, <1>4, <1>6, <1>7

\* Line i of one cart is line p[i] of the other.
SameCart(c, d, p) ==
    /\ DOMAIN c = DOMAIN d /\ IsFiniteSet(DOMAIN d) /\ p \in Bijection(DOMAIN d, DOMAIN d)
    /\ (c = <<>>) = (d = <<>>)
    /\ \A i \in DOMAIN d : p[i] \in DOMAIN d
    /\ \A j \in DOMAIN d : \E i \in DOMAIN d : p[i] = j
    /\ \A i \in DOMAIN d :
         /\ c[i].item = d[p[i]].item /\ c[i].qty = d[p[i]].qty
         /\ Range(c[i].opts) = Range(d[p[i]].opts)
         /\ LineSummary(c[i]) = LineSummary(d[p[i]])
         /\ CheckedLine(d[p[i]]) => CheckedLine(c[i]) /\ Unit(c[i]) = Unit(d[p[i]])

LEMMA SameCartIs ==
    ASSUME NEW c \in Carts, NEW d \in Carts, Reordered(c, d, SameLine)
    PROVE  \E p : SameCart(c, d, p)
<1>1. /\ c \in Seq(Range(c)) /\ \A l \in DOMAIN c : c[l].opts \in Seq(Range(c[l].opts))
      /\ d \in Seq(Range(d)) /\ \A l \in DOMAIN d : d[l].opts \in Seq(Range(d[l].opts))
  BY PricingAssumption
<1>2. /\ Len(c) = Len(d)
      /\ \E p \in Bijection(DOMAIN c, DOMAIN c) : \A i \in DOMAIN c : SameLine(c[i], d[p[i]])
  BY DEF Reordered
<1>3. DOMAIN c = DOMAIN d /\ IsFiniteSet(DOMAIN d) /\ (c = <<>>) = (d = <<>>)
  <2>1. DOMAIN c = 1..Len(c) /\ DOMAIN d = 1..Len(d) /\ IsFiniteSet(DOMAIN d)
    BY <1>1, PlacesOf
  <2>2. (c = <<>>) = (Len(c) = 0) /\ (d = <<>>) = (Len(d) = 0)
    BY <1>1
  <2> QED
    BY <1>2, <2>1, <2>2
<1>4. PICK p \in Bijection(DOMAIN d, DOMAIN d) : \A i \in DOMAIN d : SameLine(c[i], d[p[i]])
  BY <1>2, <1>3
<1>5. (\A i \in DOMAIN d : p[i] \in DOMAIN d) /\ (\A j \in DOMAIN d : \E i \in DOMAIN d : p[i] = j)
  BY DEF Bijection, Surjection
<1>6. ASSUME NEW i \in DOMAIN d
      PROVE  /\ c[i].item = d[p[i]].item /\ c[i].qty = d[p[i]].qty
             /\ Range(c[i].opts) = Range(d[p[i]].opts)
             /\ LineSummary(c[i]) = LineSummary(d[p[i]])
             /\ CheckedLine(d[p[i]]) => CheckedLine(c[i]) /\ Unit(c[i]) = Unit(d[p[i]])
  BY <1>1, <1>3, <1>4, <1>5, SameLineFacts
<1>7. SameCart(c, d, p)
  BY <1>3, <1>4, <1>5, <1>6 DEF SameCart
<1> QED
  BY <1>7

LEMMA SameSummary ==
    ASSUME NEW c, NEW d, NEW p, SameCart(c, d, p)
    PROVE  hashCart(c) = hashCart(d)
<1> DEFINE L == DOMAIN d
           SumsOf(x) == {LineSummary(x[l]) : l \in L}
           Count(x, s) == Cardinality({l \in L : LineSummary(x[l]) = s})
<1>1. /\ DOMAIN c = L /\ IsFiniteSet(L) /\ p \in Bijection(L, L)
      /\ \A i \in L : p[i] \in L /\ LineSummary(c[i]) = LineSummary(d[p[i]])
      /\ \A j \in L : \E i \in L : p[i] = j
  BY DEF SameCart
<1> HIDE DEF L
<1>2. SumsOf(c) = SumsOf(d)
  <2>1. \A i \in L : \E j \in L : LineSummary(c[i]) = LineSummary(d[j])
    BY <1>1
  <2>2. ASSUME NEW j \in L
        PROVE  \E i \in L : LineSummary(d[j]) = LineSummary(c[i])
    <3>1. PICK i \in L : p[i] = j
      BY <1>1
    <3> QED
      BY <1>1, <3>1
  <2> QED
    BY <2>1, <2>2
<1>3. ASSUME NEW s
      PROVE  Count(c, s) = Count(d, s)
  <2> DEFINE A == {l \in L : LineSummary(c[l]) = s}
             B == {l \in L : LineSummary(d[l]) = s}
  <2>1. A \in SUBSET L /\ B \in SUBSET L /\ \A i \in L : i \in A <=> p[i] \in B
    BY <1>1
  <2> HIDE DEF A, B
  <2>2. Cardinality(A) = Cardinality(B)
    BY <1>1, <2>1, CountRenamed
  <2> QED
    BY <2>2 DEF A, B
<1>4. hashCart(c) = [s \in SumsOf(c) |-> Count(c, s)] /\ hashCart(d) = [s \in SumsOf(d) |-> Count(d, s)]
  <2>1. hashCart(d) = [s \in SumsOf(d) |-> Count(d, s)]
    BY DEF hashCart, L
  <2>2. hashCart(c) = [s \in {LineSummary(c[l]) : l \in DOMAIN c} |->
                        Cardinality({l \in DOMAIN c : LineSummary(c[l]) = s})]
    BY DEF hashCart
  <2> QED
    BY <1>1, <2>1, <2>2, Zenon
<1> HIDE DEF SumsOf, Count
<1>5. [s \in SumsOf(c) |-> Count(c, s)] = [s \in SumsOf(d) |-> Count(c, s)]
  BY <1>2, Zenon
<1>6. [s \in SumsOf(d) |-> Count(c, s)] = [s \in SumsOf(d) |-> Count(d, s)]
  BY <1>3, Zenon
<1> QED
  BY <1>4, <1>5, <1>6, Zenon

LEMMA SameOptionsChosen ==
    ASSUME NEW c, NEW d, NEW p, SameCart(c, d, p), NEW g
    PROVE  Chosen(c, g) = Chosen(d, g)
<1>1. /\ DOMAIN c = DOMAIN d
      /\ \A i \in DOMAIN d : p[i] \in DOMAIN d /\ Range(c[i].opts) = Range(d[p[i]].opts)
      /\ \A j \in DOMAIN d : \E i \in DOMAIN d : p[i] = j
  BY DEF SameCart
<1>2. ASSUME NEW o
      PROVE  (\E l \in DOMAIN c : o \in Range(c[l].opts)) <=> \E l \in DOMAIN d : o \in Range(d[l].opts)
  <2>1. ASSUME NEW l \in DOMAIN c, o \in Range(c[l].opts)
        PROVE  \E m \in DOMAIN d : o \in Range(d[m].opts)
    <3>1. l \in DOMAIN d
      BY <1>1
    <3>2. p[l] \in DOMAIN d /\ o \in Range(d[p[l]].opts)
      BY <1>1, <2>1, <3>1
    <3> QED
      BY <3>2
  <2>2. ASSUME NEW l \in DOMAIN d, o \in Range(d[l].opts)
        PROVE  \E m \in DOMAIN c : o \in Range(c[m].opts)
    <3>1. PICK i \in DOMAIN d : p[i] = l
      BY <1>1
    <3>2. o \in Range(c[i].opts) /\ i \in DOMAIN c
      BY <1>1, <2>2, <3>1
    <3> QED
      BY <3>2
  <2> QED
    BY <2>1, <2>2
<1> QED
  BY <1>2 DEF Chosen

LEMMA SameAmounts ==
    ASSUME NEW c, NEW d, NEW p, SameCart(c, d, p), CheckedCart(d)
    PROVE  /\ ItemAmount(c) = ItemAmount(d)
           /\ SumFunctionOnSet(LinePacks(c), DOMAIN c) = SumFunctionOnSet(LinePacks(d), DOMAIN d)
<1> DEFINE L == DOMAIN d
<1>1. /\ DOMAIN c = L /\ IsFiniteSet(L) /\ p \in Bijection(L, L)
      /\ \A i \in L : /\ p[i] \in L /\ c[i].item = d[p[i]].item /\ c[i].qty = d[p[i]].qty
                      /\ CheckedLine(d[p[i]]) => Unit(c[i]) = Unit(d[p[i]])
  BY DEF SameCart
<1>2. \A l \in L : /\ CheckedLine(d[l])
                   /\ LineAmounts(d)[l] \in Int /\ LinePacks(d)[l] \in Int
                   /\ LineAmounts(d)[l] = Unit(d[l]) * d[l].qty
                   /\ LinePacks(d)[l] = ItemPack[d[l].item] * d[l].qty
  BY AmountsAreInts DEF CheckedCart, LineAmounts, LinePacks
<1>3. \A l \in L : /\ LineAmounts(c)[l] = Unit(c[l]) * c[l].qty
                   /\ LinePacks(c)[l] = ItemPack[c[l].item] * c[l].qty
  BY <1>1 DEF LineAmounts, LinePacks
<1> HIDE DEF L
<1>4. ASSUME NEW i \in L
      PROVE  /\ LineAmounts(c)[i] = LineAmounts(d)[p[i]] /\ LineAmounts(c)[i] \in Int
             /\ LinePacks(c)[i] = LinePacks(d)[p[i]] /\ LinePacks(c)[i] \in Int
  <2>1. /\ p[i] \in L /\ c[i].item = d[p[i]].item /\ c[i].qty = d[p[i]].qty
        /\ Unit(c[i]) = Unit(d[p[i]])
    BY <1>1, <1>2
  <2>2. LineAmounts(c)[i] = LineAmounts(d)[p[i]] /\ LinePacks(c)[i] = LinePacks(d)[p[i]]
    BY <1>2, <1>3, <2>1
  <2> QED
    BY <1>2, <2>1, <2>2
<1>5. SumFunctionOnSet(LineAmounts(c), L) = SumFunctionOnSet(LineAmounts(d), L)
  BY <1>1, <1>4, SumRenamed
<1>6. SumFunctionOnSet(LinePacks(c), L) = SumFunctionOnSet(LinePacks(d), L)
  BY <1>1, <1>4, SumRenamed
<1>7. ItemAmount(c) = SumFunctionOnSet(LineAmounts(c), L) /\ ItemAmount(d) = SumFunctionOnSet(LineAmounts(d), L)
  <2>1. ItemAmount(c) = SumFunctionOnSet(LineAmounts(c), DOMAIN c)
    BY ItemAmountIs
  <2>2. ItemAmount(d) = SumFunctionOnSet(LineAmounts(d), L)
    BY ItemAmountIs DEF L
  <2> QED
    BY <1>1, <2>1, <2>2, Zenon
<1>8. SumFunctionOnSet(LinePacks(c), DOMAIN c) = SumFunctionOnSet(LinePacks(c), L)
  BY <1>1, Zenon
<1> QED
  BY <1>5, <1>6, <1>7, <1>8, Zenon DEF L

\* The check of the cart passes in any order when it passes in one.
LEMMA SameCheck ==
    ASSUME NEW in, NEW in2, NEW p, SameCart(in2.cart, in.cart, p), CheckedCart(in.cart), Validate(in),
           in2.scenario = in.scenario, in2.table = in.table, in2.scheduled = in.scheduled,
           in2.left = in.left
    PROVE  Validate(in2)
<1> DEFINE c == in2.cart
           d == in.cart
<1>1. /\ DOMAIN c = DOMAIN d /\ (c = <<>>) = (d = <<>>)
      /\ \A i \in DOMAIN d : /\ p[i] \in DOMAIN d
                             /\ c[i].item = d[p[i]].item /\ c[i].qty = d[p[i]].qty
                             /\ Range(c[i].opts) = Range(d[p[i]].opts)
  BY DEF SameCart
<1>2. (in.scenario = "DINE_IN" => in.table /\ ~in.scheduled) /\ d # <<>> /\ validateOptionGroups(d)
  BY DEF Validate
<1>3. ASSUME NEW l \in DOMAIN d
      PROVE  /\ d[l].qty \in 1..99 /\ d[l].item \in Items /\ Range(d[l].opts) \subseteq Options
             /\ ItemMode[d[l].item] = "DAILY" /\ in.left[d[l].item] >= 0
                  => d[l].qty <= in.left[d[l].item]
  BY DEF Validate
<1>4. validateOptionGroups(c)
  BY <1>2, SameOptionsChosen DEF validateOptionGroups
<1> HIDE DEF c, d
<1>5. ASSUME NEW l \in DOMAIN c
      PROVE  /\ c[l].qty \in 1..99 /\ c[l].item \in Items /\ Range(c[l].opts) \subseteq Options
             /\ ItemMode[c[l].item] = "DAILY" /\ in2.left[c[l].item] >= 0
                  => c[l].qty <= in2.left[c[l].item]
  <2>1. /\ p[l] \in DOMAIN d /\ c[l].item = d[p[l]].item /\ c[l].qty = d[p[l]].qty
        /\ Range(c[l].opts) = Range(d[p[l]].opts)
    BY <1>1
  <2>2. /\ d[p[l]].qty \in 1..99 /\ d[p[l]].item \in Items /\ Range(d[p[l]].opts) \subseteq Options
        /\ ItemMode[d[p[l]].item] = "DAILY" /\ in.left[d[p[l]].item] >= 0
             => d[p[l]].qty <= in.left[d[p[l]].item]
    BY <1>3, <2>1
  <2>3. Range(c[l].opts) \subseteq Options
    BY <2>1, <2>2
  <2> QED
    BY <2>1, <2>2, <2>3
<1> QED
  BY <1>1, <1>2, <1>4, <1>5 DEF Validate, c, d

\* The price and the summary of a cart are those of its lines and options,
\* not of the order they were sent in, for every menu and every cart.
THEOREM OrderOfCartDoesNotMatter == PricingSpec => []OrderOfCartIrrelevant
<1>1. PricingInv => OrderOfCartIrrelevant
  <2> SUFFICES ASSUME PricingInv, Ok,
                      NEW cart \in Carts, Reordered(cart, priced.in.cart, SameLine)
               PROVE  /\ hashCart(cart) = hashCart(priced.in.cart)
                      /\ Price([priced.in EXCEPT !.cart = cart]) = priced.out
    BY DEF OrderOfCartIrrelevant
  <2> DEFINE in == priced.in
             in2 == [in EXCEPT !.cart = cart]
  <2>1. IsInput(in) /\ priced.out = Price(in) /\ Validate(in)
    BY OkIsValid DEF PricingInv, Ok
  <2>2. in.cart \in Carts
    BY <2>1 DEF IsInput
  <2>3. /\ in2.cart = cart /\ in2.scenario = in.scenario /\ in2.table = in.table
        /\ in2.scheduled = in.scheduled /\ in2.left = in.left
        /\ in2.promos = in.promos /\ in2.coupon = in.coupon
    BY <2>1 DEF IsInput
  <2> HIDE DEF in2
  <2>4. PICK p : SameCart(cart, in.cart, p)
    BY <2>2, SameCartIs
  <2>5. CheckedCart(in.cart)
    BY <2>1, <2>2, ValidIsChecked
  <2>6. hashCart(cart) = hashCart(in.cart)
    BY <2>4, SameSummary
  <2>7. Validate(in2)
    BY <2>1, <2>3, <2>4, <2>5, SameCheck
  <2>8. ItemAmount(in2.cart) = ItemAmount(in.cart) /\ PackagingFee(in2) = PackagingFee(in)
    BY <2>3, <2>4, <2>5, SameAmounts, PackagingFeeIs
  <2>9. Discount(in2, ItemAmount(in2.cart)) = Discount(in, ItemAmount(in.cart))
    BY <2>3, <2>8 DEF Discount
  <2>10. Price(in2) = Price(in)
    BY <2>1, <2>7, <2>8, <2>9 DEF Price
  <2> QED
    BY <2>1, <2>6, <2>10 DEF in2
<1> QED
  BY <1>1, PricingInvariant, PTL

=============================================================================
