----------------------------- MODULE NumberLemmas -----------------------------
(***************************************************************************)
(* Facts about numbers that the proofs of several modules cite: induction, *)
(* as the least element of a set, since the natural numbers are well       *)
(* founded; maxima; and the function a fold is made of.                    *)
(***************************************************************************)
EXTENDS Integers, FiniteSetsExt, FiniteSetTheorems, WellFoundedInduction, TLAPS

Less == OpToRel(<, Nat)

\* Every set of natural numbers that has an element has a least one.
LEMMA Least == ASSUME NEW T \in SUBSET Nat, T # {} PROVE \E n \in T : \A k \in T : n <= k
<1>1. IsWellFoundedOn(Less, Nat)
  BY NatLessThanWellFounded DEF Less
<1>2. \A i, j \in Nat : i < j => <<i, j>> \in Less
  BY DEF Less, OpToRel
<1>3. \E n \in T : \A k \in T : ~(<<k, n>> \in Less)
  BY <1>1, WFMin
<1>4. PICK n \in T : \A k \in T : ~(<<k, n>> \in Less)
  BY <1>3
<1>5. ASSUME NEW k \in T PROVE n <= k
  <2>1. k \in Nat /\ n \in Nat
    OBVIOUS
  <2>2. ~(k < n)
    BY <1>2, <1>4, <2>1
  <2>3. QED
    BY <2>1, <2>2
<1>6. QED
  BY <1>5

\* Induction up to n.
LEMMA Upwards ==
  ASSUME NEW n \in Nat, NEW T, 0 \in T, \A k \in 1 .. n : k - 1 \in T => k \in T
  PROVE  \A k \in 0 .. n : k \in T
<1> DEFINE Bad == {k \in 0 .. n : k \notin T}
<1>1. ASSUME Bad # {} PROVE FALSE
  <2>1. PICK k \in Bad : \A j \in Bad : k <= j
    <3>1. Bad \in SUBSET Nat
      OBVIOUS
    <3>2. QED
      BY <1>1, <3>1, Least
  <2>2. k \in 1 .. n /\ k - 1 \in 0 .. n
    BY <2>1
  <2>3. k - 1 \in T
    BY <2>1, <2>2
  <2>4. QED
    BY <2>1, <2>2, <2>3
<1>2. QED
  BY <1>1

\* A finite set of numbers has a maximum: of its subsets without one, a smallest
\* would still be without one less an element.
LEMMA Greatest ==
  ASSUME NEW S \in SUBSET Int, IsFiniteSet(S), S # {}
  PROVE  Max(S) \in S /\ \A x \in S : x <= Max(S)
<1> DEFINE HasMax(T) == \E x \in T : \A y \in T : x >= y
           Bad == {T \in SUBSET S : T # {} /\ ~HasMax(T)}
<1>1. ASSUME Bad # {} PROVE FALSE
  <2>1. FiniteSubsetsOf(S) = SUBSET S
    BY FS_FiniteSubsetsOfFinite
  <2>2. IsWellFoundedOn(StrictSubsetOrdering(S), SUBSET S)
    BY <2>1, FS_StrictSubsetOrderingWellFounded
  <2>3. PICK T \in Bad : \A U \in Bad : ~ (<<U, T>> \in StrictSubsetOrdering(S))
    BY <1>1, <2>2, WFMin
  <2>4. PICK x \in T : TRUE
    BY <2>3
  <2>5. T \ {x} \notin Bad
    BY <2>3, <2>4 DEF StrictSubsetOrdering
  <2>6. CASE T \ {x} = {}
    <3>1. T = {x} /\ x \in Int
      BY <2>3, <2>4, <2>6
    <3>2. HasMax(T)
      BY <3>1
    <3>3. QED
      BY <2>3, <3>2
  <2>7. CASE T \ {x} # {}
    <3>1. PICK m \in T \ {x} : \A y \in T \ {x} : m >= y
      BY <2>3, <2>5, <2>7
    <3>2. x \in Int /\ m \in Int /\ \A y \in T : y \in Int
      BY <2>3, <2>4, <3>1
    <3>3. \A y \in T : y = x \/ m >= y
      BY <3>1
    <3>4. CASE m >= x
      <4>1. \A y \in T : m >= y
        BY <3>3, <3>4
      <4>2. QED
        BY <2>3, <3>1, <4>1
    <3>5. CASE ~(m >= x)
      <4>1. \A y \in T : x >= y
        BY <3>2, <3>3, <3>5
      <4>2. QED
        BY <2>3, <2>4, <4>1
    <3>6. QED
      BY <3>4, <3>5
  <2>8. QED
    BY <2>6, <2>7
<1>2. HasMax(S)
  BY <1>1
<1>3. Max(S) \in S /\ \A y \in S : Max(S) >= y
  BY <1>2 DEF Max
<1>4. QED
  BY <1>3

\* A set of numbers up to n.
LEMMA MaxIn ==
  ASSUME NEW n \in Nat, NEW S \in SUBSET (1 .. n), S # {}
  PROVE  Max(S) \in S /\ \A x \in S : Max(S) >= x
<1>1. IsFiniteSet(1 .. n)
  BY FS_Interval
<1>2. IsFiniteSet(S)
  BY <1>1, FS_Subset
<1>3. S \in SUBSET Int
  OBVIOUS
<1>4. Max(S) \in S /\ \A x \in S : x <= Max(S)
  BY <1>2, <1>3, Greatest
<1>5. QED
  BY <1>3, <1>4

LEMMA MaxOf ==
  ASSUME NEW n \in Nat, NEW S \in SUBSET (1 .. n), n \in S
  PROVE  Max(S) = n
<1>1. Max(S) \in S /\ Max(S) >= n
  BY MaxIn
<1>2. Max(S) \in 1 .. n
  BY <1>1
<1>3. QED
  BY <1>1, <1>2

\* The functions of MapThenFoldSet, over the numbers up to n and with values in V.
Folded(n, V, base, G) ==
  {g \in [SUBSET (1 .. n) -> V] :
     \A S \in SUBSET (1 .. n) :
       g[S] = IF S = {} THEN base ELSE G[<<Max(S), g[S \ {Max(S)}]>>]}

\* If the values stay in V there is one.
LEMMA FoldExists ==
  ASSUME NEW n \in Nat, NEW V, NEW base \in V, NEW G \in [(1 .. n) \X V -> V]
  PROVE  Folded(n, V, base, G) # {}
<1> DEFINE Fits(m, g) == \A S \in SUBSET (1 .. m) :
                           g[S] = IF S = {} THEN base ELSE G[<<Max(S), g[S \ {Max(S)}]>>]
           T == {m \in 0 .. n : \E g \in [SUBSET (1 .. m) -> V] : Fits(m, g)}
<1>1. 0 \in T
  <2> DEFINE g == [S \in SUBSET (1 .. 0) |-> base]
  <2>1. SUBSET (1 .. 0) = {{}}
    OBVIOUS
  <2>2. g \in [SUBSET (1 .. 0) -> V] /\ Fits(0, g)
    BY <2>1
  <2> HIDE DEF g
  <2>3. \E f \in [SUBSET (1 .. 0) -> V] : Fits(0, f)
    BY <2>2
  <2>4. 0 \in 0 .. n
    OBVIOUS
  <2> HIDE DEF Fits
  <2>5. QED
    BY <2>3, <2>4
<1>2. ASSUME NEW k \in 1 .. n, k - 1 \in T PROVE k \in T
  <2>1. PICK g \in [SUBSET (1 .. (k - 1)) -> V] : Fits(k - 1, g)
    BY <1>2
  <2> DEFINE h == [S \in SUBSET (1 .. k) |-> IF k \in S THEN G[<<k, g[S \ {k}]>>] ELSE g[S]]
  <2>2. \A S \in SUBSET (1 .. k) : /\ S \ {k} \in SUBSET (1 .. (k - 1))
                                   /\ k \notin S => S \in SUBSET (1 .. (k - 1))
    OBVIOUS
  <2>3. h \in [SUBSET (1 .. k) -> V]
    BY <2>1, <2>2
  <2>4. \A S \in SUBSET (1 .. (k - 1)) : S \in SUBSET (1 .. k) /\ k \notin S
    OBVIOUS
  <2>5. \A S \in SUBSET (1 .. (k - 1)) : h[S] = g[S]
    BY <2>4
  <2>6. ASSUME NEW S \in SUBSET (1 .. k)
        PROVE  h[S] = IF S = {} THEN base ELSE G[<<Max(S), h[S \ {Max(S)}]>>]
    <3>1. CASE k \in S
      <4>1. Max(S) = k
        BY <3>1, MaxOf
      <4>2. h[S] = G[<<k, g[S \ {k}]>>]
        BY <3>1
      <4>3. h[S \ {k}] = g[S \ {k}]
        BY <2>2, <2>5
      <4>4. QED
        BY <3>1, <4>1, <4>2, <4>3
    <3>2. CASE k \notin S
      <4>1. S \in SUBSET (1 .. (k - 1)) /\ h[S] = g[S]
        BY <2>2, <2>5, <3>2
      <4>2. S \ {Max(S)} \in SUBSET (1 .. (k - 1))
        BY <4>1
      <4>3. h[S \ {Max(S)}] = g[S \ {Max(S)}]
        BY <2>5, <4>2
      <4>4. g[S] = IF S = {} THEN base ELSE G[<<Max(S), g[S \ {Max(S)}]>>]
        BY <2>1, <4>1
      <4>5. QED
        BY <4>1, <4>3, <4>4
    <3>3. QED
      BY <3>1, <3>2
  <2>7. Fits(k, h)
    BY <2>6
  <2> HIDE DEF h
  <2>8. \E f \in [SUBSET (1 .. k) -> V] : Fits(k, f)
    BY <2>3, <2>7
  <2> HIDE DEF Fits
  <2>9. QED
    BY <2>8
<1>3. \A k \in 0 .. n : k \in T
  <2> HIDE DEF T
  <2>1. QED
    BY <1>1, <1>2, Upwards
<1>4. n \in T
  <2> HIDE DEF T
  <2>1. QED
    BY <1>3
<1>5. QED
  BY <1>4 DEF Folded

===============================================================================
