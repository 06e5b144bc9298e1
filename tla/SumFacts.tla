------------------------------ MODULE SumFacts ------------------------------
(***************************************************************************)
(* Sums over finite sets: the weights w[a] of the elements of S, added up  *)
(* with the fold of the community modules.  The library proves induction   *)
(* only for operators, so each induction here is an argument about a       *)
(* minimal counterexample among the subsets of a finite set; so is that a  *)
(* finite set has an element of greatest weight.                           *)
(***************************************************************************)
EXTENDS Integers, FiniteSetsExt, FiniteSetTheorems, TLAPS

Total(w, S) == MapThenSumSet(LAMBDA a : w[a], S)

\* The function the fold is defined by, which takes its element of each set.
Pick(s) == CHOOSE x \in s : TRUE

Iterates(it, w, S) ==
    it = [s \in SUBSET S |-> IF s = {} THEN 0 ELSE w[Pick(s)] + it[s \ {Pick(s)}]]

Iterate(w, S) == CHOOSE it : Iterates(it, w, S)

LEMMA SumIsIterate ==
    ASSUME NEW w, NEW S
    PROVE  Total(w, S) = Iterate(w, S)[S]
BY DEF Total, MapThenSumSet, MapThenFoldSet, Iterate, Iterates, Pick

LEMMA Picked == ASSUME NEW s, s # {} PROVE Pick(s) \in s
BY DEF Pick

\* A non-empty collection of subsets of a finite set has a minimal member.
LEMMA MinimalSubset ==
    ASSUME NEW S, IsFiniteSet(S), NEW B \in SUBSET SUBSET S, B # {}
    PROVE  \E T \in B : \A U \in B : U \subseteq T => U = T
<1>1. IsWellFoundedOn(StrictSubsetOrdering(S), SUBSET S)
  BY FS_StrictSubsetOrderingWellFounded, FS_FiniteSubsetsOfFinite
<1>2. PICK T \in B : \A U \in B : ~(<<U, T>> \in StrictSubsetOrdering(S))
  BY <1>1, WFMin
<1> QED
  BY <1>2 DEF StrictSubsetOrdering

LEMMA IterateUnique ==
    ASSUME NEW w, NEW S, IsFiniteSet(S), NEW f, NEW g, Iterates(f, w, S), Iterates(g, w, S)
    PROVE  f = g
<1> DEFINE B == {s \in SUBSET S : f[s] # g[s]}
<1>1. SUFFICES ASSUME B # {} PROVE FALSE
  <2>1. ASSUME B = {} PROVE f = g
    <3>1. /\ f = [s \in SUBSET S |-> f[s]]
          /\ g = [s \in SUBSET S |-> g[s]]
      BY DEF Iterates
    <3> QED
      BY <2>1, <3>1
  <2> QED
    BY <2>1
<1>2. PICK T \in B : \A U \in B : U \subseteq T => U = T
  <2>1. B \in SUBSET SUBSET S
    OBVIOUS
  <2> HIDE DEF B
  <2> QED
    BY <1>1, <2>1, MinimalSubset
<1>3. CASE T = {}
  BY <1>2, <1>3 DEF Iterates
<1>4. CASE T # {}
  <2> DEFINE U == T \ {Pick(T)}
  <2>1. Pick(T) \in T
    BY <1>4, Picked
  <2>2. f[U] = g[U]
    BY <1>2, <2>1
  <2>3. f[T] = w[Pick(T)] + f[U] /\ g[T] = w[Pick(T)] + g[U]
    BY <1>4 DEF Iterates
  <2> QED
    BY <1>2, <2>2, <2>3
<1> QED
  BY <1>3, <1>4

LEMMA IterateRestricted ==
    ASSUME NEW w, NEW S, NEW f, Iterates(f, w, S), NEW T \in SUBSET S
    PROVE  Iterates([s \in SUBSET T |-> f[s]], w, T)
<1> DEFINE h == [s \in SUBSET T |-> f[s]]
<1>1. ASSUME NEW s \in SUBSET T
      PROVE  h[s] = IF s = {} THEN 0 ELSE w[Pick(s)] + h[s \ {Pick(s)}]
  <2>1. f[s] = IF s = {} THEN 0 ELSE w[Pick(s)] + f[s \ {Pick(s)}]
    BY DEF Iterates
  <2>2. h[s] = f[s] /\ h[s \ {Pick(s)}] = f[s \ {Pick(s)}]
    OBVIOUS
  <2> QED
    BY <2>1, <2>2
<1>2. h = [s \in SUBSET T |-> h[s]]
  OBVIOUS
<1> HIDE DEF h
<1>3. Iterates(h, w, T)
  BY <1>1, <1>2 DEF Iterates
<1> QED
  BY <1>3 DEF h

LEMMA IterateExists ==
    ASSUME NEW w, NEW S, IsFiniteSet(S)
    PROVE  Iterates(Iterate(w, S), w, S)
<1> DEFINE Exists(T) == \E it : Iterates(it, w, T)
           B == {T \in SUBSET S : ~Exists(T)}
<1>1. ASSUME Exists(S) PROVE Iterates(Iterate(w, S), w, S)
  BY <1>1 DEF Iterate
<1>2. SUFFICES ASSUME B # {} PROVE FALSE
  BY <1>1
<1>3. PICK T \in B : \A U \in B : U \subseteq T => U = T
  <2>1. B \in SUBSET SUBSET S
    OBVIOUS
  <2> HIDE DEF B
  <2> QED
    BY <1>2, <2>1, MinimalSubset
<1> DEFINE Value(u) == Iterate(w, u)[u]
           h == [s \in SUBSET T |-> IF s = {} THEN 0 ELSE w[Pick(s)] + Value(s \ {Pick(s)})]
<1>4. ASSUME NEW u \in SUBSET T, u # T
      PROVE  Iterates(Iterate(w, u), w, u)
  <2>1. Exists(u)
    BY <1>3, <1>4
  <2> QED
    BY <2>1 DEF Iterate
<1>5. ASSUME NEW u \in SUBSET T, u # T, NEW v \in SUBSET u
      PROVE  Iterate(w, u)[v] = Value(v)
  <2>1. Iterates([s \in SUBSET v |-> Iterate(w, u)[s]], w, v)
    BY <1>4, <1>5, IterateRestricted
  <2>2. v # T /\ v \in SUBSET T
    BY <1>5
  <2>3. Iterates(Iterate(w, v), w, v)
    BY <1>4, <2>2
  <2>4. IsFiniteSet(v)
    BY <1>3, <2>2, FS_Subset
  <2>5. [s \in SUBSET v |-> Iterate(w, u)[s]] = Iterate(w, v)
    BY <2>1, <2>3, <2>4, IterateUnique
  <2> QED
    BY <2>5
<1>6. ASSUME NEW u \in SUBSET T, u # T
      PROVE  h[u] = Value(u)
  <2>1. Iterate(w, u)[u] = IF u = {} THEN 0 ELSE w[Pick(u)] + Iterate(w, u)[u \ {Pick(u)}]
    BY <1>4, <1>6 DEF Iterates
  <2>2. Iterate(w, u)[u \ {Pick(u)}] = Value(u \ {Pick(u)})
    BY <1>5, <1>6
  <2> QED
    BY <2>1, <2>2
<1>7. ASSUME NEW s \in SUBSET T
      PROVE  h[s] = IF s = {} THEN 0 ELSE w[Pick(s)] + h[s \ {Pick(s)}]
  <2>1. CASE s = {}
    BY <2>1
  <2>2. CASE s # {}
    <3>1. Pick(s) \in s
      BY <2>2, Picked
    <3>2. h[s \ {Pick(s)}] = Value(s \ {Pick(s)})
      BY <1>6, <3>1
    <3> QED
      BY <2>2, <3>2
  <2> QED
    BY <2>1, <2>2
<1>8. h = [s \in SUBSET T |-> h[s]]
  OBVIOUS
<1> HIDE DEF h
<1>9. Iterates(h, w, T)
  BY <1>7, <1>8 DEF Iterates
<1> QED
  BY <1>3, <1>9

-----------------------------------------------------------------------------

\* The sum of no elements.
LEMMA SumEmpty == ASSUME NEW w PROVE Total(w, {}) = 0
<1>1. Iterates(Iterate(w, {}), w, {})
  BY IterateExists, FS_EmptySet
<1>2. Iterate(w, {})[{}] = 0
  BY <1>1, {} \in SUBSET {} DEF Iterates
<1> QED
  BY <1>2, SumIsIterate

\* The sum takes the picked element first.
LEMMA SumPicked ==
    ASSUME NEW w, NEW S, IsFiniteSet(S), S # {}
    PROVE  Total(w, S) = w[Pick(S)] + Total(w, S \ {Pick(S)})
<1> DEFINE it == Iterate(w, S)
           U == S \ {Pick(S)}
<1>1. Iterates(it, w, S)
  BY IterateExists
<1>2. IsFiniteSet(U)
  BY FS_Subset
<1>3. Iterates([s \in SUBSET U |-> it[s]], w, U)
  BY <1>1, IterateRestricted
<1>4. Iterate(w, U) = [s \in SUBSET U |-> it[s]]
  BY <1>2, <1>3, IterateExists, IterateUnique
<1>5. it[S] = w[Pick(S)] + it[U]
  BY <1>1 DEF Iterates
<1> QED
  BY <1>4, <1>5, SumIsIterate

\* A sum of integers is one.
LEMMA SumInt ==
    ASSUME NEW w, NEW S, IsFiniteSet(S), \A a \in S : w[a] \in Int
    PROVE  Total(w, S) \in Int
<1> DEFINE B == {T \in SUBSET S : Total(w, T) \notin Int}
<1>1. SUFFICES ASSUME B # {} PROVE FALSE
  OBVIOUS
<1>2. PICK T \in B : \A U \in B : U \subseteq T => U = T
  <2>1. B \in SUBSET SUBSET S
    OBVIOUS
  <2> HIDE DEF B
  <2> QED
    BY <1>1, <2>1, MinimalSubset
<1>3. T # {}
  <2>1. Total(w, {}) \in Int
    BY SumEmpty
  <2> QED
    BY <1>2, <2>1
<1>4. IsFiniteSet(T) /\ Pick(T) \in T
  BY <1>2, <1>3, FS_Subset, Picked
<1>5. Total(w, T \ {Pick(T)}) \in Int
  BY <1>2, <1>4
<1>6. Total(w, T) = w[Pick(T)] + Total(w, T \ {Pick(T)})
  BY <1>3, <1>4, SumPicked
<1>7. w[Pick(T)] \in Int
  BY <1>2, <1>4
<1> QED
  BY <1>2, <1>5, <1>6, <1>7

\* A sum of natural numbers is one.
LEMMA SumNat ==
    ASSUME NEW w, NEW S, IsFiniteSet(S), \A a \in S : w[a] \in Nat
    PROVE  Total(w, S) \in Nat
<1> DEFINE B == {T \in SUBSET S : Total(w, T) \notin Nat}
<1>1. SUFFICES ASSUME B # {} PROVE FALSE
  OBVIOUS
<1>2. PICK T \in B : \A U \in B : U \subseteq T => U = T
  <2>1. B \in SUBSET SUBSET S
    OBVIOUS
  <2> HIDE DEF B
  <2> QED
    BY <1>1, <2>1, MinimalSubset
<1>3. T # {}
  <2>1. Total(w, {}) \in Nat
    BY SumEmpty
  <2> QED
    BY <1>2, <2>1
<1>4. IsFiniteSet(T) /\ Pick(T) \in T
  BY <1>2, <1>3, FS_Subset, Picked
<1>5. Total(w, T \ {Pick(T)}) \in Nat
  BY <1>2, <1>4
<1>6. Total(w, T) = w[Pick(T)] + Total(w, T \ {Pick(T)})
  BY <1>3, <1>4, SumPicked
<1>7. w[Pick(T)] \in Nat
  BY <1>2, <1>4
<1> QED
  BY <1>2, <1>5, <1>6, <1>7

\* Any element can be taken first.
LEMMA SumTaken ==
    ASSUME NEW w, NEW S, IsFiniteSet(S), \A a \in S : w[a] \in Nat, NEW x \in S
    PROVE  Total(w, S) = w[x] + Total(w, S \ {x})
<1> DEFINE B == {T \in SUBSET S : \E y \in T : Total(w, T) # w[y] + Total(w, T \ {y})}
<1>1. SUFFICES ASSUME B # {} PROVE FALSE
  OBVIOUS
<1>2. PICK T \in B : \A U \in B : U \subseteq T => U = T
  <2>1. B \in SUBSET SUBSET S
    OBVIOUS
  <2> HIDE DEF B
  <2> QED
    BY <1>1, <2>1, MinimalSubset
<1>3. PICK y \in T : Total(w, T) # w[y] + Total(w, T \ {y})
  BY <1>2
<1> DEFINE p == Pick(T)
           rest == (T \ {p}) \ {y}
<1>4. IsFiniteSet(T) /\ p \in T
  BY <1>2, <1>3, FS_Subset, Picked
<1>5. Total(w, T) = w[p] + Total(w, T \ {p})
  BY <1>4, SumPicked
<1>6. y # p
  BY <1>3, <1>5
<1>7. Total(w, T \ {p}) = w[y] + Total(w, rest)
  BY <1>2, <1>3, <1>4, <1>6, y \in T \ {p}, T \ {p} \in SUBSET S, T \ {p} \notin B
<1>8. Total(w, T \ {y}) = w[p] + Total(w, rest)
  <2>1. (T \ {y}) \ {p} = rest
    OBVIOUS
  <2> QED
    BY <1>2, <1>3, <1>4, <1>6, <2>1, p \in T \ {y}, T \ {y} \in SUBSET S, T \ {y} \notin B
<1>9. w[p] \in Nat /\ w[y] \in Nat
  BY <1>2, <1>3, <1>4
<1>10. IsFiniteSet(rest) /\ \A a \in rest : w[a] \in Nat
  BY <1>2, <1>4, FS_Subset
<1>11. Total(w, rest) \in Nat
  BY <1>10, SumNat
<1> HIDE DEF p, rest
<1> QED
  BY <1>3, <1>5, <1>7, <1>8, <1>9, <1>11

\* Fewer elements, no larger sum.
LEMMA SumMonotone ==
    ASSUME NEW w, NEW S, IsFiniteSet(S), \A a \in S : w[a] \in Nat, NEW R \in SUBSET S
    PROVE  Total(w, R) <= Total(w, S)
<1> DEFINE B == {T \in SUBSET S : R \subseteq T /\ ~(Total(w, R) <= Total(w, T))}
<1>1. SUFFICES ASSUME B # {} PROVE FALSE
  OBVIOUS
<1>2. PICK T \in B : \A U \in B : U \subseteq T => U = T
  <2>1. B \in SUBSET SUBSET S
    OBVIOUS
  <2> HIDE DEF B
  <2> QED
    BY <1>1, <2>1, MinimalSubset
<1>3. /\ IsFiniteSet(T) /\ \A a \in T : w[a] \in Nat
      /\ IsFiniteSet(R) /\ \A a \in R : w[a] \in Nat
  BY <1>2, FS_Subset
<1>4. Total(w, T) \in Nat /\ Total(w, R) \in Nat
  BY <1>3, SumNat
<1>5. R # T
  BY <1>2, <1>4
<1>6. PICK x \in T : x \notin R
  BY <1>2, <1>5
<1>7. Total(w, T) = w[x] + Total(w, T \ {x})
  BY <1>3, SumTaken
<1>8. Total(w, R) <= Total(w, T \ {x})
  BY <1>2, <1>6
<1>9. IsFiniteSet(T \ {x}) /\ \A a \in T \ {x} : w[a] \in Nat
  BY <1>3, FS_Subset
<1>10. Total(w, T \ {x}) \in Nat
  BY <1>9, SumNat
<1> QED
  BY <1>2, <1>3, <1>4, <1>7, <1>8, <1>10

\* Equal weights, equal sums.
LEMMA SumSameWeights ==
    ASSUME NEW w, NEW v, NEW S, IsFiniteSet(S), \A a \in S : w[a] = v[a]
    PROVE  Total(w, S) = Total(v, S)
<1> DEFINE B == {T \in SUBSET S : Total(w, T) # Total(v, T)}
<1>1. SUFFICES ASSUME B # {} PROVE FALSE
  OBVIOUS
<1>2. PICK T \in B : \A U \in B : U \subseteq T => U = T
  <2>1. B \in SUBSET SUBSET S
    OBVIOUS
  <2> HIDE DEF B
  <2> QED
    BY <1>1, <2>1, MinimalSubset
<1>3. T # {}
  BY <1>2, SumEmpty
<1>4. IsFiniteSet(T) /\ Pick(T) \in T
  BY <1>2, <1>3, FS_Subset, Picked
<1>5. Total(w, T \ {Pick(T)}) = Total(v, T \ {Pick(T)})
  BY <1>2, <1>4
<1> QED
  BY <1>2, <1>3, <1>4, <1>5, SumPicked

-----------------------------------------------------------------------------
(* Greatest elements.                                                      *)

LEMMA FiniteImage ==
    ASSUME NEW S, IsFiniteSet(S), NEW w
    PROVE  IsFiniteSet({w[x] : x \in S})
<1> DEFINE T == {w[x] : x \in S}
           f == [x \in S |-> w[x]]
<1>1. f \in Surjection(S, T)
  BY DEF Surjection
<1> QED
  BY <1>1, FS_Surjection

LEMMA Heaviest ==
    ASSUME NEW S, IsFiniteSet(S), S # {}, NEW w, \A x \in S : w[x] \in Int
    PROVE  \E x \in S : \A y \in S : w[y] <= w[x]
<1> DEFINE above(x) == {y \in S : w[x] <= w[y]}
           B == {above(x) : x \in S}
<1>1. PICK T \in B : \A U \in B : U \subseteq T => U = T
  <2>1. B \in SUBSET SUBSET S /\ B # {}
    OBVIOUS
  <2> HIDE DEF B
  <2> QED
    BY <2>1, MinimalSubset
<1>2. PICK x \in S : T = above(x)
  BY <1>1
<1>3. ASSUME NEW y \in S, ~(w[y] <= w[x])
      PROVE  FALSE
  <2>1. above(y) \subseteq above(x) /\ x \notin above(y) /\ x \in above(x)
    BY <1>3
  <2> QED
    BY <1>1, <1>2, <2>1
<1> QED
  BY <1>3

LEMMA Greatest ==
    ASSUME NEW S \in SUBSET Int, IsFiniteSet(S), S # {}
    PROVE  Max(S) \in S /\ \A y \in S : y <= Max(S)
<1> DEFINE w == [x \in S |-> x]
<1>1. \A x \in S : w[x] \in Int
  OBVIOUS
<1> HIDE DEF w
<1>2. PICK x \in S : \A y \in S : w[y] <= w[x]
  BY <1>1, Heaviest
<1>3. \A y \in S : x >= y
  BY <1>2 DEF w
<1>4. Max(S) \in S /\ \A y \in S : Max(S) >= y
  BY <1>3 DEF Max
<1> QED
  BY <1>4

LEMMA Least ==
    ASSUME NEW S \in SUBSET Int, IsFiniteSet(S), S # {}
    PROVE  \E x \in S : \A y \in S : x <= y
<1> DEFINE w == [x \in S |-> -x]
<1>1. \A x \in S : w[x] \in Int
  OBVIOUS
<1> HIDE DEF w
<1>2. PICK x \in S : \A y \in S : w[y] <= w[x]
  BY <1>1, Heaviest
<1>3. \A y \in S : x <= y
  BY <1>2 DEF w
<1> QED
  BY <1>3
=============================================================================
