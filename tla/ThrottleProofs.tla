---------------------------- MODULE ThrottleProofs ----------------------------
(***************************************************************************)
(* Proofs about Throttle, for every limit, window and number of calls:     *)
(* type correctness, which includes that no counter passes its cap and no  *)
(* window begins in the future, and what the counters mean: they count the *)
(* admissions of their windows, bursts are bounded and lockouts are brief. *)
(***************************************************************************)
EXTENDS Throttle, SumFacts

\* A counter in order at a time.
CounterOK(counter, limit, time) ==
    counter # None =>
        counter \in Counter /\ counter.count <= limit /\ counter.windowStart <= time

\* No call has read a clock that is ahead.
ClocksRead == \A i \in Calls : calls[i] # None => calls[i].now <= clock

Inv == TypeOK /\ ClocksRead

\* What a bucket is left with is in order, whether it allows the attempt or not.
LEMMA Decided ==
    ASSUME NEW counter \in Counter \cup {None}, NEW now \in 0..MaxTime, NEW time \in 0..MaxTime,
           NEW limit \in Nat \ {0}, CounterOK(counter, limit, time), now <= time
    PROVE  CounterOK(DecideThrottle(counter, now, limit), limit, time)
<1>1. CASE Expired(counter, now)
  BY <1>1 DEF DecideThrottle, CounterOK, Counter
<1>2. CASE ~Expired(counter, now) /\ ~Full(counter, limit)
  <2>1. counter \in Counter /\ counter.count < limit /\ counter.windowStart <= time
    BY <1>2 DEF Expired, Full, CounterOK, Counter
  <2>2. DecideThrottle(counter, now, limit) = [counter EXCEPT !.count = @ + 1]
    BY <1>2 DEF DecideThrottle
  <2> QED
    BY <2>1, <2>2 DEF CounterOK, Counter
<1>3. CASE ~Expired(counter, now) /\ Full(counter, limit)
  BY <1>3 DEF DecideThrottle, CounterOK
<1> QED
  BY <1>1, <1>2, <1>3

LEMMA LimitsPositive == \A k \in Keys : Limit(k) \in Nat \ {0}
BY ThrottleAssumption

\* One more admission leaves a bag of admissions.
LEMMA Added ==
    ASSUME IsABag(admitted), BagToSet(admitted) \subseteq Admission, NEW a \in Admission,
           admitted' = admitted (+) SetToBag({a})
    PROVE  IsABag(admitted') /\ BagToSet(admitted') \subseteq Admission
<1>1. SetToBag({a}) = [e \in {a} |-> 1]
  BY DEF SetToBag
<1>2. admitted' = [e \in DOMAIN admitted \cup {a} |->
                     (IF e \in DOMAIN admitted THEN admitted[e] ELSE 0)
                     + (IF e \in {a} THEN 1 ELSE 0)]
  BY <1>1 DEF (+)
<1>3. \A e \in DOMAIN admitted : admitted[e] \in Nat /\ admitted[e] > 0
  BY DEF IsABag
<1>4. DOMAIN admitted' = DOMAIN admitted \cup {a}
  BY <1>2
<1>5. \A e \in DOMAIN admitted' : admitted'[e] \in {n \in Nat : n > 0}
  BY <1>2, <1>3
<1>6. admitted' = [e \in DOMAIN admitted' |-> admitted'[e]]
  BY <1>2
<1>7. IsABag(admitted')
  BY <1>5, <1>6 DEF IsABag
<1> QED
  BY <1>4, <1>7 DEF BagToSet

LEMMA InitInv == Init => Inv
<1> SUFFICES ASSUME Init PROVE Inv
  OBVIOUS
<1>1. IsABag(admitted) /\ BagToSet(admitted) = {}
  BY DEF Init, IsABag, BagToSet, EmptyBag, SetToBag
<1> QED
  BY <1>1, ThrottleAssumption DEF Init, Inv, TypeOK, ClocksRead

LEMMA ConsumeKeepsInv ==
    ASSUME Inv, NEW i \in Calls, Consume(i)
    PROVE  Inv'
<1> DEFINE call == calls[i]
           next == [k \in call.keys |-> DecideThrottle(buckets[k], call.now, Limit(k))]
<1>1. /\ call \in Attempt /\ call.now <= clock /\ call.keys \subseteq Keys
      /\ call.keys \in Subjects /\ call.now \in 0..MaxTime /\ clock \in 0..MaxTime
  BY DEF Inv, TypeOK, ClocksRead, Consume, Attempt, Keys
<1>2. calls' = [calls EXCEPT ![i] = None] /\ clock' = clock
  BY DEF Consume
<1>3. calls' \in [Calls -> Attempt \cup {None}] /\ ClocksRead'
  BY <1>2 DEF Inv, TypeOK, ClocksRead
<1>4. ASSUME NEW k \in call.keys PROVE CounterOK(next[k], Limit(k), clock)
  <2>1. /\ k \in Keys /\ next[k] = DecideThrottle(buckets[k], call.now, Limit(k))
        /\ buckets[k] \in Counter \cup {None} /\ CounterOK(buckets[k], Limit(k), clock)
    BY <1>1 DEF Inv, TypeOK, CounterOK
  <2> QED
    BY <1>1, <2>1, Decided, LimitsPositive
<1>5. CASE UNCHANGED <<buckets, admitted>> /\ denied' = call.keys
  BY <1>1, <1>2, <1>3, <1>5 DEF Inv, TypeOK
<1>6. CASE /\ \A k \in call.keys : next[k] # None
           /\ buckets' = [k \in Keys |-> IF k \in call.keys THEN next[k] ELSE buckets[k]]
           /\ admitted' = admitted (+) SetToBag({[keys |-> call.keys, now |-> call.now,
                                                  at |-> clock]})
           /\ denied' = None
  <2> HIDE DEF next
  <2>1. ASSUME NEW k \in Keys
        PROVE  /\ buckets'[k] \in Counter \cup {None}
               /\ buckets'[k] # None =>
                     buckets'[k].count <= Limit(k) /\ buckets'[k].windowStart <= clock
    <3>1. CASE k \in call.keys
      BY <1>4, <1>6, <3>1 DEF CounterOK
    <3>2. CASE k \notin call.keys
      BY <1>6, <3>2 DEF Inv, TypeOK
    <3> QED
      BY <3>1, <3>2
  <2>2. [keys |-> call.keys, now |-> call.now, at |-> clock] \in Admission
    BY <1>1 DEF Admission
  <2>3. IsABag(admitted') /\ BagToSet(admitted') \subseteq Admission
    BY <1>6, <2>2, Added DEF Inv, TypeOK
  <2>4. buckets' \in [Keys -> Counter \cup {None}]
    BY <1>6, <2>1
  <2> QED
    BY <1>1, <1>2, <1>3, <1>6, <2>1, <2>3, <2>4 DEF Inv, TypeOK
<1> QED
  BY <1>5, <1>6 DEF Consume

LEMMA StepInv == Inv /\ [Next]_vars => Inv'
<1> SUFFICES ASSUME Inv, [Next]_vars PROVE Inv'
  OBVIOUS
<1>1. CASE Tick
  <2>1. clock' = clock + 1 /\ clock' \in 0..MaxTime
    BY <1>1, ThrottleAssumption DEF Tick, Inv, TypeOK
  <2>2. UNCHANGED <<buckets, calls, admitted>> /\ denied' = None
    BY <1>1 DEF Tick
  <2>3. \A k \in Keys : buckets[k] # None => buckets[k].windowStart <= clock'
    BY <2>1 DEF Inv, TypeOK, Counter
  <2>4. ClocksRead'
    BY <2>1, <2>2 DEF Inv, TypeOK, ClocksRead, Attempt
  <2> QED
    BY <2>1, <2>2, <2>3, <2>4 DEF Inv, TypeOK
<1>2. ASSUME NEW i \in Calls, NEW keys \in Subjects, Arrive(i, keys) PROVE Inv'
  <2>1. [keys |-> keys, now |-> clock] \in Attempt
    BY DEF Attempt, Inv, TypeOK
  <2> QED
    BY <1>2, <2>1 DEF Arrive, Inv, TypeOK, ClocksRead
<1>3. ASSUME NEW i \in Calls, Consume(i) PROVE Inv'
  BY <1>3, ConsumeKeepsInv
<1>4. ASSUME NEW i \in Calls, Drop(i) PROVE Inv'
  BY <1>4 DEF Drop, Inv, TypeOK, ClocksRead
<1>5. ASSUME NEW k \in Keys, Reclaim(k) PROVE Inv'
  BY <1>5 DEF Reclaim, Inv, TypeOK, ClocksRead
<1>6. CASE UNCHANGED vars
  BY <1>6 DEF vars, Inv, TypeOK, ClocksRead
<1> QED
  BY <1>1, <1>2, <1>3, <1>4, <1>5, <1>6 DEF Next

\* For any number of concurrent calls, identities, addresses and codes, and
\* however late the clocks, every document keeps its type, no counter passes its
\* cap and no window begins in the future.
THEOREM TypeCorrect == Spec => []TypeOK
<1>1. Inv => TypeOK
  BY DEF Inv
<1> QED
  BY <1>1, InitInv, StepInv, PTL DEF Spec

-----------------------------------------------------------------------------
\* Counting admitted attempts.

\* The admitted attempts of a set, each as often as it was admitted.
WeightIn(b, X) == Total(b, X \cap BagToSet(b))
Weight(X) == WeightIn(admitted, X)

FiniteBag == IsABag(admitted) /\ IsFiniteSet(BagToSet(admitted))

LEMMA CountIsSum == ASSUME NEW X PROVE Count(X) = Total(admitted, X)
BY DEF Count, Total, MapThenSumSet, MapThenFoldSet

LEMMA WeightFinite ==
    ASSUME FiniteBag, NEW X
    PROVE  /\ IsFiniteSet(X \cap BagToSet(admitted))
           /\ \A a \in X \cap BagToSet(admitted) : admitted[a] \in Nat /\ admitted[a] > 0
<1>1. IsFiniteSet(X \cap BagToSet(admitted))
  BY FS_Subset, X \cap BagToSet(admitted) \in SUBSET BagToSet(admitted) DEF FiniteBag
<1> QED
  BY <1>1 DEF FiniteBag, IsABag, BagToSet

LEMMA WeightNat == ASSUME FiniteBag, NEW X PROVE Weight(X) \in Nat
BY WeightFinite, SumNat DEF Weight, WeightIn

LEMMA WeightMonotone ==
    ASSUME FiniteBag, NEW X, NEW Y, X \cap BagToSet(admitted) \subseteq Y
    PROVE  Weight(X) <= Weight(Y)
<1> DEFINE S == X \cap BagToSet(admitted)
           T == Y \cap BagToSet(admitted)
<1>1. S \in SUBSET T
  OBVIOUS
<1>2. IsFiniteSet(T) /\ \A a \in T : admitted[a] \in Nat
  BY WeightFinite
<1> HIDE DEF S, T
<1>3. Total(admitted, S) <= Total(admitted, T)
  BY <1>1, <1>2, SumMonotone
<1> QED
  BY <1>3 DEF Weight, WeightIn, S, T

LEMMA WeightOfNone ==
    ASSUME NEW X, X \cap BagToSet(admitted) = {}
    PROVE  Weight(X) = 0
BY SumEmpty DEF Weight, WeightIn

\* What adding an element to a bag does to its sums: one more in every set that
\* holds the element, nothing in the others.
WithOneMore(b, a) == b (+) SetToBag({a})

LEMMA BagAddition ==
    ASSUME NEW b, IsABag(b), NEW a
    PROVE  /\ DOMAIN WithOneMore(b, a) = DOMAIN b \cup {a}
           /\ IsABag(WithOneMore(b, a))
           /\ \A e \in DOMAIN b : e # a => WithOneMore(b, a)[e] = b[e]
           /\ a \in DOMAIN b => WithOneMore(b, a)[a] = b[a] + 1
           /\ a \notin DOMAIN b => WithOneMore(b, a)[a] = 1
<1> DEFINE c == WithOneMore(b, a)
<1>1. SetToBag({a}) = [e \in {a} |-> 1]
  BY DEF SetToBag
<1>2. c = [e \in DOMAIN b \cup {a} |->
             (IF e \in DOMAIN b THEN b[e] ELSE 0) + (IF e \in {a} THEN 1 ELSE 0)]
  BY <1>1 DEF WithOneMore, (+)
<1>3. \A e \in DOMAIN b : b[e] \in Nat /\ b[e] > 0
  BY DEF IsABag
<1> HIDE DEF c
<1>4. DOMAIN c = DOMAIN b \cup {a}
  BY <1>2
<1>5. /\ \A e \in DOMAIN b : e # a => c[e] = b[e]
      /\ a \in DOMAIN b => c[a] = b[a] + 1
      /\ a \notin DOMAIN b => c[a] = 1
  BY <1>2, <1>3
<1>6. \A e \in DOMAIN c : c[e] \in Nat /\ c[e] > 0
  BY <1>3, <1>4, <1>5
<1>7. IsABag(c)
  <2>1. c = [e \in DOMAIN c |-> c[e]]
    BY <1>2
  <2> QED
    BY <1>6, <2>1 DEF IsABag
<1> QED
  BY <1>4, <1>5, <1>7 DEF c

LEMMA BagElements == ASSUME NEW b, IsABag(b) PROVE \A e \in DOMAIN b : b[e] \in Nat
BY DEF IsABag

LEMMA BagAdditionSum ==
    ASSUME NEW b, IsABag(b), IsFiniteSet(DOMAIN b), NEW a, NEW X
    PROVE  LET after == Total(WithOneMore(b, a), X \cap DOMAIN WithOneMore(b, a))
               before == Total(b, X \cap DOMAIN b)
           IN  /\ a \in X => after = before + 1
               /\ a \notin X => after = before
<1> DEFINE c == WithOneMore(b, a)
           old == X \cap DOMAIN b
           new == X \cap DOMAIN c
           rest == old \ {a}
<1>1. /\ DOMAIN c = DOMAIN b \cup {a}
      /\ \A e \in DOMAIN b : e # a => c[e] = b[e]
      /\ a \in DOMAIN b => c[a] = b[a] + 1
      /\ a \notin DOMAIN b => c[a] = 1
      /\ \A e \in DOMAIN b : b[e] \in Nat
      /\ \A e \in DOMAIN c : c[e] \in Nat
  <2>1. IsABag(c)
    BY BagAddition
  <2> QED
    BY <2>1, BagAddition, BagElements
<1> HIDE DEF c
<1>2. IsFiniteSet(old) /\ IsFiniteSet(new) /\ IsFiniteSet(rest)
  <2>1. IsFiniteSet(DOMAIN c)
    BY <1>1, FS_AddElement
  <2>2. old \in SUBSET DOMAIN b /\ new \in SUBSET DOMAIN c /\ rest \in SUBSET DOMAIN b
    OBVIOUS
  <2> HIDE DEF old, new, rest
  <2> QED
    BY <2>1, <2>2, FS_Subset
<1>3. /\ \A e \in old : b[e] \in Nat
      /\ \A e \in new : c[e] \in Nat
      /\ \A e \in rest : c[e] = b[e] /\ b[e] \in Nat
  BY <1>1
<1>4. Total(c, rest) = Total(b, rest) /\ Total(b, rest) \in Nat
  <2> HIDE DEF rest
  <2> QED
    BY <1>2, <1>3, SumSameWeights, SumNat
<1>5. CASE a \notin X
  <2>1. new = rest /\ old = rest
    BY <1>1, <1>5
  <2> QED
    BY <1>4, <1>5, <2>1 DEF c
<1>6. CASE a \in X
  <2>1. a \in new /\ new \ {a} = rest
    BY <1>1, <1>6
  <2>2. Total(c, new) = c[a] + Total(c, rest)
    <3>1. Total(c, new) = c[a] + Total(c, new \ {a})
      <4> HIDE DEF old, new, rest
      <4> QED
        BY <1>2, <1>3, <2>1, SumTaken
    <3> QED
      BY <2>1, <3>1
  <2>3. CASE a \in DOMAIN b
    <3>1. a \in old /\ old \ {a} = rest /\ b[a] \in Nat /\ c[a] = b[a] + 1
      BY <1>1, <1>6, <2>3
    <3>2. Total(b, old) = b[a] + Total(b, rest)
      <4>1. Total(b, old) = b[a] + Total(b, old \ {a})
        <5> HIDE DEF old, new, rest
        <5> QED
          BY <1>2, <1>3, <3>1, SumTaken
      <4> QED
        BY <3>1, <4>1
    <3> HIDE DEF old, new, rest
    <3>3. Total(c, new) = Total(b, old) + 1
      BY <1>4, <2>2, <3>1, <3>2
    <3> QED
      BY <1>6, <3>3 DEF c, old, new
  <2>4. CASE a \notin DOMAIN b
    <3>1. old = rest /\ c[a] = 1
      BY <1>1, <2>4
    <3> HIDE DEF old, new, rest
    <3>2. Total(c, new) = Total(b, old) + 1
      BY <1>4, <2>2, <3>1
    <3> QED
      BY <1>6, <3>2 DEF c, old, new
  <2> QED
    BY <2>3, <2>4
<1> QED
  BY <1>5, <1>6

\* An admission adds one to every set it is in, and nothing to the others.
LEMMA WeightAfter ==
    ASSUME NEW b, IsABag(b), IsFiniteSet(BagToSet(b)), NEW a, NEW X
    PROVE  /\ a \in X => WeightIn(WithOneMore(b, a), X) = WeightIn(b, X) + 1
           /\ a \notin X => WeightIn(WithOneMore(b, a), X) = WeightIn(b, X)
BY BagAdditionSum DEF WeightIn, BagToSet

LEMMA BagAfter ==
    ASSUME NEW b, IsABag(b), IsFiniteSet(BagToSet(b)), NEW a
    PROVE  /\ IsABag(WithOneMore(b, a)) /\ IsFiniteSet(BagToSet(WithOneMore(b, a)))
           /\ BagToSet(WithOneMore(b, a)) = BagToSet(b) \cup {a}
<1>1. IsFiniteSet(DOMAIN b)
  BY DEF BagToSet
<1>2. /\ DOMAIN WithOneMore(b, a) = DOMAIN b \cup {a}
      /\ IsABag(WithOneMore(b, a))
  BY BagAddition
<1>3. IsFiniteSet(DOMAIN WithOneMore(b, a))
  BY <1>1, <1>2, FS_AddElement
<1> QED
  BY <1>2, <1>3 DEF BagToSet

-----------------------------------------------------------------------------
\* The pace of a bucket.

\* A bucket's admissions by when they were committed, and by the clock they read.
After(k, t) == {a \in Admission : k \in a.keys /\ a.at > t}
CommittedFrom(k, t) == {a \in Admission : k \in a.keys /\ a.at >= t}
ReadFrom(k, t) == {a \in Admission : k \in a.keys /\ a.now >= t}
Span(k, from) == {a \in Admission : k \in a.keys /\ a.at \in from..(from + Window - 1)}

\* A window that began at s and counts n attempts.  Its first attempt was committed
\* before s + MaxLag is over and is missing from what came later: after the window's
\* first attempt, after the first of the window before, and after the first of the
\* one before that.
Steady(k, s, n) ==
    /\ \A a \in AdmittedOn(k) : a.now < s + Window
    /\ Weight(ReadFrom(k, s)) <= n /\ n <= Weight(CommittedFrom(k, s))
    /\ Weight(After(k, s + MaxLag)) <= n - 1
    /\ Weight(After(k, s - Window + MaxLag)) <= n + Limit(k) - 1
    /\ Weight(After(k, s - 2 * Window + MaxLag)) <= n + 2 * Limit(k) - 1

\* What an attempt that opens a window finds, with the clock it read.
Opening(k, now) ==
    /\ \A a \in AdmittedOn(k) : a.now < now
    /\ Weight(After(k, now - Window + MaxLag)) <= Limit(k) - 1
    /\ Weight(After(k, now - 2 * Window + MaxLag)) <= 2 * Limit(k) - 1

\* A bucket without a document, never used or reclaimed.
Quiet(k) ==
    /\ \A a \in AdmittedOn(k) : a.now < clock - Window
    /\ Weight(After(k, clock - Window)) <= Limit(k) - 1
    /\ Weight(After(k, clock - 2 * Window)) <= 2 * Limit(k) - 1

Paced(k) == IF buckets[k] = None THEN Quiet(k)
            ELSE Steady(k, buckets[k].windowStart, buckets[k].count)

Burst == IF MaxLag = 0 THEN 2 ELSE 3

ClocksRecent == \A i \in Calls : calls[i] # None => clock - calls[i].now <= MaxLag

CommitsPast == \A a \in BagToSet(admitted) : a.at <= clock

\* The strengthening: every bucket has its pace, and clocks are late by MaxLag at most.
PaceInv ==
    /\ Inv /\ FiniteBag /\ ClocksRecent /\ CommitsPast
    /\ \A k \in Keys : Paced(k)

LEMMA BurstLimit ==
    ASSUME NEW k \in Keys
    PROVE  /\ Limit(k) \in Nat \ {0} /\ Burst * Limit(k) \in Nat
           /\ MaxLag = 0 => Burst * Limit(k) = 2 * Limit(k)
           /\ MaxLag # 0 => Burst * Limit(k) = 3 * Limit(k)
BY LimitsPositive DEF Burst

\* An attempt is admitted.
Admits(a) ==
    /\ a \in Admission
    /\ admitted' = WithOneMore(admitted, a)
    /\ a.at = clock /\ clock' = clock
    /\ a.now <= clock /\ clock - a.now <= MaxLag

\* One more in every set that holds the attempt, and nothing else.
LEMMA AdmissionCounts ==
    ASSUME FiniteBag, NEW a, Admits(a), NEW X
    PROVE  /\ a \in X => Weight(X)' = Weight(X) + 1
           /\ a \notin X => Weight(X)' = Weight(X)
BY WeightAfter DEF Admits, FiniteBag, Weight

LEMMA AdmissionAdds ==
    ASSUME FiniteBag, NEW a, Admits(a)
    PROVE  FiniteBag' /\ BagToSet(admitted)' = BagToSet(admitted) \cup {a}
BY BagAfter DEF Admits, FiniteBag

\* The first attempt of a window.
LEMMA WindowOpens ==
    ASSUME PaceInv, NEW k \in Keys, NEW a, Admits(a), k \in a.keys, Opening(k, a.now)
    PROVE  Steady(k, a.now, 1)'
<1>0. /\ Window \in Nat \ {0} /\ MaxLag \in Nat /\ MaxLag <= Window
      /\ Limit(k) \in Nat \ {0} /\ a.now \in Nat /\ clock \in Nat /\ a \in Admission
      /\ FiniteBag
  BY ThrottleAssumption, LimitsPositive DEF PaceInv, Inv, TypeOK, Admission, Admits
<1>1. BagToSet(admitted)' = BagToSet(admitted) \cup {a}
  BY <1>0, AdmissionAdds
<1>2. \A x \in AdmittedOn(k)' : x.now < a.now + Window
  BY <1>0, <1>1 DEF AdmittedOn, Opening, PaceInv, Inv, TypeOK, Admission
<1>3. Weight(ReadFrom(k, a.now))' <= 1
  <2>1. ReadFrom(k, a.now) \cap BagToSet(admitted) = {}
    BY <1>0 DEF ReadFrom, Opening, AdmittedOn, Admission
  <2>2. Weight(ReadFrom(k, a.now)) = 0
    BY <2>1, WeightOfNone
  <2> QED
    BY <1>0, AdmissionCounts, <2>2
<1>4. 1 <= Weight(CommittedFrom(k, a.now))'
  <2>1. a \in CommittedFrom(k, a.now)
    BY <1>0 DEF CommittedFrom, Admits
  <2>2. Weight(CommittedFrom(k, a.now)) \in Nat
    BY <1>0, WeightNat
  <2> QED
    BY <1>0, AdmissionCounts, <2>1, <2>2
<1>5. Weight(After(k, a.now + MaxLag))' <= 0
  <2>1. After(k, a.now + MaxLag) \cap BagToSet(admitted) = {} /\ a \notin After(k, a.now + MaxLag)
    BY <1>0 DEF After, PaceInv, CommitsPast, Admits, Admission
  <2>2. Weight(After(k, a.now + MaxLag)) = 0
    BY <2>1, WeightOfNone
  <2> QED
    BY <1>0, AdmissionCounts, <2>1, <2>2
<1>6. Weight(After(k, a.now - Window + MaxLag))' <= Limit(k)
  <2>1. Weight(After(k, a.now - Window + MaxLag)) \in Nat
    BY <1>0, WeightNat
  <2> QED
    BY <1>0, AdmissionCounts, <2>1 DEF Opening
<1>7. Weight(After(k, a.now - 2 * Window + MaxLag))' <= 2 * Limit(k)
  <2>1. Weight(After(k, a.now - 2 * Window + MaxLag)) \in Nat
    BY <1>0, WeightNat
  <2> QED
    BY <1>0, AdmissionCounts, <2>1 DEF Opening
<1> QED
  BY <1>0, <1>2, <1>3, <1>4, <1>5, <1>6, <1>7 DEF Steady, Limit

\* A further attempt of a window.
LEMMA WindowGoesOn ==
    ASSUME PaceInv, NEW k \in Keys, NEW a, Admits(a), k \in a.keys,
           NEW s \in Nat, NEW n \in Nat, Steady(k, s, n), s <= clock, a.now < s + Window
    PROVE  Steady(k, s, n + 1)'
<1>0. /\ Window \in Nat \ {0} /\ MaxLag \in Nat
      /\ Limit(k) \in Nat \ {0} /\ clock \in Nat /\ a \in Admission
      /\ FiniteBag
  BY ThrottleAssumption, LimitsPositive DEF PaceInv, Inv, TypeOK, Admission, Admits
<1>1. BagToSet(admitted)' = BagToSet(admitted) \cup {a}
  BY <1>0, AdmissionAdds
<1>2. \A x \in AdmittedOn(k)' : x.now < s + Window
  BY <1>0, <1>1 DEF AdmittedOn, Steady, PaceInv, Inv, TypeOK, Admission
<1>3. ASSUME NEW X PROVE Weight(X) \in Nat /\ Weight(X)' <= Weight(X) + 1
  BY <1>0, AdmissionCounts, WeightNat
<1>4. Weight(CommittedFrom(k, s))' = Weight(CommittedFrom(k, s)) + 1
  <2>1. a \in CommittedFrom(k, s)
    BY <1>0 DEF CommittedFrom, Admits
  <2> QED
    BY <1>0, AdmissionCounts, <2>1
<1>5. Weight(ReadFrom(k, s))' <= n + 1 /\ n + 1 <= Weight(CommittedFrom(k, s))'
  <2>1. /\ Weight(ReadFrom(k, s)) \in Nat /\ Weight(CommittedFrom(k, s)) \in Nat
        /\ Weight(ReadFrom(k, s))' <= Weight(ReadFrom(k, s)) + 1
    BY <1>3
  <2>2. Weight(ReadFrom(k, s))' \in Nat
    BY <1>0, AdmissionCounts, <2>1
  <2> QED
    BY <1>4, <2>1, <2>2 DEF Steady
<1>6. ASSUME NEW t \in Int, NEW m \in Int, Weight(After(k, t)) <= m
      PROVE  Weight(After(k, t))' <= m + 1
  <2>1. Weight(After(k, t)) \in Nat
    BY <1>3
  <2> QED
    BY <1>0, AdmissionCounts, <1>6, <2>1
<1>7. Weight(After(k, s + MaxLag))' <= n - 1 + 1
  BY <1>0, <1>6, s + MaxLag \in Int, n - 1 \in Int DEF Steady
<1>8. Weight(After(k, s - Window + MaxLag))' <= n + Limit(k) - 1 + 1
  BY <1>0, <1>6, s - Window + MaxLag \in Int, n + Limit(k) - 1 \in Int DEF Steady
<1>9. Weight(After(k, s - 2 * Window + MaxLag))' <= n + 2 * Limit(k) - 1 + 1
  BY <1>0, <1>6, s - 2 * Window + MaxLag \in Int, n + 2 * Limit(k) - 1 \in Int DEF Steady
<1> QED
  BY <1>0, <1>2, <1>5, <1>7, <1>8, <1>9 DEF Steady, Limit

\* An attempt leaves the pace of the buckets it does not name.
LEMMA OtherBucket ==
    ASSUME PaceInv, NEW k \in Keys, NEW a, Admits(a), k \notin a.keys
    PROVE  /\ \A s, n : Steady(k, s, n) => Steady(k, s, n)'
           /\ Quiet(k) => Quiet(k)'
<1>0. FiniteBag /\ clock' = clock
  BY DEF PaceInv, Admits
<1>1. AdmittedOn(k)' = AdmittedOn(k)
  BY <1>0, AdmissionAdds DEF AdmittedOn
<1>2. ASSUME NEW t
      PROVE  /\ Weight(After(k, t))' = Weight(After(k, t))
             /\ Weight(CommittedFrom(k, t))' = Weight(CommittedFrom(k, t))
             /\ Weight(ReadFrom(k, t))' = Weight(ReadFrom(k, t))
  <2>1. a \notin After(k, t) /\ a \notin CommittedFrom(k, t) /\ a \notin ReadFrom(k, t)
    BY DEF After, CommittedFrom, ReadFrom
  <2> QED
    BY <1>0, <2>1, AdmissionCounts
<1> QED
  BY <1>0, <1>1, <1>2 DEF Steady, Quiet

\* Fewer attempts were committed after a later time.
LEMMA AfterLater ==
    ASSUME FiniteBag, NEW k, NEW t \in Int, NEW u \in Int, t <= u
    PROVE  /\ Weight(After(k, u)) <= Weight(After(k, t))
           /\ Weight(After(k, u)) \in Nat /\ Weight(After(k, t)) \in Nat
<1>1. After(k, u) \subseteq After(k, t)
  BY DEF After, Admission
<1> QED
  BY <1>1, WeightMonotone, WeightNat

\* What an attempt finds on a bucket without a document.
LEMMA QuietOpens ==
    ASSUME PaceInv, NEW k \in Keys, Quiet(k), NEW now \in Nat,
           now <= clock, clock - now <= MaxLag
    PROVE  Opening(k, now)
<1>0. /\ Window \in Nat \ {0} /\ MaxLag \in Nat /\ MaxLag <= Window
      /\ Limit(k) \in Nat \ {0} /\ clock \in Nat /\ FiniteBag
      /\ BagToSet(admitted) \subseteq Admission
  BY ThrottleAssumption, LimitsPositive DEF PaceInv, Inv, TypeOK
<1>1. \A a \in AdmittedOn(k) : a.now < now
  <2>1. \A a \in AdmittedOn(k) : a.now \in Nat /\ a.now < clock - Window
    BY <1>0 DEF Quiet, AdmittedOn, Admission
  <2> QED
    BY <1>0, <2>1
<1>3. Weight(After(k, now - Window + MaxLag)) <= Limit(k) - 1
  <2>1. clock - Window \in Int /\ now - Window + MaxLag \in Int
        /\ clock - Window <= now - Window + MaxLag
    BY <1>0
  <2>2. Weight(After(k, now - Window + MaxLag)) <= Weight(After(k, clock - Window))
        /\ Weight(After(k, now - Window + MaxLag)) \in Nat
        /\ Weight(After(k, clock - Window)) \in Nat
    BY <1>0, <2>1, AfterLater
  <2> QED
    BY <1>0, <2>2 DEF Quiet
<1>4. Weight(After(k, now - 2 * Window + MaxLag)) <= 2 * Limit(k) - 1
  <2>1. clock - 2 * Window \in Int /\ now - 2 * Window + MaxLag \in Int
        /\ clock - 2 * Window <= now - 2 * Window + MaxLag
    BY <1>0
  <2>2. Weight(After(k, now - 2 * Window + MaxLag)) <= Weight(After(k, clock - 2 * Window))
        /\ Weight(After(k, now - 2 * Window + MaxLag)) \in Nat
        /\ Weight(After(k, clock - 2 * Window)) \in Nat
    BY <1>0, <2>1, AfterLater
  <2> QED
    BY <1>0, <2>2 DEF Quiet
<1> QED
  BY <1>1, <1>3, <1>4 DEF Opening

\* What an attempt finds on a bucket whose window has ended.
LEMMA SteadyOpens ==
    ASSUME PaceInv, NEW k \in Keys, NEW now \in Nat, NEW s \in Nat, NEW n \in Nat,
           Steady(k, s, n), n <= Limit(k), s + Window <= now
    PROVE  Opening(k, now)
<1>0. /\ Window \in Nat \ {0} /\ MaxLag \in Nat
      /\ Limit(k) \in Nat \ {0} /\ FiniteBag
      /\ BagToSet(admitted) \subseteq Admission
  BY ThrottleAssumption, LimitsPositive DEF PaceInv, Inv, TypeOK
<1>1. \A a \in AdmittedOn(k) : a.now < now
  <2>1. \A a \in AdmittedOn(k) : a.now \in Nat /\ a.now < s + Window
    BY <1>0 DEF Steady, AdmittedOn, Admission
  <2> QED
    BY <1>0, <2>1
<1>2. Weight(After(k, now - Window + MaxLag)) <= Limit(k) - 1
  <2>1. s + MaxLag \in Int /\ now - Window + MaxLag \in Int
        /\ s + MaxLag <= now - Window + MaxLag
    BY <1>0
  <2>2. Weight(After(k, now - Window + MaxLag)) <= Weight(After(k, s + MaxLag))
        /\ Weight(After(k, now - Window + MaxLag)) \in Nat
        /\ Weight(After(k, s + MaxLag)) \in Nat
    BY <1>0, <2>1, AfterLater
  <2> QED
    BY <1>0, <2>2 DEF Steady
<1>3. Weight(After(k, now - 2 * Window + MaxLag)) <= 2 * Limit(k) - 1
  <2>1. s - Window + MaxLag \in Int /\ now - 2 * Window + MaxLag \in Int
        /\ s - Window + MaxLag <= now - 2 * Window + MaxLag
    BY <1>0
  <2>2. Weight(After(k, now - 2 * Window + MaxLag)) <= Weight(After(k, s - Window + MaxLag))
        /\ Weight(After(k, now - 2 * Window + MaxLag)) \in Nat
        /\ Weight(After(k, s - Window + MaxLag)) \in Nat
    BY <1>0, <2>1, AfterLater
  <2> QED
    BY <1>0, <2>2 DEF Steady
<1> QED
  BY <1>1, <1>2, <1>3 DEF Opening

\* A document is only removed when its bucket is quiet.
LEMMA ReclaimedQuiet ==
    ASSUME PaceInv, NEW k \in Keys, NEW s \in Nat, NEW n \in Nat,
           Steady(k, s, n), n <= Limit(k), s + 2 * Window <= clock
    PROVE  Quiet(k)
<1>0. /\ Window \in Nat \ {0} /\ MaxLag \in Nat /\ MaxLag <= Window
      /\ Limit(k) \in Nat \ {0} /\ clock \in Nat /\ FiniteBag
      /\ BagToSet(admitted) \subseteq Admission
  BY ThrottleAssumption, LimitsPositive DEF PaceInv, Inv, TypeOK
<1>1. \A a \in AdmittedOn(k) : a.now < clock - Window
  <2>1. \A a \in AdmittedOn(k) : a.now \in Nat /\ a.now < s + Window
    BY <1>0 DEF Steady, AdmittedOn, Admission
  <2> QED
    BY <1>0, <2>1
<1>2. Weight(After(k, clock - Window)) <= Limit(k) - 1
  <2>1. s + MaxLag \in Int /\ clock - Window \in Int /\ s + MaxLag <= clock - Window
    BY <1>0
  <2>2. Weight(After(k, clock - Window)) <= Weight(After(k, s + MaxLag))
        /\ Weight(After(k, clock - Window)) \in Nat /\ Weight(After(k, s + MaxLag)) \in Nat
    BY <1>0, <2>1, AfterLater
  <2> QED
    BY <1>0, <2>2 DEF Steady
<1>3. Weight(After(k, clock - 2 * Window)) <= 2 * Limit(k) - 1
  <2>1. s - Window + MaxLag \in Int /\ clock - 2 * Window \in Int
        /\ s - Window + MaxLag <= clock - 2 * Window
    BY <1>0
  <2>2. Weight(After(k, clock - 2 * Window)) <= Weight(After(k, s - Window + MaxLag))
        /\ Weight(After(k, clock - 2 * Window)) \in Nat
        /\ Weight(After(k, s - Window + MaxLag)) \in Nat
    BY <1>0, <2>1, AfterLater
  <2> QED
    BY <1>0, <2>2 DEF Steady
<1> QED
  BY <1>1, <1>2, <1>3 DEF Quiet

\* A span of time that is not over holds fewer attempts than the burst allows.
LEMMA SpanNow ==
    ASSUME PaceInv, NEW k \in Keys, NEW from \in Nat, from + Window > clock
    PROVE  Weight(Span(k, from)) < Burst * Limit(k)
<1>0. /\ Window \in Nat \ {0} /\ MaxLag \in Nat /\ MaxLag <= Window
      /\ Limit(k) \in Nat \ {0} /\ clock \in Nat /\ FiniteBag
  BY ThrottleAssumption, LimitsPositive DEF PaceInv, Inv, TypeOK
<1>1. Weight(Span(k, from)) <= Weight(After(k, clock - Window))
      /\ Weight(Span(k, from)) \in Nat /\ Weight(After(k, clock - Window)) \in Nat
  <2>1. Span(k, from) \subseteq After(k, clock - Window)
    BY <1>0 DEF Span, After, Admission
  <2> QED
    BY <1>0, <2>1, WeightMonotone, WeightNat
<1>2. CASE buckets[k] = None
  <2>1. Weight(After(k, clock - Window)) <= Limit(k) - 1
    BY <1>2 DEF PaceInv, Paced, Quiet
  <2>2. Limit(k) <= Burst * Limit(k)
    <3>1. CASE MaxLag = 0
      BY <1>0, <3>1 DEF Burst
    <3>2. CASE MaxLag # 0
      BY <1>0, <3>2 DEF Burst
    <3> QED
      BY <3>1, <3>2
  <2> QED
    BY <1>0, <1>1, <2>1, <2>2, BurstLimit
<1>3. CASE buckets[k] # None
  <2> DEFINE s == buckets[k].windowStart
             n == buckets[k].count
  <2>1. s \in Nat /\ n \in Nat /\ s <= clock /\ n <= Limit(k) /\ Steady(k, s, n)
    BY <1>3 DEF PaceInv, Inv, TypeOK, Counter, Paced
  <2> HIDE DEF s, n
  <2>2. CASE MaxLag = 0
    <3>1. Weight(After(k, clock - Window)) <= Weight(After(k, s - Window + MaxLag))
          /\ Weight(After(k, s - Window + MaxLag)) \in Nat
      BY <1>0, <2>1, <2>2, AfterLater, clock - Window \in Int, s - Window + MaxLag \in Int,
         s - Window + MaxLag <= clock - Window
    <3>2. Weight(After(k, s - Window + MaxLag)) < 2 * Limit(k)
      BY <1>0, <2>1, <3>1 DEF Steady
    <3> QED
      BY <1>0, <1>1, <2>2, <3>1, <3>2, BurstLimit
  <2>3. CASE MaxLag # 0
    <3>1. Weight(After(k, clock - Window)) <= Weight(After(k, s - 2 * Window + MaxLag))
          /\ Weight(After(k, s - 2 * Window + MaxLag)) \in Nat
      BY <1>0, <2>1, AfterLater, clock - Window \in Int, s - 2 * Window + MaxLag \in Int,
         s - 2 * Window + MaxLag <= clock - Window
    <3>2. Weight(After(k, s - 2 * Window + MaxLag)) < 3 * Limit(k)
      BY <1>0, <2>1, <3>1 DEF Steady
    <3> QED
      BY <1>0, <1>1, <2>3, <3>1, <3>2, BurstLimit
  <2> QED
    BY <2>2, <2>3
<1> QED
  BY <1>2, <1>3

\* A bucket stays quiet while nothing is admitted.
LEMMA QuietLonger ==
    ASSUME PaceInv, NEW k \in Keys, Quiet(k), UNCHANGED admitted,
           clock' = clock \/ clock' = clock + 1
    PROVE  Quiet(k)'
<1>0. /\ Window \in Nat \ {0} /\ clock \in Nat /\ FiniteBag
      /\ Limit(k) \in Nat \ {0}
      /\ BagToSet(admitted) \subseteq Admission
  BY ThrottleAssumption, LimitsPositive DEF PaceInv, Inv, TypeOK
<1>1. \A a \in AdmittedOn(k)' : a.now < clock' - Window
  <2>1. \A a \in AdmittedOn(k) : a.now \in Nat /\ a.now < clock - Window
    BY <1>0 DEF Quiet, AdmittedOn, Admission
  <2>2. AdmittedOn(k)' = AdmittedOn(k)
    BY DEF AdmittedOn
  <2> QED
    BY <1>0, <2>1, <2>2
<1>2. PICK d \in {0, 1} : clock' = clock + d
  BY <1>0
<1>3. ASSUME NEW t \in Int, NEW u \in Int, t <= u, NEW m \in Int, Weight(After(k, t)) <= m
      PROVE  WeightIn(admitted', After(k, u)) <= m
  <2>1. /\ Weight(After(k, u)) <= Weight(After(k, t))
        /\ Weight(After(k, u)) \in Nat /\ Weight(After(k, t)) \in Nat
    BY <1>0, <1>3, AfterLater
  <2> QED
    BY <1>3, <2>1 DEF Weight
<1>4. WeightIn(admitted', After(k, clock + d - Window)) <= Limit(k) - 1
  <2>1. clock - Window \in Int /\ clock + d - Window \in Int /\ Limit(k) - 1 \in Int
        /\ clock - Window <= clock + d - Window
    BY <1>0, <1>2
  <2> QED
    BY <1>3, <2>1 DEF Quiet
<1>5. WeightIn(admitted', After(k, clock + d - 2 * Window)) <= 2 * Limit(k) - 1
  <2>1. clock - 2 * Window \in Int /\ clock + d - 2 * Window \in Int /\ 2 * Limit(k) - 1 \in Int
        /\ clock - 2 * Window <= clock + d - 2 * Window
    BY <1>0, <1>2
  <2> QED
    BY <1>3, <2>1 DEF Quiet
<1>6. /\ Weight(After(k, clock - Window))' <= Limit(k) - 1
      /\ Weight(After(k, clock - 2 * Window))' <= 2 * Limit(k) - 1
  <2>1. Weight(After(k, clock - Window))' = WeightIn(admitted', After(k, clock + d - Window))
    BY <1>0, <1>2 DEF Weight
  <2>2. Weight(After(k, clock - 2 * Window))' = WeightIn(admitted', After(k, clock + d - 2 * Window))
    BY <1>0, <1>2 DEF Weight
  <2> QED
    BY <1>4, <1>5, <2>1, <2>2
<1> QED
  BY <1>1, <1>6 DEF Quiet, Limit

\* A window keeps its pace while nothing is admitted.
LEMMA SteadyStays ==
    ASSUME NEW k \in Keys, NEW s, NEW n, Steady(k, s, n), UNCHANGED admitted
    PROVE  Steady(k, s, n)'
BY DEF Steady, Weight, AdmittedOn

\* What a bucket that allows an attempt is left with, and its pace then.
LEMMA AllowedPaced ==
    ASSUME PaceInv, NEW k \in Keys, NEW a, Admits(a), k \in a.keys,
           DecideThrottle(buckets[k], a.now, Limit(k)) # None,
           buckets'[k] = DecideThrottle(buckets[k], a.now, Limit(k))
    PROVE  Paced(k)'
<1>0. /\ a \in Admission /\ a.now \in Nat /\ clock \in Nat /\ Window \in Nat
      /\ a.now <= clock /\ clock - a.now <= MaxLag
      /\ Limit(k) \in Nat \ {0}
  BY ThrottleAssumption, LimitsPositive DEF PaceInv, Inv, TypeOK, Admits, Admission
<1>1. CASE buckets[k] = None
  <2>1. Steady(k, a.now, 1)'
    <3>1. Quiet(k)
      BY <1>1 DEF PaceInv, Paced
    <3> QED
      BY <1>0, <3>1, QuietOpens, WindowOpens
  <2>2. buckets'[k] = [windowStart |-> a.now, count |-> 1]
    BY <1>1 DEF DecideThrottle, Expired
  <2> QED
    BY <2>1, <2>2 DEF Paced
<1>2. CASE buckets[k] # None
  <2>1. PICK s \in Nat, n \in Nat :
           /\ s = buckets[k].windowStart /\ n = buckets[k].count
           /\ s <= clock /\ n <= Limit(k) /\ Steady(k, s, n) /\ buckets[k] \in Counter
    BY <1>2 DEF PaceInv, Inv, TypeOK, Counter, Paced
  <2>2. CASE a.now - s >= Window
    <3>1. s + Window <= a.now
      BY <1>0, <2>1, <2>2
    <3>2. buckets'[k] = [windowStart |-> a.now, count |-> 1]
      BY <2>1, <2>2 DEF DecideThrottle, Expired
    <3>3. Steady(k, a.now, 1)'
      BY <1>0, <2>1, <3>1, SteadyOpens, WindowOpens
    <3> QED
      BY <3>2, <3>3 DEF Paced
  <2>3. CASE ~(a.now - s >= Window)
    <3>1. a.now < s + Window
      BY <1>0, <2>1, <2>3
    <3>2. buckets'[k] = [buckets[k] EXCEPT !.count = @ + 1]
      BY <1>2, <2>1, <2>3 DEF DecideThrottle, Expired
    <3>3. buckets'[k].windowStart = s /\ buckets'[k].count = n + 1
      BY <2>1, <3>2 DEF Counter
    <3>4. Steady(k, s, n + 1)'
      BY <1>0, <2>1, <3>1, WindowGoesOn
    <3> QED
      BY <3>3, <3>4 DEF Paced
  <2> QED
    BY <2>2, <2>3
<1> QED
  BY <1>1, <1>2

-----------------------------------------------------------------------------
\* The pace is kept by every step.

LEMMA InitPace == Init => PaceInv
<1> SUFFICES ASSUME Init PROVE PaceInv
  OBVIOUS
<1>1. Inv
  BY InitInv
<1>2. IsABag(admitted) /\ BagToSet(admitted) = {}
  BY DEF Init, IsABag, BagToSet, EmptyBag, SetToBag
<1>3. FiniteBag
  BY <1>2, FS_EmptySet DEF FiniteBag
<1>4. ASSUME NEW k \in Keys PROVE Paced(k)
  <2>1. \A X : X \cap BagToSet(admitted) = {}
    BY <1>2
  <2>2. \A X : Weight(X) = 0
    BY <2>1, WeightOfNone
  <2>3. AdmittedOn(k) = {}
    BY <1>2 DEF AdmittedOn
  <2> QED
    BY <2>2, <2>3, LimitsPositive DEF Init, Paced, Quiet
<1> QED
  BY <1>1, <1>2, <1>3, <1>4 DEF Init, PaceInv, ClocksRecent, CommitsPast

\* The attempt a transaction admits, as the bag of admissions holds it.
Admitted(i) == [keys |-> calls[i].keys, now |-> calls[i].now, at |-> clock]

LEMMA ConsumeCases ==
    ASSUME PaceInv, NEW i \in Calls, Consume(i)
    PROVE  /\ calls' = [calls EXCEPT ![i] = None] /\ clock' = clock
           /\ calls[i] \in Attempt /\ calls[i].keys \subseteq Keys
           /\ \/ /\ UNCHANGED <<buckets, admitted>>
                 /\ denied' = calls[i].keys
                 /\ \E k \in calls[i].keys :
                       DecideThrottle(buckets[k], calls[i].now, Limit(k)) = None
              \/ /\ Admits(Admitted(i)) /\ denied' = None
                 /\ \A k \in Keys :
                       IF k \in calls[i].keys
                       THEN /\ DecideThrottle(buckets[k], calls[i].now, Limit(k)) # None
                            /\ buckets'[k] = DecideThrottle(buckets[k], calls[i].now, Limit(k))
                       ELSE buckets'[k] = buckets[k]
<1> DEFINE call == calls[i]
           next == [k \in call.keys |-> DecideThrottle(buckets[k], call.now, Limit(k))]
<1>1. /\ call \in Attempt /\ call.keys \subseteq Keys /\ call.keys \in Subjects
      /\ call.now \in 0..MaxTime /\ clock \in 0..MaxTime
      /\ call.now <= clock /\ clock - call.now <= MaxLag
      /\ calls' = [calls EXCEPT ![i] = None] /\ clock' = clock
  BY DEF PaceInv, Inv, TypeOK, ClocksRead, ClocksRecent, Consume, Attempt, Keys
<1>2. CASE UNCHANGED <<buckets, admitted>> /\ denied' = call.keys
           /\ \E k \in call.keys : next[k] = None
  BY <1>1, <1>2
<1>3. CASE /\ \A k \in call.keys : next[k] # None
           /\ buckets' = [k \in Keys |-> IF k \in call.keys THEN next[k] ELSE buckets[k]]
           /\ admitted' = admitted (+) SetToBag({[keys |-> call.keys, now |-> call.now,
                                                  at |-> clock]})
           /\ denied' = None
  <2>1. Admits(Admitted(i))
    <3>1. Admitted(i) \in Admission /\ Admitted(i).at = clock /\ Admitted(i).now = call.now
      BY <1>1 DEF Admitted, Admission
    <3>2. admitted' = WithOneMore(admitted, Admitted(i))
      BY <1>3 DEF WithOneMore, Admitted
    <3> QED
      BY <1>1, <3>1, <3>2 DEF Admits
  <2> QED
    BY <1>1, <1>3, <2>1
<1> QED
  BY <1>2, <1>3 DEF Consume

LEMMA ConsumeKeepsPace ==
    ASSUME PaceInv, NEW i \in Calls, Consume(i)
    PROVE  PaceInv'
<1> DEFINE a == Admitted(i)
<1>1. Inv'
  BY ConsumeKeepsInv DEF PaceInv
<1>2. calls' = [calls EXCEPT ![i] = None] /\ clock' = clock
  BY ConsumeCases
<1>3. ClocksRecent'
  BY <1>2 DEF PaceInv, Inv, TypeOK, ClocksRecent
<1>4. CASE UNCHANGED <<buckets, admitted>>
  <2>1. ASSUME NEW k \in Keys PROVE Paced(k)'
    BY <1>2, <1>4, <2>1, QuietLonger, SteadyStays DEF PaceInv, Paced
  <2>2. FiniteBag' /\ CommitsPast'
    BY <1>2, <1>4 DEF PaceInv, FiniteBag, CommitsPast
  <2> QED
    BY <1>1, <1>3, <2>1, <2>2 DEF PaceInv
<1>5. CASE /\ Admits(a)
           /\ \A k \in Keys :
                 IF k \in calls[i].keys
                 THEN /\ DecideThrottle(buckets[k], calls[i].now, Limit(k)) # None
                      /\ buckets'[k] = DecideThrottle(buckets[k], calls[i].now, Limit(k))
                 ELSE buckets'[k] = buckets[k]
  <2>0. a.keys = calls[i].keys /\ a.now = calls[i].now /\ a.at = clock
    BY DEF Admitted
  <2> HIDE DEF a
  <2>1. ASSUME NEW k \in Keys PROVE Paced(k)'
    <3>1. CASE k \in a.keys
      BY <1>5, <2>0, <3>1, AllowedPaced
    <3>2. CASE k \notin a.keys
      <4>1. buckets'[k] = buckets[k] /\ Paced(k)
        BY <1>5, <2>0, <3>2 DEF PaceInv
      <4>2. /\ \A s, n : Steady(k, s, n) => Steady(k, s, n)'
            /\ Quiet(k) => Quiet(k)'
        BY <1>5, <3>2, OtherBucket
      <4> QED
        BY <4>1, <4>2 DEF Paced
    <3> QED
      BY <3>1, <3>2
  <2>2. FiniteBag' /\ BagToSet(admitted)' = BagToSet(admitted) \cup {a}
    BY <1>5, AdmissionAdds DEF PaceInv
  <2>3. CommitsPast'
    BY <1>1, <1>2, <2>0, <2>2 DEF PaceInv, CommitsPast, Inv, TypeOK
  <2> QED
    BY <1>1, <1>3, <2>1, <2>2, <2>3 DEF PaceInv
<1> QED
  BY <1>4, <1>5, ConsumeCases

LEMMA StepPace == PaceInv /\ [Next]_vars => PaceInv'
<1> SUFFICES ASSUME PaceInv, [Next]_vars PROVE PaceInv'
  OBVIOUS
<1>1. Inv'
  BY StepInv DEF PaceInv
<1>2. ASSUME UNCHANGED <<buckets, admitted>>, clock' = clock \/ clock' = clock + 1, ClocksRecent'
      PROVE  PaceInv'
  <2>1. ASSUME NEW k \in Keys PROVE Paced(k)'
    <3>1. Paced(k)
      BY DEF PaceInv
    <3> QED
      BY <1>2, <3>1, QuietLonger, SteadyStays DEF Paced
  <2>2. FiniteBag' /\ CommitsPast'
    BY <1>1, <1>2 DEF PaceInv, FiniteBag, CommitsPast, Inv, TypeOK, Admission
  <2> QED
    BY <1>1, <1>2, <2>1, <2>2 DEF PaceInv
<1>3. CASE Tick
  <2>1. ClocksRecent'
    BY <1>3, ThrottleAssumption DEF Tick, PaceInv, ClocksRecent, Inv, TypeOK, Attempt
  <2> QED
    BY <1>2, <1>3, <2>1 DEF Tick
<1>4. ASSUME NEW i \in Calls, NEW keys \in Subjects, Arrive(i, keys) PROVE PaceInv'
  <2>1. ClocksRecent'
    BY <1>4, ThrottleAssumption DEF Arrive, PaceInv, ClocksRecent, Inv, TypeOK
  <2> QED
    BY <1>2, <1>4, <2>1 DEF Arrive
<1>5. ASSUME NEW i \in Calls, Consume(i) PROVE PaceInv'
  BY <1>5, ConsumeKeepsPace
<1>6. ASSUME NEW i \in Calls, Drop(i) PROVE PaceInv'
  <2>1. ClocksRecent'
    BY <1>6 DEF Drop, PaceInv, ClocksRecent, Inv, TypeOK
  <2> QED
    BY <1>2, <1>6, <2>1 DEF Drop
<1>7. ASSUME NEW k \in Keys, Reclaim(k) PROVE PaceInv'
  <2>1. UNCHANGED <<clock, calls, admitted>> /\ buckets' = [buckets EXCEPT ![k] = None]
    BY <1>7 DEF Reclaim
  <2>2. Quiet(k)
    <3>1. /\ buckets[k].windowStart \in Nat /\ buckets[k].count \in Nat
          /\ Steady(k, buckets[k].windowStart, buckets[k].count)
          /\ buckets[k].count <= Limit(k)
          /\ buckets[k].windowStart + 2 * Window <= clock
      BY <1>7, ThrottleAssumption DEF Reclaim, PaceInv, Paced, Inv, TypeOK, Counter
    <3> QED
      BY <3>1, ReclaimedQuiet
  <2>3. ASSUME NEW j \in Keys PROVE Paced(j)'
    <3>1. Paced(j) /\ buckets'[j] = IF j = k THEN None ELSE buckets[j]
      BY <2>1 DEF PaceInv, Inv, TypeOK
    <3> QED
      BY <2>1, <2>2, <3>1, QuietLonger, SteadyStays DEF Paced
  <2> QED
    BY <1>1, <2>1, <2>3 DEF PaceInv, FiniteBag, CommitsPast, ClocksRecent
<1>8. CASE UNCHANGED vars
  <2>1. ClocksRecent'
    BY <1>8 DEF vars, PaceInv, ClocksRecent
  <2> QED
    BY <1>2, <1>8, <2>1 DEF vars
<1> QED
  BY <1>3, <1>4, <1>5, <1>6, <1>7, <1>8 DEF Next

\* What a property counts is what the proofs add up.
LEMMA CountIsWeight ==
    ASSUME PaceInv, NEW k, NEW P, NEW Q,
           P \subseteq AdmittedOn(k), \A a \in BagToSet(admitted) : a \in P <=> a \in Q
    PROVE  Count(P) = Weight(Q)
<1>1. P = Q \cap BagToSet(admitted)
  BY DEF AdmittedOn
<1>2. Count(P) = Total(admitted, P)
  BY CountIsSum
<1> QED
  BY <1>1, <1>2 DEF Weight, WeightIn

\* For any number of concurrent calls and however late the clocks, a counter is at
\* least the number of attempts admitted in its window and at most the number
\* committed since it began: none is lost, and denied ones count nowhere.
THEOREM CountersTrue == Spec => []CountsAdmissions
<1>1. PaceInv => CountsAdmissions
  <2> SUFFICES ASSUME PaceInv, NEW k \in Keys, buckets[k] # None
               PROVE  LET start == buckets[k].windowStart
                      IN  /\ buckets[k].count >= Count({a \in AdmittedOn(k) : a.now >= start})
                          /\ buckets[k].count <= Count({a \in AdmittedOn(k) : a.at >= start})
    BY DEF CountsAdmissions
  <2> DEFINE s == buckets[k].windowStart
             n == buckets[k].count
             read == {a \in AdmittedOn(k) : a.now >= s}
             committed == {a \in AdmittedOn(k) : a.at >= s}
  <2>1. s \in Nat /\ n \in Nat /\ Steady(k, s, n) /\ BagToSet(admitted) \subseteq Admission
    BY DEF PaceInv, Inv, TypeOK, Counter, Paced
  <2>2. Count(read) = Weight(ReadFrom(k, s))
    <3>1. read \subseteq AdmittedOn(k)
          /\ \A a \in BagToSet(admitted) : a \in read <=> a \in ReadFrom(k, s)
      BY <2>1 DEF AdmittedOn, ReadFrom
    <3> HIDE DEF read, s
    <3> QED
      BY <3>1, CountIsWeight
  <2>3. Count(committed) = Weight(CommittedFrom(k, s))
    <3>1. committed \subseteq AdmittedOn(k)
          /\ \A a \in BagToSet(admitted) : a \in committed <=> a \in CommittedFrom(k, s)
      BY <2>1 DEF AdmittedOn, CommittedFrom
    <3> HIDE DEF committed, s
    <3> QED
      BY <3>1, CountIsWeight
  <2>4. Weight(ReadFrom(k, s)) <= n /\ n <= Weight(CommittedFrom(k, s))
        /\ Weight(ReadFrom(k, s)) \in Nat /\ Weight(CommittedFrom(k, s)) \in Nat
    BY <2>1, WeightNat DEF Steady, PaceInv
  <2> QED
    BY <2>1, <2>2, <2>3, <2>4
<1> QED
  BY <1>1, InitPace, StepPace, PTL DEF Spec

\* The spans of time that are not over, at the present time.
SpansNow ==
    \A k \in Keys, from \in 0..MaxTime :
        from + Window > clock => Weight(Span(k, from)) < Burst * Limit(k)

\* No span of time as long as a window admits two full caps on a bucket, or three
\* when clocks may be late: for any cap, window and lag, and any number of calls.
THEOREM BurstsBounded == Spec => []BurstBounded
<1> DEFINE Bursts == \A k \in Keys, from \in 0..MaxTime : Weight(Span(k, from)) < Burst * Limit(k)
<1>1. PaceInv /\ Init => Bursts
  <2> SUFFICES ASSUME PaceInv, Init, NEW k \in Keys, NEW from \in 0..MaxTime
               PROVE  Weight(Span(k, from)) < Burst * Limit(k)
    OBVIOUS
  <2>1. from \in Nat /\ from + Window > clock
    BY ThrottleAssumption DEF Init
  <2> QED
    BY <2>1, SpanNow
<1>0. PaceInv => SpansNow
  BY SpanNow DEF SpansNow
<1>2. PaceInv /\ Bursts /\ [Next]_vars /\ SpansNow' => Bursts'
  <2> SUFFICES ASSUME PaceInv, Bursts, [Next]_vars, SpansNow', NEW k \in Keys, NEW from \in 0..MaxTime
               PROVE  Weight(Span(k, from))' < Burst * Limit(k)
    BY DEF Burst, Limit
  <2>1. clock \in Nat /\ clock' \in Nat /\ from \in Nat /\ Window \in Nat /\ FiniteBag
    BY StepInv, ThrottleAssumption DEF PaceInv, Inv, TypeOK
  <2>2. CASE from + Window > clock'
    BY <2>2 DEF SpansNow, Burst, Limit
  <2>3. CASE from + Window <= clock'
    <3>1. CASE UNCHANGED admitted
      BY <3>1 DEF Weight
    <3>2. ASSUME NEW i \in Calls, Consume(i), ~UNCHANGED admitted
          PROVE  Weight(Span(k, from))' = Weight(Span(k, from))
      <4>1. Admits(Admitted(i))
        BY <3>2, ConsumeCases
      <4>2. Admitted(i) \notin Span(k, from)
        BY <2>1, <2>3, <4>1 DEF Span, Admits
      <4> QED
        BY <2>1, <4>1, <4>2, AdmissionCounts
    <3> QED
      BY <3>1, <3>2 DEF Next, Tick, Arrive, Drop, Reclaim, vars
  <2> QED
    BY <2>1, <2>2, <2>3
<1>3. PaceInv /\ Bursts => BurstBounded
  <2> SUFFICES ASSUME PaceInv, Bursts, NEW k \in Keys, NEW from \in 0..MaxTime
               PROVE  Count({a \in AdmittedOn(k) : a.at \in from..(from + Window - 1)})
                         < Burst * Limit(k)
    BY DEF BurstBounded, Burst
  <2> DEFINE P == {a \in AdmittedOn(k) : a.at \in from..(from + Window - 1)}
  <2>1. /\ P \subseteq AdmittedOn(k)
        /\ \A a \in BagToSet(admitted) : a \in P <=> a \in Span(k, from)
    BY DEF PaceInv, Inv, TypeOK, AdmittedOn, Span
  <2>2. Weight(Span(k, from)) < Burst * Limit(k)
    OBVIOUS
  <2> HIDE DEF P
  <2>3. Count(P) = Weight(Span(k, from))
    BY <2>1, CountIsWeight
  <2> QED
    BY <2>2, <2>3 DEF P
<1> HIDE DEF Bursts
<1> QED
  BY <1>0, <1>1, <1>2, <1>3, InitPace, StepPace, PTL DEF Spec

\* What LockoutBrief counts, as the proofs add it up.
Lockout ==
    denied # None =>
        \E k \in denied : k \in Keys /\ Weight(After(k, clock - Window - MaxLag)) >= Limit(k)

\* A denial names a bucket that has admitted its cap within a window and the lag
\* of the clocks: for any number of calls, a denial never prolongs a lockout.
THEOREM LockoutsBrief == Spec => []LockoutBrief
<1>1. Init => Lockout
  BY DEF Init, Lockout
<1>2. PaceInv /\ Lockout /\ [Next]_vars => Lockout'
  <2> SUFFICES ASSUME PaceInv, Lockout, [Next]_vars PROVE Lockout'
    OBVIOUS
  <2>1. CASE denied' = None
    BY <2>1 DEF Lockout
  <2>2. CASE UNCHANGED vars
    BY <2>2 DEF vars, Lockout, Weight, Limit
  <2>3. ASSUME NEW i \in Calls, Consume(i), denied' # None PROVE Lockout'
    <3>1. /\ calls[i] \in Attempt /\ calls[i].keys \subseteq Keys
          /\ UNCHANGED <<buckets, admitted, clock>> /\ denied' = calls[i].keys
          /\ \E k \in calls[i].keys : DecideThrottle(buckets[k], calls[i].now, Limit(k)) = None
      BY <2>3, ConsumeCases
    <3>2. PICK k \in calls[i].keys : DecideThrottle(buckets[k], calls[i].now, Limit(k)) = None
      BY <3>1
    <3>3. PICK now \in 0..MaxTime :
             now = calls[i].now /\ now <= clock /\ clock - now <= MaxLag
      BY <2>3, <3>1 DEF Consume, PaceInv, ClocksRead, ClocksRecent, Inv, Attempt
    <3>4. /\ k \in Keys /\ clock \in Nat /\ Window \in Nat \ {0} /\ MaxLag \in Nat
          /\ Limit(k) \in Nat \ {0} /\ now \in Nat /\ FiniteBag
      BY <3>1, ThrottleAssumption, LimitsPositive DEF PaceInv, Inv, TypeOK
    <3>5. buckets[k] # None /\ ~Expired(buckets[k], now) /\ Full(buckets[k], Limit(k))
      <4>1. /\ [windowStart |-> now, count |-> 1] \in Counter
            /\ buckets[k] \in Counter => [buckets[k] EXCEPT !.count = @ + 1] \in Counter
        BY DEF Counter
      <4>2. buckets[k] # None => buckets[k] \in Counter
        BY <3>4 DEF PaceInv, Inv, TypeOK
      <4> QED
        BY <3>2, <3>3, <4>1, <4>2, NoCounterAssumption DEF DecideThrottle, Expired
    <3>6. PICK s \in Nat, n \in Nat :
             s > now - Window /\ n >= Limit(k) /\ n <= Weight(CommittedFrom(k, s))
      BY <3>4, <3>5 DEF Expired, Full, PaceInv, Paced, Steady, Inv, TypeOK, Counter
    <3>7. /\ Weight(CommittedFrom(k, s)) <= Weight(After(k, clock - Window - MaxLag))
          /\ Weight(CommittedFrom(k, s)) \in Nat
          /\ Weight(After(k, clock - Window - MaxLag)) \in Nat
      <4>1. CommittedFrom(k, s) \subseteq After(k, clock - Window - MaxLag)
        BY <3>3, <3>4, <3>6 DEF CommittedFrom, After, Admission
      <4> QED
        BY <3>4, <4>1, WeightMonotone, WeightNat
    <3>8. Weight(After(k, clock - Window - MaxLag)) >= Limit(k)
      BY <3>4, <3>6, <3>7
    <3> QED
      BY <3>1, <3>2, <3>4, <3>8 DEF Lockout, Weight, Limit
  <2> QED
    BY <2>1, <2>2, <2>3 DEF Next, Tick, Arrive, Drop, Reclaim
<1>3. PaceInv /\ Lockout => LockoutBrief
  <2> SUFFICES ASSUME PaceInv, Lockout, denied # None
               PROVE  \E k \in denied :
                         Count({a \in AdmittedOn(k) : a.at > clock - Window - MaxLag}) >= Limit(k)
    BY DEF LockoutBrief
  <2>1. PICK k \in denied : k \in Keys /\ Weight(After(k, clock - Window - MaxLag)) >= Limit(k)
    BY DEF Lockout
  <2> DEFINE recent == {a \in AdmittedOn(k) : a.at > clock - Window - MaxLag}
  <2>2. /\ recent \subseteq AdmittedOn(k)
        /\ \A a \in BagToSet(admitted) :
              a \in recent <=> a \in After(k, clock - Window - MaxLag)
    BY DEF PaceInv, Inv, TypeOK, AdmittedOn, After
  <2> HIDE DEF recent
  <2>3. Count(recent) = Weight(After(k, clock - Window - MaxLag))
    BY <2>2, CountIsWeight
  <2> QED
    BY <2>1, <2>3 DEF recent
<1> QED
  BY <1>1, <1>2, <1>3, InitPace, StepPace, PTL DEF Spec
=============================================================================
