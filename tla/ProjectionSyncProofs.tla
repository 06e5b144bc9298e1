-------------------------- MODULE ProjectionSyncProofs --------------------------
EXTENDS ProjectionSync, SumFacts

-----------------------------------------------------------------------------
(* Ranks, selections and orders.                                           *)

Below(I, x) == {y \in I : y < x}

LEMMA RankBounds ==
    ASSUME NEW I \in SUBSET Int, IsFiniteSet(I), NEW x \in I
    PROVE  /\ IsFiniteSet(Below(I, x)) /\ Cardinality(Below(I, x)) \in Nat
           /\ Cardinality(Below(I, x)) + 1 \in 1..Cardinality(I)
<1>1. IsFiniteSet(Below(I, x)) /\ Below(I, x) \in SUBSET (I \ {x})
  <2>1. Below(I, x) \in SUBSET I /\ x \notin Below(I, x)
    BY DEF Below
  <2> QED
    BY <2>1, FS_Subset
<1>2. IsFiniteSet(I \ {x}) /\ Cardinality(I \ {x}) = Cardinality(I) - 1
  BY FS_RemoveElement
<1>3. Cardinality(Below(I, x)) <= Cardinality(I \ {x})
  BY <1>1, <1>2, FS_Subset
<1>4. Cardinality(Below(I, x)) \in Nat /\ Cardinality(I) \in Nat
  BY <1>1, FS_CardinalityType
<1> QED
  BY <1>1, <1>2, <1>3, <1>4

LEMMA RankGrows ==
    ASSUME NEW I \in SUBSET Int, IsFiniteSet(I), NEW x \in I, NEW y \in I, x < y
    PROVE  Cardinality(Below(I, x)) < Cardinality(Below(I, y))
<1>1. /\ Below(I, x) \in SUBSET Below(I, y)
      /\ x \in Below(I, y) /\ x \notin Below(I, x)
  <2>1. x \in Int /\ y \in Int /\ \A z \in I : z \in Int
    OBVIOUS
  <2>2. x \in Below(I, y) /\ x \notin Below(I, x)
    BY <2>1 DEF Below
  <2>3. ASSUME NEW z \in Below(I, x) PROVE z \in Below(I, y)
    BY <2>1 DEF Below
  <2> QED
    BY <2>2, <2>3
<1>2. /\ IsFiniteSet(Below(I, y))
      /\ Cardinality(Below(I, x)) \in Nat /\ Cardinality(Below(I, y)) \in Nat
  BY RankBounds
<1>3. /\ Cardinality(Below(I, x)) <= Cardinality(Below(I, y))
      /\ Cardinality(Below(I, y)) = Cardinality(Below(I, x)) => Below(I, y) = Below(I, x)
  BY <1>1, <1>2, FS_Subset
<1> QED
  BY <1>1, <1>2, <1>3

\* Every rank belongs to one number.
LEMMA RankTaken ==
    ASSUME NEW I \in SUBSET Int, IsFiniteSet(I), NEW n \in 1..Cardinality(I)
    PROVE  Nth(I, n) \in I /\ Cardinality(Below(I, Nth(I, n))) = n - 1
<1> DEFINE rank == [x \in I |-> Cardinality(Below(I, x)) + 1]
           N == Cardinality(I)
<1>1. N \in Nat /\ IsFiniteSet(1..N) /\ Cardinality(1..N) = N
  BY FS_CardinalityType, FS_Interval
<1>2. rank \in Injection(I, 1..N)
  <2>1. rank \in [I -> 1..N]
    BY RankBounds
  <2>2. ASSUME NEW x \in I, NEW y \in I, rank[x] = rank[y]
        PROVE  x = y
    <3>1. ~(x < y) /\ ~(y < x)
      BY <2>2, RankGrows, RankBounds
    <3> QED
      BY <3>1
  <2> QED
    BY <2>1, <2>2 DEF Injection, IsInjective
<1>3. rank \in Surjection(I, 1..N)
  BY <1>1, <1>2, FS_Injection
<1>4. PICK x \in I : Cardinality(Below(I, x)) + 1 = n
  BY <1>3 DEF Surjection
<1>5. Cardinality(Below(I, x)) = n - 1
  BY <1>1, <1>4, RankBounds
<1> QED
  BY <1>5 DEF Nth, Below

LEMMA RankFound ==
    ASSUME NEW I \in SUBSET Int, IsFiniteSet(I), NEW x \in I
    PROVE  Nth(I, Cardinality(Below(I, x)) + 1) = x
<1> DEFINE n == Cardinality(Below(I, x)) + 1
<1>1. n \in 1..Cardinality(I) /\ Cardinality(Below(I, x)) \in Nat
  BY RankBounds
<1>2. PICK y \in I : y = Nth(I, n) /\ Cardinality(Below(I, y)) = n - 1
  BY <1>1, RankTaken
<1>3. Cardinality(Below(I, y)) = Cardinality(Below(I, x))
  BY <1>1, <1>2
<1>4. ~(x < y) /\ ~(y < x)
  BY <1>1, <1>3, RankGrows
<1>5. x \in Int /\ y \in Int
  OBVIOUS
<1> QED
  BY <1>2, <1>4, <1>5

LEMMA RanksAscend ==
    ASSUME NEW I \in SUBSET Int, IsFiniteSet(I),
           NEW m \in 1..Cardinality(I), NEW n \in 1..Cardinality(I), m < n
    PROVE  Nth(I, m) < Nth(I, n)
<1>1. PICK x \in I : x = Nth(I, m) /\ Cardinality(Below(I, x)) = m - 1
  BY RankTaken
<1>2. PICK y \in I : y = Nth(I, n) /\ Cardinality(Below(I, y)) = n - 1
  BY RankTaken
<1>3. x \in Int /\ y \in Int /\ x # y
  BY <1>1, <1>2
<1>4. ~(y < x)
  <2>1. y < x => Cardinality(Below(I, y)) < Cardinality(Below(I, x))
    BY RankGrows
  <2> QED
    BY <1>1, <1>2, <2>1
<1> QED
  BY <1>1, <1>2, <1>3, <1>4

\* Selecting keeps what lies in the set, and nothing twice.
LEMMA Selected ==
    ASSUME NEW X, NEW s \in Seq(X), NEW S
    PROVE  /\ Only(s, S) \in Seq(X)
           /\ Range(Only(s, S)) = Range(s) \cap S
           /\ IsInjective(s) => IsInjective(Only(s, S))
<1> DEFINE at == {i \in DOMAIN s : s[i] \in S}
           N == Cardinality(at)
<1>1. Only(s, S) = [n \in 1..N |-> s[Nth(at, n)]]
  BY DEF Only
<1>2. DOMAIN s = 1..Len(s) /\ Len(s) \in Nat /\ at \in SUBSET (1..Len(s))
  OBVIOUS
<1>3. IsFiniteSet(at) /\ at \in SUBSET Int /\ N \in Nat
  <2>1. IsFiniteSet(1..Len(s))
    BY <1>2, FS_Interval
  <2> HIDE DEF at
  <2>2. at \in SUBSET Int
    BY <1>2
  <2>3. IsFiniteSet(at)
    BY <1>2, <2>1, FS_Subset
  <2> QED
    BY <2>2, <2>3, FS_CardinalityType
<1>4. ASSUME NEW n \in 1..N
      PROVE  Nth(at, n) \in at /\ Cardinality(Below(at, Nth(at, n))) = n - 1
  <2> HIDE DEF at
  <2> QED
    BY <1>3, RankTaken
<1>5. ASSUME NEW i \in at PROVE \E n \in 1..N : Nth(at, n) = i
  <2> HIDE DEF at
  <2>1. Cardinality(Below(at, i)) + 1 \in 1..N
    BY <1>3, RankBounds
  <2>2. Nth(at, Cardinality(Below(at, i)) + 1) = i
    BY <1>3, RankFound
  <2> QED
    BY <2>1, <2>2
<1>6. \A i \in at : i \in DOMAIN s /\ s[i] \in S /\ s[i] \in X
  BY <1>2
<1>7. \A i \in DOMAIN s : s[i] \in S => i \in at
  OBVIOUS
<1> HIDE DEF at
<1> DEFINE o == [n \in 1..N |-> s[Nth(at, n)]]
<1>8. o \in Seq(X)
  <2>1. \A n \in 1..N : s[Nth(at, n)] \in X
    BY <1>4, <1>6
  <2> QED
    BY <1>3, <2>1
<1>9. Range(o) = Range(s) \cap S
  <2>1. ASSUME NEW x \in Range(o) PROVE x \in Range(s) /\ x \in S
    <3>1. PICK n \in 1..N : x = s[Nth(at, n)]
      BY DEF Range
    <3> QED
      BY <1>4, <1>6, <3>1 DEF Range
  <2>2. ASSUME NEW x \in Range(s), x \in S PROVE x \in Range(o)
    <3>1. PICK i \in DOMAIN s : x = s[i]
      BY DEF Range
    <3>2. i \in at
      BY <1>7, <2>2, <3>1
    <3>3. PICK n \in 1..N : Nth(at, n) = i
      BY <1>5, <3>2
    <3>4. o[n] = x /\ n \in DOMAIN o
      BY <3>1, <3>3
    <3> QED
      BY <3>4 DEF Range
  <2> QED
    BY <2>1, <2>2
<1>10. ASSUME IsInjective(s) PROVE IsInjective(o)
  <2> SUFFICES ASSUME NEW m \in 1..N, NEW n \in 1..N, o[m] = o[n] PROVE m = n
    BY DEF IsInjective
  <2>1. s[Nth(at, m)] = s[Nth(at, n)]
    OBVIOUS
  <2>2. Nth(at, m) = Nth(at, n)
    BY <1>4, <1>6, <1>10, <2>1 DEF IsInjective
  <2>3. m - 1 = n - 1
    BY <1>4, <2>2
  <2> QED
    BY <1>3, <2>3
<1> QED
  BY <1>1, <1>8, <1>9, <1>10

\* Sorting keeps every entry, when no two have one sequence.
LEMMA Ordered ==
    ASSUME NEW E, IsFiniteSet(E), \A e \in E : e.sequence \in Nat,
           \A d, e \in E : d.sequence = e.sequence => d = e
    PROVE  /\ InOrder(E) \in Seq(E)
           /\ Range(InOrder(E)) = E
           /\ \A i, j \in DOMAIN InOrder(E) :
                i < j => InOrder(E)[i].sequence < InOrder(E)[j].sequence
<1> DEFINE at == {e.sequence : e \in E}
           N == Cardinality(at)
           At(n) == CHOOSE e \in E : e.sequence = Nth(at, n)
<1>1. InOrder(E) = [n \in 1..N |-> At(n)]
  BY DEF InOrder
<1>2. IsFiniteSet(at) /\ at \in SUBSET Int /\ N \in Nat
  <2> DEFINE w == [e \in E |-> e.sequence]
  <2>1. at = {w[e] : e \in E} /\ at \in SUBSET Int
    OBVIOUS
  <2> HIDE DEF at, w
  <2>2. IsFiniteSet(at)
    BY <2>1, FiniteImage
  <2> QED
    BY <2>1, <2>2, FS_CardinalityType
<1>3. \A x \in at : \E e \in E : e.sequence = x
  OBVIOUS
<1>4. \A e \in E : e.sequence \in at
  OBVIOUS
<1> HIDE DEF at
<1>5. ASSUME NEW n \in 1..N PROVE At(n) \in E /\ At(n).sequence = Nth(at, n)
  <2>1. Nth(at, n) \in at
    BY <1>2, RankTaken
  <2>2. \E e \in E : e.sequence = Nth(at, n)
    BY <1>3, <2>1
  <2> QED
    BY <2>2
<1>6. ASSUME NEW e \in E PROVE \E n \in 1..N : At(n) = e
  <2>1. Cardinality(Below(at, e.sequence)) + 1 \in 1..N
    BY <1>2, <1>4, RankBounds
  <2>2. Nth(at, Cardinality(Below(at, e.sequence)) + 1) = e.sequence
    BY <1>2, <1>4, RankFound
  <2>3. PICK n \in 1..N : Nth(at, n) = e.sequence
    BY <2>1, <2>2
  <2>4. At(n) \in E /\ At(n).sequence = e.sequence
    BY <1>5, <2>3
  <2> QED
    BY <2>4
<1> HIDE DEF At
<1> DEFINE o == [n \in 1..N |-> At(n)]
<1>7. o \in Seq(E)
  BY <1>2, <1>5
<1>8. Range(o) = E
  BY <1>5, <1>6 DEF Range
<1>9. ASSUME NEW i \in DOMAIN o, NEW j \in DOMAIN o, i < j
      PROVE  o[i].sequence < o[j].sequence
  BY <1>2, <1>5, <1>9, RanksAscend
<1> QED
  BY <1>1, <1>7, <1>8, <1>9

LEMMA LeastNat ==
    ASSUME NEW S \in SUBSET Nat, S # {}
    PROVE  Min(S) \in S /\ \A x \in S : Min(S) <= x
<1>1. PICK n \in S : TRUE
  OBVIOUS
<1> DEFINE T == {x \in S : x <= n}
<1>2. T \in SUBSET Int /\ IsFiniteSet(T) /\ T # {}
  <2>1. n \in Nat /\ T \in SUBSET (0..n)
    <3>1. n \in Nat /\ \A x \in S : x \in Nat
      OBVIOUS
    <3>2. \A x \in T : x \in 0..n
      BY <3>1
    <3> QED
      BY <3>1, <3>2
  <2>2. IsFiniteSet(0..n)
    BY <2>1, FS_Interval
  <2>3. n \in T /\ T \in SUBSET Int
    BY <2>1
  <2> HIDE DEF T
  <2> QED
    BY <2>1, <2>2, <2>3, FS_Subset
<1>3. PICK x \in T : \A y \in T : x <= y
  <2> HIDE DEF T
  <2> QED
    BY <1>2, Least
<1>4. x \in S /\ \A y \in S : x =< y
  BY <1>3
<1> QED
  BY <1>4 DEF Min

LEMMA InRange ==
    ASSUME NEW X, NEW s \in Seq(X)
    PROVE  /\ Range(s) \subseteq X /\ IsFiniteSet(Range(s))
           /\ \A i \in DOMAIN s : s[i] \in Range(s)
           /\ DOMAIN s = 1..Len(s) /\ Len(s) \in Nat
<1>1. DOMAIN s = 1..Len(s) /\ Len(s) \in Nat
  OBVIOUS
<1>2. Range(s) = {s[i] : i \in 1..Len(s)}
  BY <1>1 DEF Range
<1>3. IsFiniteSet(1..Len(s))
  BY <1>1, FS_Interval
<1>4. IsFiniteSet(Range(s))
  BY <1>2, <1>3, FiniteImage
<1>5. \A i \in 1..Len(s) : s[i] \in X
  OBVIOUS
<1> QED
  BY <1>1, <1>2, <1>4, <1>5

LEMMA ConcatRange ==
    ASSUME NEW X, NEW s \in Seq(X), NEW u \in Seq(X)
    PROVE  s \o u \in Seq(X) /\ Range(s \o u) = Range(s) \cup Range(u)
<1>1. /\ DOMAIN (s \o u) = 1..(Len(s) + Len(u))
      /\ \A i \in 1..(Len(s) + Len(u)) :
            (s \o u)[i] = IF i <= Len(s) THEN s[i] ELSE u[i - Len(s)]
      /\ Len(s) \in Nat /\ Len(u) \in Nat
      /\ DOMAIN s = 1..Len(s) /\ DOMAIN u = 1..Len(u)
  OBVIOUS
<1>2. ASSUME NEW x \in Range(s \o u) PROVE x \in Range(s) \/ x \in Range(u)
  <2>1. PICK i \in 1..(Len(s) + Len(u)) : x = (s \o u)[i]
    BY <1>1 DEF Range
  <2>2. CASE i <= Len(s)
    <3>1. i \in DOMAIN s /\ x = s[i]
      BY <1>1, <2>1, <2>2
    <3> QED
      BY <3>1 DEF Range
  <2>3. CASE ~(i <= Len(s))
    <3>1. i - Len(s) \in DOMAIN u /\ x = u[i - Len(s)]
      BY <1>1, <2>1, <2>3
    <3> QED
      BY <3>1 DEF Range
  <2> QED
    BY <2>2, <2>3
<1>3. ASSUME NEW x \in Range(s) PROVE x \in Range(s \o u)
  <2>1. PICK i \in 1..Len(s) : x = s[i]
    BY <1>1 DEF Range
  <2>2. i \in 1..(Len(s) + Len(u)) /\ (s \o u)[i] = x
    BY <1>1, <2>1
  <2> QED
    BY <1>1, <2>2 DEF Range
<1>4. ASSUME NEW x \in Range(u) PROVE x \in Range(s \o u)
  <2>1. PICK i \in 1..Len(u) : x = u[i]
    BY <1>1 DEF Range
  <2>2. /\ Len(s) + i \in 1..(Len(s) + Len(u)) /\ ~(Len(s) + i <= Len(s))
        /\ Len(s) + i - Len(s) = i
    BY <1>1
  <2>3. (s \o u)[Len(s) + i] = x
    BY <1>1, <2>1, <2>2
  <2> QED
    BY <1>1, <2>2, <2>3 DEF Range
<1>5. s \o u \in Seq(X)
  OBVIOUS
<1> QED
  BY <1>2, <1>3, <1>4, <1>5

LEMMA Newest ==
    ASSUME NEW X, NEW s \in Seq(X), NEW n \in Nat \ {0}
    PROVE  NewestOf(s, n) \in Seq(X) /\ Range(NewestOf(s, n)) \subseteq Range(s)
<1> DEFINE m == IF Len(s) > n THEN Len(s) - n + 1 ELSE 1
<1>1. Len(s) \in Nat /\ DOMAIN s = 1..Len(s) /\ m \in Nat \ {0} /\ m <= Len(s) + 1
  OBVIOUS
<1>2. NewestOf(s, n) = SubSeq(s, m, Len(s))
  BY DEF NewestOf
<1> HIDE DEF m
<1>3. /\ SubSeq(s, m, Len(s)) \in Seq(X)
      /\ DOMAIN SubSeq(s, m, Len(s)) = 1..(Len(s) - m + 1)
      /\ \A i \in 1..(Len(s) - m + 1) : SubSeq(s, m, Len(s))[i] = s[m + i - 1]
  BY <1>1
<1>4. ASSUME NEW x \in Range(SubSeq(s, m, Len(s))) PROVE x \in Range(s)
  <2>1. PICK i \in 1..(Len(s) - m + 1) : x = SubSeq(s, m, Len(s))[i]
    BY <1>3 DEF Range
  <2>2. m + i - 1 \in DOMAIN s /\ x = s[m + i - 1]
    BY <1>1, <1>3, <2>1
  <2> QED
    BY <2>2 DEF Range
<1> QED
  BY <1>2, <1>3, <1>4

LEMMA IdsAre ==
    ASSUME NEW pending \in Seq(Entry)
    PROVE  /\ Ids(pending) \in Seq(EventIds)
           /\ Range(Ids(pending)) = {e.eventId : e \in Range(pending)}
<1>1. /\ DOMAIN pending = 1..Len(pending) /\ Len(pending) \in Nat
      /\ \A i \in 1..Len(pending) : pending[i] \in Entry /\ pending[i].eventId \in EventIds
  <2>1. \A e \in Entry : e.eventId \in EventIds
    BY DEF Entry
  <2> QED
    BY <2>1
<1>2. Ids(pending) = [i \in 1..Len(pending) |-> pending[i].eventId]
  BY <1>1 DEF Ids
<1>3. Ids(pending) \in Seq(EventIds)
  BY <1>1, <1>2
<1>4. Range(Ids(pending)) = {e.eventId : e \in Range(pending)}
  BY <1>1, <1>2 DEF Range
<1> QED
  BY <1>3, <1>4

-----------------------------------------------------------------------------
(* The ledger, over the records K the room has stored so far.              *)

Truthful(K) ==
    /\ K \subseteq Record
    /\ \A q, r \in K : q.sequence = r.sequence => q.eventId = r.eventId

EntryOK(e, K, highest) ==
    /\ e \in Entry /\ e.copies # {} /\ e.copies \subseteq K
    /\ \A c \in e.copies : c.eventId = e.eventId /\ c.sequence <= highest[c.partition]
    /\ \E c \in e.copies : c.sequence = e.sequence

OneEntryEach(pending) ==
    \A i, j \in DOMAIN pending : pending[i].eventId = pending[j].eventId => i = j

SessionOK(sn, K) ==
    /\ sn \in Session
    /\ \A e \in Range(sn.pending) : EntryOK(e, K, sn.highest)
    /\ OneEntryEach(sn.pending)

\* Entries differ in their events, and in their sequences.
LEMMA SequencesApart ==
    ASSUME NEW K, Truthful(K), NEW sn, SessionOK(sn, K),
           NEW d \in Range(sn.pending), NEW e \in Range(sn.pending),
           d.sequence = e.sequence \/ d.eventId = e.eventId
    PROVE  d = e
<1>1. EntryOK(d, K, sn.highest) /\ EntryOK(e, K, sn.highest)
  BY DEF SessionOK
<1>2. d.eventId = e.eventId
  BY <1>1 DEF EntryOK, Truthful
<1>3. PICK i \in DOMAIN sn.pending, j \in DOMAIN sn.pending : d = sn.pending[i] /\ e = sn.pending[j]
  BY DEF Range
<1> QED
  BY <1>2, <1>3 DEF SessionOK, OneEntryEach

\* acknowledgeInternal.
LEMMA AcknowledgeKeeps ==
    ASSUME NEW K, Truthful(K), NEW sn, SessionOK(sn, K), NEW ids \in Seq(EventIds)
    PROVE  /\ SessionOK(Acknowledge(sn, ids), K)
           /\ Range(Acknowledge(sn, ids).pending) =
                {e \in Range(sn.pending) : e.eventId \notin Range(ids)}
           /\ Acknowledged(Acknowledge(sn, ids)) \subseteq Acknowledged(sn) \cup Range(ids)
           /\ Acknowledge(sn, ids).cursor = sn.cursor
           /\ Acknowledge(sn, ids).highest = sn.highest
           /\ Acknowledge(sn, ids).newest = sn.newest
<1> DEFINE left == {e \in Range(sn.pending) : e.eventId \notin Range(ids)}
           pending == Only(sn.pending, left)
           more == Only(ids, Range(ids) \ Acknowledged(sn))
           acknowledged == NewestOf(sn.acknowledged \o more, MaxAcknowledged)
           new == Acknowledge(sn, ids)
<1>1. /\ sn \in Session /\ sn.pending \in Seq(Entry) /\ sn.acknowledged \in Seq(EventIds)
  BY DEF SessionOK, Session
<1>2. new = [sn EXCEPT !.pending = pending, !.acknowledged = acknowledged]
  BY DEF Acknowledge
<1>3. /\ pending \in Seq(Entry) /\ Range(pending) = left
      /\ IsInjective(sn.pending) => IsInjective(pending)
  <2>1. Range(sn.pending) \cap left = left
    OBVIOUS
  <2> HIDE DEF left
  <2> QED
    BY <1>1, <2>1, Selected
<1>4. more \in Seq(EventIds) /\ Range(more) \subseteq Range(ids)
  BY Selected
<1>5. acknowledged \in Seq(EventIds) /\ Range(acknowledged) \subseteq Acknowledged(sn) \cup Range(ids)
  <2> HIDE DEF more
  <2>1. /\ sn.acknowledged \o more \in Seq(EventIds)
        /\ Range(sn.acknowledged \o more) = Range(sn.acknowledged) \cup Range(more)
    BY <1>1, <1>4, ConcatRange
  <2>2. /\ acknowledged \in Seq(EventIds)
        /\ Range(acknowledged) \subseteq Range(sn.acknowledged \o more)
    BY <2>1, LimitsAssumption, Newest
  <2> QED
    BY <1>4, <2>1, <2>2 DEF Acknowledged
<1>6. IsInjective(pending)
  BY <1>3 DEF SessionOK, OneEntryEach, IsInjective
<1> HIDE DEF pending, acknowledged
<1>7. OneEntryEach(pending)
  <2> SUFFICES ASSUME NEW i \in DOMAIN pending, NEW j \in DOMAIN pending,
                      pending[i].eventId = pending[j].eventId
               PROVE  i = j
    BY DEF OneEntryEach
  <2>1. pending[i] \in Range(sn.pending) /\ pending[j] \in Range(sn.pending)
    BY <1>3, InRange
  <2>2. pending[i] = pending[j]
    BY <2>1, SequencesApart
  <2> QED
    BY <1>6, <2>2 DEF IsInjective
<1>8. /\ new \in Session /\ new.pending = pending /\ new.acknowledged = acknowledged
      /\ new.cursor = sn.cursor /\ new.highest = sn.highest /\ new.newest = sn.newest
  BY <1>1, <1>2, <1>3, <1>5 DEF Session
<1> HIDE DEF new
<1>9. SessionOK(new, K)
  BY <1>3, <1>7, <1>8 DEF SessionOK
<1> QED
  BY <1>3, <1>5, <1>8, <1>9 DEF new, Acknowledged

LEMMA OverflowAre ==
    ASSUME NEW K, Truthful(K), NEW sn, SessionOK(sn, K)
    PROVE  /\ Overflow(sn) \in Seq(EventIds)
           /\ Range(Overflow(sn)) \subseteq {e.eventId : e \in Range(sn.pending)}
<1> DEFINE all == Range(sn.pending)
           oldest == InOrder(all)
           k == IF Len(oldest) > MaxPending THEN Len(oldest) - MaxPending ELSE 0
           first == SubSeq(oldest, 1, k)
<1>1. all \subseteq Entry /\ IsFiniteSet(all)
  BY InRange DEF SessionOK, Session
<1>2. \A e \in all : e.sequence \in Nat
  BY <1>1 DEF Entry
<1>3. \A d, e \in all : d.sequence = e.sequence => d = e
  BY SequencesApart
<1> HIDE DEF all
<1>4. oldest \in Seq(all) /\ Range(oldest) = all
  BY <1>1, <1>2, <1>3, Ordered
<1> HIDE DEF oldest
<1>5. Len(oldest) \in Nat /\ k \in Nat /\ k <= Len(oldest)
  BY <1>4, LimitsAssumption
<1> HIDE DEF k
<1>6. first \in Seq(all)
  BY <1>4, <1>5
<1> HIDE DEF first
<1>7. first \in Seq(Entry) /\ Range(first) \subseteq all
  <2>1. Range(first) \subseteq all
    BY <1>6, InRange
  <2>2. first \in Seq(Entry)
    BY <1>1, <1>6
  <2> QED
    BY <2>1, <2>2
<1>8. Ids(first) \in Seq(EventIds) /\ Range(Ids(first)) = {e.eventId : e \in Range(first)}
  BY <1>7, IdsAre
<1>9. Overflow(sn) = Ids(first)
  BY DEF Overflow, first, k, oldest, all
<1> QED
  BY <1>7, <1>8, <1>9 DEF all

\* expire: what is given up is acknowledged.
LEMMA ExpireKeeps ==
    ASSUME NEW K, Truthful(K), NEW sn, SessionOK(sn, K)
    PROVE  /\ SessionOK(Expire(sn), K)
           /\ Range(Expire(sn).pending) \subseteq Range(sn.pending)
           /\ Acknowledged(Expire(sn)) \subseteq
                Acknowledged(sn) \cup
                  {e.eventId : e \in Range(sn.pending) \ Range(Expire(sn).pending)}
           /\ Expire(sn).cursor = sn.cursor
           /\ Expire(sn).highest = sn.highest
           /\ Expire(sn).newest = sn.newest
<1> DEFINE lagging == {e \in Range(sn.pending) : Lagging(sn, e)}
           ids == Ids(Only(sn.pending, lagging))
           caughtUp == Acknowledge(sn, ids)
           over == Overflow(caughtUp)
           new == Acknowledge(caughtUp, over)
<1>0. sn.pending \in Seq(Entry)
  BY DEF SessionOK, Session
<1>1. Only(sn.pending, lagging) \in Seq(Entry) /\ Range(Only(sn.pending, lagging)) = lagging
  <2>1. Range(sn.pending) \cap lagging = lagging
    OBVIOUS
  <2> HIDE DEF lagging
  <2> QED
    BY <1>0, <2>1, Selected
<1>2. ids \in Seq(EventIds) /\ Range(ids) = {e.eventId : e \in lagging}
  <2> HIDE DEF lagging
  <2> QED
    BY <1>1, IdsAre
<1>3. /\ SessionOK(caughtUp, K)
      /\ Range(caughtUp.pending) = {e \in Range(sn.pending) : e.eventId \notin Range(ids)}
      /\ Acknowledged(caughtUp) \subseteq Acknowledged(sn) \cup Range(ids)
      /\ caughtUp.cursor = sn.cursor /\ caughtUp.highest = sn.highest
      /\ caughtUp.newest = sn.newest
  <2> HIDE DEF ids
  <2> QED
    BY <1>2, AcknowledgeKeeps
<1> HIDE DEF caughtUp
<1>4. over \in Seq(EventIds) /\ Range(over) \subseteq {e.eventId : e \in Range(caughtUp.pending)}
  BY <1>3, OverflowAre
<1>5. /\ SessionOK(new, K)
      /\ Range(new.pending) = {e \in Range(caughtUp.pending) : e.eventId \notin Range(over)}
      /\ Acknowledged(new) \subseteq Acknowledged(caughtUp) \cup Range(over)
      /\ new.cursor = caughtUp.cursor /\ new.highest = caughtUp.highest
      /\ new.newest = caughtUp.newest
  <2>1. SessionOK(caughtUp, K) /\ over \in Seq(EventIds)
    BY <1>3, <1>4
  <2> HIDE DEF over, ids, lagging
  <2> QED
    BY <2>1, AcknowledgeKeeps
<1>6. Expire(sn) = new
  BY DEF Expire, caughtUp
<1> HIDE DEF new, over, ids
<1>7. Range(new.pending) \subseteq Range(sn.pending)
  BY <1>3, <1>5
<1>8. ASSUME NEW id \in Acknowledged(new), id \notin Acknowledged(sn)
      PROVE  \E e \in Range(sn.pending) \ Range(new.pending) : e.eventId = id
  <2>1. CASE id \in Range(ids)
    <3>1. PICK e \in lagging : e.eventId = id
      BY <1>2, <2>1
    <3> QED
      BY <1>3, <1>5, <2>1, <3>1
  <2>2. CASE id \in Range(over)
    <3>1. PICK e \in Range(caughtUp.pending) : e.eventId = id
      BY <1>4, <2>2
    <3> QED
      BY <1>3, <1>5, <2>2, <3>1
  <2> QED
    BY <1>3, <1>5, <1>8, <2>1, <2>2
<1> QED
  BY <1>3, <1>5, <1>6, <1>7, <1>8

LEMMA GreatestOf ==
    ASSUME NEW S, IsFiniteSet(S), \A x \in S : x.sequence \in Nat, NEW n \in Nat
    PROVE  LET M == Max({n} \cup {x.sequence : x \in S})
           IN  /\ M \in Nat /\ n <= M /\ \A x \in S : x.sequence <= M
               /\ M = n \/ \E x \in S : x.sequence = M
<1> DEFINE T == {x.sequence : x \in S}
           w == [x \in S |-> x.sequence]
<1>1. T = {w[x] : x \in S} /\ T \in SUBSET Nat
  OBVIOUS
<1>2. IsFiniteSet(T)
  <2> HIDE DEF T, w
  <2> QED
    BY <1>1, FiniteImage
<1>3. IsFiniteSet(T \cup {n}) /\ {n} \cup T = T \cup {n} /\ T \cup {n} \in SUBSET Int
  <2> HIDE DEF T
  <2> QED
    BY <1>1, <1>2, FS_AddElement
<1>4. Max({n} \cup T) \in {n} \cup T /\ \A y \in {n} \cup T : y <= Max({n} \cup T)
  <2> HIDE DEF T
  <2> QED
    BY <1>3, Greatest
<1> QED
  BY <1>1, <1>4

\* Reading a page only raises the marks.
LEMMA NotedKeeps ==
    ASSUME NEW K, Truthful(K), NEW sn, SessionOK(sn, K),
           NEW records, IsFiniteSet(records), records \subseteq K
    PROVE  LET new == NoteIngested(sn, records)
           IN  /\ SessionOK(new, K)
               /\ new.cursor = sn.cursor /\ new.acknowledged = sn.acknowledged
               /\ new.pending = sn.pending
               /\ \A p \in Partitions :
                    /\ sn.highest[p] <= new.highest[p]
                    /\ \/ new.highest[p] = sn.highest[p]
                       \/ \E r \in records : r.partition = p /\ r.sequence = new.highest[p]
               /\ \A r \in records : r.sequence <= new.highest[r.partition]
<1> DEFINE of(p) == {r \in records : r.partition = p}
           M(p) == Max({sn.highest[p]} \cup {r.sequence : r \in of(p)})
           N == Max({sn.newest} \cup {r.sequence : r \in records})
           new == NoteIngested(sn, records)
<1>1. /\ sn \in Session /\ sn.highest \in Cursor /\ sn.newest \in Nat
      /\ \A p \in Partitions : sn.highest[p] \in Nat
  BY DEF SessionOK, Session, Cursor
<1>2. \A r \in records : r.sequence \in Nat /\ r.partition \in Partitions
  BY DEF Truthful, Record
<1>3. new = [sn EXCEPT !.highest = [p \in Partitions |-> M(p)], !.newest = N]
  BY DEF NoteIngested
<1>4. ASSUME NEW p \in Partitions
      PROVE  /\ M(p) \in Nat /\ sn.highest[p] <= M(p)
             /\ \A r \in of(p) : r.sequence <= M(p)
             /\ M(p) = sn.highest[p] \/ \E r \in of(p) : r.sequence = M(p)
  <2>1. of(p) \in SUBSET records /\ \A r \in of(p) : r.sequence \in Nat
    BY <1>2
  <2>2. IsFiniteSet(of(p))
    <3> HIDE DEF of
    <3> QED
      BY <2>1, FS_Subset
  <2> HIDE DEF of
  <2> QED
    BY <1>1, <2>1, <2>2, GreatestOf
<1>5. N \in Nat
  BY <1>1, <1>2, GreatestOf
<1>6. \A r \in records : r \in of(r.partition)
  OBVIOUS
<1>7. \A p \in Partitions : \A r \in of(p) : r \in records /\ r.partition = p
  OBVIOUS
<1> HIDE DEF M, N, of
<1>8. /\ new.highest = [p \in Partitions |-> M(p)] /\ new.highest \in Cursor
      /\ new.cursor = sn.cursor /\ new.acknowledged = sn.acknowledged
      /\ new.pending = sn.pending /\ new \in Session
  BY <1>1, <1>3, <1>4, <1>5 DEF Session, Cursor
<1> HIDE DEF new
<1>9. ASSUME NEW p \in Partitions
      PROVE  /\ sn.highest[p] <= new.highest[p]
             /\ \/ new.highest[p] = sn.highest[p]
                \/ \E r \in records : r.partition = p /\ r.sequence = new.highest[p]
  BY <1>4, <1>7, <1>8
<1>12. \A r \in records : r.sequence <= new.highest[r.partition]
  BY <1>2, <1>4, <1>6, <1>8
<1>10. ASSUME NEW e \in Range(sn.pending) PROVE EntryOK(e, K, new.highest)
  <2>1. EntryOK(e, K, sn.highest)
    BY DEF SessionOK
  <2>2. \A c \in e.copies : c.sequence \in Nat /\ c.partition \in Partitions
    BY <2>1 DEF EntryOK, Truthful, Record
  <2>3. \A c \in e.copies : c.sequence <= new.highest[c.partition]
    <3> SUFFICES ASSUME NEW c \in e.copies PROVE c.sequence <= new.highest[c.partition]
      OBVIOUS
    <3>1. c.sequence <= sn.highest[c.partition] /\ sn.highest[c.partition] <= new.highest[c.partition]
      BY <1>9, <2>1, <2>2 DEF EntryOK
    <3>2. c.sequence \in Nat /\ sn.highest[c.partition] \in Nat /\ new.highest[c.partition] \in Nat
      BY <1>1, <1>8, <2>2 DEF Cursor
    <3> QED
      BY <3>1, <3>2
  <2> QED
    BY <2>1, <2>3 DEF EntryOK
<1>11. SessionOK(new, K)
  BY <1>8, <1>10 DEF SessionOK
<1> QED
  BY <1>8, <1>9, <1>11, <1>12 DEF new

\* addCopy, for what a page adds: entries gain copies, and new entries follow.
LEMMA CopiesAdded ==
    ASSUME NEW K, Truthful(K), NEW sn, SessionOK(sn, K),
           NEW copies, IsFiniteSet(copies), copies \subseteq K,
           \A c \in copies : c.sequence <= sn.highest[c.partition]
    PROVE  LET new == AddCopies(sn, copies)
           IN  /\ SessionOK(new, K)
               /\ new.cursor = sn.cursor /\ new.acknowledged = sn.acknowledged
               /\ new.highest = sn.highest /\ new.newest = sn.newest
               /\ \A c \in copies : \E e \in Range(new.pending) :
                     e.eventId = c.eventId /\ c \in e.copies
               /\ \A d \in Range(sn.pending) : \E e \in Range(new.pending) :
                     e.eventId = d.eventId /\ d.copies \subseteq e.copies
               /\ \A e \in Range(new.pending) : \A c \in e.copies :
                     c \in copies \/ \E d \in Range(sn.pending) : c \in d.copies
<1> DEFINE Of(id) == {r \in copies : r.eventId = id}
           held == {e.eventId : e \in Range(sn.pending)}
           ids == {r.eventId : r \in copies} \ held
           entry(id) == [eventId |-> id, sequence |-> Min({r.sequence : r \in Of(id)}),
                         copies |-> Of(id)]
           fresh == {entry(id) : id \in ids}
           Grown(e) == [e EXCEPT !.copies = @ \cup Of(e.eventId)]
           old == [i \in DOMAIN sn.pending |-> Grown(sn.pending[i])]
           pending == old \o InOrder(fresh)
           new == AddCopies(sn, copies)
<1>1. /\ sn \in Session /\ sn.pending \in Seq(Entry)
      /\ \A r \in copies : /\ r \in Record /\ r.sequence \in Nat /\ r.partition \in Partitions
                           /\ r.eventId \in EventIds
  BY DEF SessionOK, Session, Truthful, Record
<1>2. new = [sn EXCEPT !.pending = pending]
  BY DEF AddCopies
<1>3. ASSUME NEW id \in ids
      PROVE  /\ EntryOK(entry(id), K, sn.highest) /\ entry(id).eventId = id
             /\ entry(id).copies = Of(id)
  <2> DEFINE at == {r.sequence : r \in Of(id)}
  <2>1. at \in SUBSET Nat /\ at # {} /\ Of(id) # {}
    BY <1>1
  <2>2. Min(at) \in at
    <3> HIDE DEF at
    <3> QED
      BY <2>1, LeastNat
  <2>3. PICK c \in Of(id) : c.sequence = Min(at)
    BY <2>2
  <2>4. Of(id) \subseteq Record /\ Of(id) \subseteq copies /\ id \in EventIds /\ Min(at) \in Nat
    BY <1>1, <2>1, <2>2
  <2>5. entry(id) = [eventId |-> id, sequence |-> Min(at), copies |-> Of(id)]
    OBVIOUS
  <2>6. \A r \in Of(id) : r.eventId = id /\ r \in copies
    OBVIOUS
  <2> HIDE DEF at, entry, Of
  <2>7. entry(id) \in Entry
    BY <2>4, <2>5 DEF Entry
  <2> QED
    BY <2>1, <2>3, <2>4, <2>5, <2>6, <2>7 DEF EntryOK
<1>4. IsFiniteSet(fresh) /\ fresh \subseteq Entry
  <2>1. IsFiniteSet({r.eventId : r \in copies})
    <3> DEFINE w == [r \in copies |-> r.eventId]
    <3>1. {r.eventId : r \in copies} = {w[r] : r \in copies}
      OBVIOUS
    <3> HIDE DEF w
    <3> QED
      BY <3>1, FiniteImage
  <2>2. IsFiniteSet(ids)
    BY <2>1, FS_Subset
  <2>3. IsFiniteSet(fresh)
    <3> DEFINE w == [id \in ids |-> entry(id)]
    <3>1. fresh = {w[id] : id \in ids}
      OBVIOUS
    <3> HIDE DEF w, fresh, ids
    <3> QED
      BY <2>2, <3>1, FiniteImage
  <2>4. \A id \in ids : entry(id) \in Entry
    BY <1>3 DEF EntryOK
  <2> HIDE DEF entry, ids
  <2> QED
    BY <2>3, <2>4
<1> HIDE DEF entry
<1>5. \A e \in fresh : EntryOK(e, K, sn.highest) /\ e.eventId \in ids /\ e = entry(e.eventId)
  BY <1>3
<1>6. \A d, e \in fresh : d.sequence = e.sequence \/ d.eventId = e.eventId => d = e
  <2> SUFFICES ASSUME NEW d \in fresh, NEW e \in fresh, d.sequence = e.sequence \/ d.eventId = e.eventId
               PROVE  d = e
    OBVIOUS
  <2>1. d.eventId = e.eventId
    BY <1>5 DEF EntryOK, Truthful
  <2> QED
    BY <1>5, <2>1
<1>7. /\ InOrder(fresh) \in Seq(fresh) /\ Range(InOrder(fresh)) = fresh
      /\ \A i, j \in DOMAIN InOrder(fresh) :
           i < j => InOrder(fresh)[i].sequence < InOrder(fresh)[j].sequence
  <2>1. \A e \in fresh : e.sequence \in Nat
    BY <1>4 DEF Entry
  <2> HIDE DEF fresh
  <2> QED
    BY <1>4, <1>6, <2>1, Ordered
<1> HIDE DEF fresh
<1>8. InOrder(fresh) \in Seq(Entry)
  BY <1>4, <1>7
<1>9. ASSUME NEW i \in 1..Len(sn.pending)
      PROVE  LET d == sn.pending[i]
             IN  /\ d \in Entry /\ old[i] \in Entry
                 /\ old[i].eventId = d.eventId /\ old[i].sequence = d.sequence
                 /\ old[i].copies = d.copies \cup Of(d.eventId)
                 /\ EntryOK(old[i], K, sn.highest)
  <2> DEFINE d == sn.pending[i]
  <2>1. d \in Entry /\ EntryOK(d, K, sn.highest)
    BY <1>1 DEF SessionOK, Range
  <2>2. old[i] = [d EXCEPT !.copies = @ \cup Of(d.eventId)]
    <3>1. i \in DOMAIN sn.pending
      BY <1>1
    <3> QED
      BY <3>1
  <2>3. Of(d.eventId) \subseteq Record /\ \A c \in Of(d.eventId) : c \in copies /\ c.eventId = d.eventId
    BY <1>1
  <2> HIDE DEF d, Of, old
  <2>4. /\ old[i].eventId = d.eventId /\ old[i].sequence = d.sequence
        /\ old[i].copies = d.copies \cup Of(d.eventId)
        /\ old[i] \in Entry
    BY <2>1, <2>2, <2>3 DEF Entry
  <2>5. EntryOK(old[i], K, sn.highest)
    BY <2>1, <2>3, <2>4 DEF EntryOK
  <2> QED
    BY <2>1, <2>2, <2>4, <2>5 DEF d
<1>10. old \in Seq(Entry) /\ Len(old) = Len(sn.pending) /\ Len(old) \in Nat
  <2>1. DOMAIN sn.pending = 1..Len(sn.pending) /\ Len(sn.pending) \in Nat
    BY <1>1
  <2>2. DOMAIN old = 1..Len(sn.pending) /\ old = [i \in 1..Len(sn.pending) |-> old[i]]
    BY <2>1
  <2>3. \A i \in 1..Len(sn.pending) : old[i] \in Entry
    BY <1>9
  <2> HIDE DEF old
  <2> QED
    BY <2>1, <2>2, <2>3
<1>11. pending \in Seq(Entry) /\ Range(pending) = Range(old) \cup fresh
  <2> HIDE DEF old
  <2> QED
    BY <1>7, <1>8, <1>10, ConcatRange
<1> HIDE DEF old
<1>12. \A e \in Range(old) : \E i \in 1..Len(sn.pending) : e = old[i]
  BY <1>10 DEF Range
<1>13. \A i \in 1..Len(sn.pending) : old[i] \in Range(old)
  BY <1>10 DEF Range
<1>14. \A e \in Range(pending) : EntryOK(e, K, sn.highest)
  BY <1>5, <1>9, <1>11, <1>12
<1>15. OneEntryEach(pending)
  <2> DEFINE n == Len(old)
             u == InOrder(fresh)
  <2>1. /\ Len(u) \in Nat /\ DOMAIN pending = 1..(n + Len(u)) /\ n \in Nat
        /\ \A i \in 1..(n + Len(u)) : pending[i] = IF i <= n THEN old[i] ELSE u[i - n]
    BY <1>8, <1>10
  <2>2. ASSUME NEW i \in 1..n
        PROVE  old[i].eventId = sn.pending[i].eventId /\ old[i].eventId \in held
    <3>1. i \in 1..Len(sn.pending) /\ sn.pending[i] \in Range(sn.pending)
      BY <1>1, <1>10 DEF Range
    <3> QED
      BY <1>9, <3>1
  <2>3. \A i \in 1..Len(u) : u[i] \in fresh /\ u[i].eventId \notin held
    BY <1>5, <1>7, <2>1 DEF Range
  <2>4. ASSUME NEW i \in 1..n, NEW j \in 1..n, old[i].eventId = old[j].eventId PROVE i = j
    BY <1>1, <1>10, <2>2, <2>4 DEF SessionOK, OneEntryEach
  <2>5. ASSUME NEW i \in 1..Len(u), NEW j \in 1..Len(u), u[i].eventId = u[j].eventId PROVE i = j
    <3>1. u[i] = u[j] /\ u[i].sequence \in Nat
      BY <1>4, <1>6, <2>3, <2>5 DEF Entry
    <3>2. DOMAIN u = 1..Len(u)
      BY <1>8
    <3>3. ~(i < j) /\ ~(j < i)
      BY <1>7, <3>1, <3>2
    <3> QED
      BY <2>1, <3>3
  <2>6. ASSUME NEW i \in DOMAIN pending, NEW j \in DOMAIN pending,
               pending[i].eventId = pending[j].eventId
        PROVE  i = j
    <3> HIDE DEF pending, n, u, held
    <3>1. CASE i <= n /\ j <= n
      BY <2>1, <2>4, <2>6, <3>1
    <3>2. CASE ~(i <= n) /\ ~(j <= n)
      <4>1. i - n \in 1..Len(u) /\ j - n \in 1..Len(u)
        BY <2>1, <3>2
      <4>2. i - n = j - n
        BY <2>1, <2>5, <2>6, <3>2, <4>1
      <4> QED
        BY <2>1, <4>2
    <3>3. CASE i <= n /\ ~(j <= n)
      <4>1. i \in 1..n /\ j - n \in 1..Len(u)
        BY <2>1, <3>3
      <4> QED
        BY <2>1, <2>2, <2>3, <2>6, <3>3, <4>1
    <3>4. CASE ~(i <= n) /\ j <= n
      <4>1. j \in 1..n /\ i - n \in 1..Len(u)
        BY <2>1, <3>4
      <4> QED
        BY <2>1, <2>2, <2>3, <2>6, <3>4, <4>1
    <3> QED
      BY <3>1, <3>2, <3>3, <3>4
  <2> QED
    BY <2>6 DEF OneEntryEach
<1>16. ASSUME NEW c \in copies
       PROVE  \E e \in Range(pending) : e.eventId = c.eventId /\ c \in e.copies
  <2>1. CASE c.eventId \in held
    <3>1. PICK i \in 1..Len(sn.pending) : sn.pending[i].eventId = c.eventId
      BY <1>1, <2>1 DEF Range
    <3> QED
      BY <1>9, <1>11, <1>13, <3>1
  <2>2. CASE c.eventId \notin held
    <3>1. c.eventId \in ids
      BY <2>2
    <3>2. entry(c.eventId) \in fresh /\ c \in entry(c.eventId).copies
          /\ entry(c.eventId).eventId = c.eventId
      BY <1>3, <3>1 DEF fresh
    <3> QED
      BY <1>11, <3>2
  <2> QED
    BY <2>1, <2>2
<1>17. ASSUME NEW d \in Range(sn.pending)
       PROVE  \E e \in Range(pending) : e.eventId = d.eventId /\ d.copies \subseteq e.copies
  <2>1. PICK i \in 1..Len(sn.pending) : sn.pending[i] = d
    BY <1>1 DEF Range
  <2> QED
    BY <1>9, <1>11, <1>13, <2>1
<1>18. ASSUME NEW e \in Range(pending), NEW c \in e.copies
       PROVE  c \in copies \/ \E d \in Range(sn.pending) : c \in d.copies
  <2>1. CASE e \in Range(old)
    <3>1. PICK i \in 1..Len(sn.pending) : e = old[i]
      BY <1>12, <2>1
    <3>2. sn.pending[i] \in Range(sn.pending)
      BY <1>1 DEF Range
    <3> QED
      BY <1>9, <1>18, <3>1, <3>2
  <2>2. CASE e \in fresh
    BY <1>3, <1>5, <1>18, <2>2
  <2> QED
    BY <1>11, <2>1, <2>2
<1> HIDE DEF pending
<1>19. /\ new.pending = pending /\ new.cursor = sn.cursor /\ new.highest = sn.highest
       /\ new.acknowledged = sn.acknowledged /\ new.newest = sn.newest
       /\ new \in Session
  BY <1>1, <1>2, <1>11 DEF Session
<1> HIDE DEF new
<1>20. SessionOK(new, K)
  BY <1>14, <1>15, <1>19 DEF SessionOK
<1> QED
  BY <1>16, <1>17, <1>18, <1>19, <1>20 DEF new

\* What waits lies beyond the cursor.
CursorBehind(sn) ==
    \A e \in Range(sn.pending) : \A c \in e.copies : sn.cursor[c.partition] < c.sequence

\* recomputeCursor: the cursor never passes what waits, nor what was read.
LEMMA RecomputeKeeps ==
    ASSUME NEW K, Truthful(K), NEW sn, SessionOK(sn, K), CursorBehind(sn)
    PROVE  LET new == RecomputeCursor(sn)
           IN  /\ SessionOK(new, K) /\ CursorBehind(new)
               /\ new.pending = sn.pending /\ new.acknowledged = sn.acknowledged
               /\ FetchCursor(new) = FetchCursor(sn)
<1> DEFINE waiting(p) == {c.sequence : c \in {d \in UNION {e.copies : e \in Range(sn.pending)} :
                                              d.partition = p}}
           to(p) == Greater(sn.cursor[p], IF waiting(p) = {} THEN sn.highest[p]
                                                             ELSE Min(waiting(p)) - 1)
           new == RecomputeCursor(sn)
<1>1. sn \in Session /\ sn.cursor \in Cursor /\ sn.highest \in Cursor
  BY DEF SessionOK, Session
<1>2. new = [sn EXCEPT !.cursor = [p \in Partitions |-> to(p)]]
  BY DEF RecomputeCursor
<1>3. \A e \in Range(sn.pending) : \A c \in e.copies :
         /\ c.sequence \in Nat /\ c.partition \in Partitions /\ c.sequence \in waiting(c.partition)
         /\ c.sequence <= sn.highest[c.partition] /\ sn.cursor[c.partition] < c.sequence
  BY DEF SessionOK, EntryOK, CursorBehind, Truthful, Record
<1>4. ASSUME NEW p \in Partitions
      PROVE  /\ to(p) \in Nat
             /\ Greater(to(p), sn.highest[p]) = Greater(sn.cursor[p], sn.highest[p])
             /\ \A n \in waiting(p) : to(p) < n
  <2>1. sn.cursor[p] \in Nat /\ sn.highest[p] \in Nat
    BY <1>1 DEF Cursor
  <2>2. \A n \in waiting(p) : n \in Nat /\ n <= sn.highest[p] /\ sn.cursor[p] < n
    BY <1>3
  <2>3. CASE waiting(p) = {}
    BY <2>1, <2>3 DEF Greater
  <2>4. CASE waiting(p) # {}
    <3>1. waiting(p) \in SUBSET Nat
      BY <2>2
    <3>2. Min(waiting(p)) \in waiting(p) /\ \A n \in waiting(p) : Min(waiting(p)) <= n
      <4> HIDE DEF waiting
      <4> QED
        BY <2>4, <3>1, LeastNat
    <3> HIDE DEF waiting
    <3> QED
      BY <2>1, <2>2, <2>4, <3>1, <3>2 DEF Greater
  <2> QED
    BY <2>3, <2>4
<1> HIDE DEF to
<1>5. /\ new.cursor = [p \in Partitions |-> to(p)] /\ new.cursor \in Cursor
      /\ new.pending = sn.pending /\ new.acknowledged = sn.acknowledged
      /\ new.highest = sn.highest /\ new.newest = sn.newest /\ new \in Session
  BY <1>1, <1>2, <1>4 DEF Session, Cursor
<1> HIDE DEF new
<1>6. FetchCursor(new) = FetchCursor(sn)
  BY <1>4, <1>5 DEF FetchCursor
<1>7. SessionOK(new, K)
  BY <1>5 DEF SessionOK
<1>8. CursorBehind(new)
  <2> HIDE DEF waiting
  <2> QED
    BY <1>3, <1>4, <1>5 DEF CursorBehind
<1> QED
  BY <1>5, <1>6, <1>7, <1>8 DEF new

\* acknowledge, for events of the queue.
LEMMA AcknowledgeEventsKeeps ==
    ASSUME NEW K, Truthful(K), NEW sn, SessionOK(sn, K), CursorBehind(sn), NEW ids \in Seq(EventIds)
    PROVE  LET new == AcknowledgeEvents(sn, ids)
           IN  /\ SessionOK(new, K) /\ CursorBehind(new) /\ FetchCursor(new) = FetchCursor(sn)
               /\ \A d \in Range(sn.pending) :
                     d.eventId \in Waiting(new) => d \in Range(new.pending)
               /\ \A id \in Acknowledged(new) \ Acknowledged(sn) :
                     id \notin Waiting(new) /\ \E c \in Copies(sn) : c.eventId = id
<1> DEFINE waiting == Only(ids, {e.eventId : e \in Range(sn.pending)})
           held == Acknowledge(sn, waiting)
           new == AcknowledgeEvents(sn, ids)
<1>1. waiting \in Seq(EventIds) /\ Range(waiting) \subseteq {e.eventId : e \in Range(sn.pending)}
  BY Selected
<1>2. CASE waiting = <<>>
  BY <1>2 DEF AcknowledgeEvents
<1>3. CASE waiting # <<>>
  <2>1. new = RecomputeCursor(held)
    BY <1>3 DEF AcknowledgeEvents
  <2>2. /\ SessionOK(held, K)
        /\ Range(held.pending) = {e \in Range(sn.pending) : e.eventId \notin Range(waiting)}
        /\ Acknowledged(held) \subseteq Acknowledged(sn) \cup Range(waiting)
        /\ held.cursor = sn.cursor /\ held.highest = sn.highest
    <3> HIDE DEF waiting
    <3> QED
      BY <1>1, AcknowledgeKeeps
  <2> HIDE DEF held, waiting
  <2>3. CursorBehind(held) /\ FetchCursor(held) = FetchCursor(sn)
    BY <2>2 DEF CursorBehind, FetchCursor
  <2>4. /\ SessionOK(new, K) /\ CursorBehind(new) /\ FetchCursor(new) = FetchCursor(held)
        /\ new.pending = held.pending /\ new.acknowledged = held.acknowledged
    BY <2>1, <2>2, <2>3, RecomputeKeeps
  <2> HIDE DEF new
  <2>5. Waiting(new) = {e.eventId : e \in {d \in Range(sn.pending) : d.eventId \notin Range(waiting)}}
    BY <2>2, <2>4 DEF Waiting
  <2>6. \A d \in Range(sn.pending) : d.eventId \in Waiting(new) => d \in Range(new.pending)
    BY <2>2, <2>4, <2>5
  <2>7. ASSUME NEW id \in Acknowledged(new), id \notin Acknowledged(sn)
        PROVE  id \notin Waiting(new) /\ \E c \in Copies(sn) : c.eventId = id
    <3>1. id \in Range(waiting)
      BY <2>2, <2>4, <2>7 DEF Acknowledged
    <3>2. PICK e \in Range(sn.pending) : e.eventId = id
      BY <1>1, <3>1
    <3>3. PICK c \in e.copies : c.eventId = id
      BY <3>2 DEF SessionOK, EntryOK
    <3> QED
      BY <2>5, <3>1, <3>2, <3>3 DEF Copies
  <2> QED
    BY <2>3, <2>4, <2>6, <2>7 DEF new
<1> QED
  BY <1>2, <1>3

\* Of the wanted records of an event, the first of the partition is added.
LEMMA FirstIsAdded ==
    ASSUME NEW sn, NEW records, \A r \in records : r.sequence \in Nat,
           NEW r \in records, Wanted(sn, r)
    PROVE  \E q \in Added(sn, records) :
              /\ q.partition = r.partition /\ q.eventId = r.eventId
              /\ q.sequence <= r.sequence
<1> DEFINE alike == {q \in records : /\ q.partition = r.partition /\ q.eventId = r.eventId
                                     /\ Wanted(sn, q)}
           at == {q.sequence : q \in alike}
<1>1. at \in SUBSET Nat /\ r.sequence \in at
  OBVIOUS
<1>2. Min(at) \in at /\ \A n \in at : Min(at) <= n
  <2> HIDE DEF at
  <2> QED
    BY <1>1, LeastNat
<1>3. PICK q \in alike : q.sequence = Min(at)
  BY <1>2
<1>4. \A x \in alike : q.sequence <= x.sequence
  BY <1>2, <1>3
<1>5. q \in Added(sn, records)
  BY <1>3, <1>4 DEF Added
<1> QED
  BY <1>3, <1>4, <1>5

\* ingestTail, whole: what is read is noted, what waits or is new waits on or has been
\* given up, and the cursor follows.
LEMMA IngestKeeps ==
    ASSUME NEW K, Truthful(K), NEW sn, SessionOK(sn, K), CursorBehind(sn),
           NEW records, IsFiniteSet(records), records \subseteq K
    PROVE  LET new == Ingest(sn, records)
               added == Added(NoteIngested(sn, records), records)
           IN  /\ SessionOK(new, K) /\ CursorBehind(new)
               /\ \A p \in Partitions :
                    /\ FetchCursor(sn)[p] <= FetchCursor(new)[p]
                    /\ \/ FetchCursor(new)[p] = FetchCursor(sn)[p]
                       \/ \E r \in records : r.partition = p /\ r.sequence = FetchCursor(new)[p]
               /\ \A r \in records : r.sequence <= FetchCursor(new)[r.partition]
               /\ \A d \in Range(sn.pending) : d.eventId \in Waiting(new) =>
                     \E e \in Range(new.pending) : e.eventId = d.eventId /\ d.copies \subseteq e.copies
               /\ \A c \in added : c.eventId \in Waiting(new) =>
                     \E e \in Range(new.pending) : e.eventId = c.eventId /\ c \in e.copies
               /\ \A id \in Acknowledged(new) \ Acknowledged(sn) :
                     id \notin Waiting(new) /\ \E c \in Copies(sn) \cup added : c.eventId = id
               /\ added \subseteq records
               /\ \A c \in added : Wanted(sn, c)
               /\ \A r \in records : Wanted(sn, r) =>
                     \E c \in added : /\ c.partition = r.partition /\ c.eventId = r.eventId
                                      /\ c.sequence <= r.sequence
<1> DEFINE noted == NoteIngested(sn, records)
           added == Added(noted, records)
           grown == AddCopies(noted, added)
           fewer == Expire(grown)
           new == Ingest(sn, records)
<1>1. /\ SessionOK(noted, K)
      /\ noted.cursor = sn.cursor /\ noted.acknowledged = sn.acknowledged
      /\ noted.pending = sn.pending
      /\ \A p \in Partitions :
           /\ sn.highest[p] <= noted.highest[p]
           /\ \/ noted.highest[p] = sn.highest[p]
              \/ \E r \in records : r.partition = p /\ r.sequence = noted.highest[p]
      /\ \A r \in records : r.sequence <= noted.highest[r.partition]
  BY NotedKeeps
<1> HIDE DEF noted
<1>2. /\ IsFiniteSet(added) /\ added \subseteq K /\ added \subseteq records
      /\ \A c \in added : c.sequence <= noted.highest[c.partition]
  <2>1. added \subseteq records
    BY DEF Added
  <2> HIDE DEF added
  <2> QED
    BY <1>1, <2>1, FS_Subset
<1>3. \A r : Wanted(noted, r) <=> Wanted(sn, r)
  BY <1>1 DEF Wanted, Acknowledged
<1>4. \A c \in added : Wanted(sn, c)
  BY <1>3 DEF Added
<1>5. ASSUME NEW r \in records, Wanted(sn, r)
      PROVE  \E c \in added : /\ c.partition = r.partition /\ c.eventId = r.eventId
                              /\ c.sequence <= r.sequence
  <2>1. \A x \in records : x.sequence \in Nat
    BY DEF Truthful, Record
  <2> QED
    BY <1>3, <1>5, <2>1, FirstIsAdded
<1> HIDE DEF added
<1>6. /\ SessionOK(grown, K)
      /\ grown.cursor = noted.cursor /\ grown.acknowledged = noted.acknowledged
      /\ grown.highest = noted.highest /\ grown.newest = noted.newest
      /\ \A c \in added : \E e \in Range(grown.pending) :
            e.eventId = c.eventId /\ c \in e.copies
      /\ \A d \in Range(noted.pending) : \E e \in Range(grown.pending) :
            e.eventId = d.eventId /\ d.copies \subseteq e.copies
      /\ \A e \in Range(grown.pending) : \A c \in e.copies :
            c \in added \/ \E d \in Range(noted.pending) : c \in d.copies
  BY <1>1, <1>2, CopiesAdded
<1> HIDE DEF grown
<1>7. /\ SessionOK(fewer, K)
      /\ Range(fewer.pending) \subseteq Range(grown.pending)
      /\ Acknowledged(fewer) \subseteq
           Acknowledged(grown) \cup
             {e.eventId : e \in Range(grown.pending) \ Range(fewer.pending)}
      /\ fewer.cursor = grown.cursor /\ fewer.highest = grown.highest
  BY <1>6, ExpireKeeps
<1> HIDE DEF fewer
<1>8. CursorBehind(fewer)
  <2> SUFFICES ASSUME NEW e \in Range(fewer.pending), NEW c \in e.copies
               PROVE  sn.cursor[c.partition] < c.sequence
    BY <1>1, <1>6, <1>7 DEF CursorBehind
  <2>1. CASE c \in added
    BY <1>4, <2>1 DEF Wanted
  <2>2. CASE \E d \in Range(sn.pending) : c \in d.copies
    BY <2>2 DEF CursorBehind
  <2> QED
    BY <1>1, <1>6, <1>7, <2>1, <2>2
<1>9. new = RecomputeCursor(fewer)
  BY DEF Ingest, noted, added, grown, fewer
<1>10. /\ SessionOK(new, K) /\ CursorBehind(new)
       /\ new.pending = fewer.pending /\ new.acknowledged = fewer.acknowledged
       /\ FetchCursor(new) = FetchCursor(fewer)
  BY <1>7, <1>8, <1>9, RecomputeKeeps
<1> HIDE DEF new
<1>11. /\ sn.cursor \in Cursor /\ sn.highest \in Cursor /\ noted.highest \in Cursor
       /\ \A r \in records : r.partition \in Partitions /\ r.sequence \in Nat
  BY <1>1 DEF SessionOK, Session, Truthful, Record
<1>12. ASSUME NEW p \in Partitions
       PROVE  /\ FetchCursor(sn)[p] <= FetchCursor(new)[p]
              /\ \/ FetchCursor(new)[p] = FetchCursor(sn)[p]
                 \/ \E r \in records : r.partition = p /\ r.sequence = FetchCursor(new)[p]
              /\ noted.highest[p] <= FetchCursor(new)[p]
  <2>1. /\ FetchCursor(new)[p] = Greater(sn.cursor[p], noted.highest[p])
        /\ FetchCursor(sn)[p] = Greater(sn.cursor[p], sn.highest[p])
    BY <1>1, <1>6, <1>7, <1>10 DEF FetchCursor
  <2>2. sn.cursor[p] \in Nat /\ sn.highest[p] \in Nat /\ noted.highest[p] \in Nat
    BY <1>11 DEF Cursor
  <2>3. sn.highest[p] <= noted.highest[p]
    BY <1>1
  <2>4. \/ noted.highest[p] = sn.highest[p]
        \/ \E r \in records : r.partition = p /\ r.sequence = noted.highest[p]
    BY <1>1
  <2>5. /\ FetchCursor(sn)[p] <= FetchCursor(new)[p]
        /\ noted.highest[p] <= FetchCursor(new)[p]
        /\ \/ FetchCursor(new)[p] = FetchCursor(sn)[p]
           \/ FetchCursor(new)[p] = noted.highest[p] /\ noted.highest[p] # sn.highest[p]
    BY <2>1, <2>2, <2>3 DEF Greater
  <2> QED
    BY <2>4, <2>5
<1>13. ASSUME NEW r \in records PROVE r.sequence <= FetchCursor(new)[r.partition]
  <2>1. /\ r.sequence <= noted.highest[r.partition]
        /\ noted.highest[r.partition] <= FetchCursor(new)[r.partition]
    BY <1>1, <1>11, <1>12
  <2>2. /\ noted.highest[r.partition] \in Nat /\ FetchCursor(new)[r.partition] \in Nat
        /\ r.sequence \in Nat
    BY <1>10, <1>11 DEF FetchCursor, SessionOK, Session, Cursor, Greater
  <2> QED
    BY <2>1, <2>2
\* An entry of grown whose event still waits is still there.
<1>14. ASSUME NEW e \in Range(grown.pending), e.eventId \in Waiting(new)
       PROVE  e \in Range(new.pending)
  <2>1. PICK d \in Range(new.pending) : d.eventId = e.eventId
    BY <1>14 DEF Waiting
  <2>2. d \in Range(grown.pending)
    BY <1>7, <1>10, <2>1
  <2> QED
    BY <1>6, <2>1, <2>2, SequencesApart
<1>15. \A d \in Range(sn.pending) : d.eventId \in Waiting(new) =>
          \E e \in Range(new.pending) : e.eventId = d.eventId /\ d.copies \subseteq e.copies
  BY <1>1, <1>6, <1>14
<1>16. \A c \in added : c.eventId \in Waiting(new) =>
          \E e \in Range(new.pending) : e.eventId = c.eventId /\ c \in e.copies
  BY <1>6, <1>14
<1>17. ASSUME NEW id \in Acknowledged(new), id \notin Acknowledged(sn)
       PROVE  id \notin Waiting(new) /\ \E c \in Copies(sn) \cup added : c.eventId = id
  <2>1. PICK e \in Range(grown.pending) : e.eventId = id /\ e \notin Range(fewer.pending)
    BY <1>1, <1>6, <1>7, <1>10, <1>17 DEF Acknowledged
  <2>2. id \notin Waiting(new)
    BY <1>10, <1>14, <2>1
  <2>3. PICK c \in e.copies : c.eventId = id
    BY <1>6, <2>1 DEF SessionOK, EntryOK
  <2>4. c \in added \/ \E d \in Range(sn.pending) : c \in d.copies
    BY <1>1, <1>6, <2>1, <2>3
  <2> QED
    BY <2>2, <2>3, <2>4 DEF Copies
<1> QED
  BY <1>2, <1>4, <1>5, <1>10, <1>12, <1>13, <1>15, <1>16, <1>17 DEF new, added, noted

-----------------------------------------------------------------------------
(* One range query.                                                        *)

\* Records with different sequences are as many as their sequences.
LEMMA SequencesCount ==
    ASSUME NEW X, IsFiniteSet(X), \A x \in X : x.sequence \in Nat,
           \A x, y \in X : x.sequence = y.sequence => x = y
    PROVE  LET at == {x.sequence : x \in X}
           IN  /\ at \in SUBSET Nat /\ IsFiniteSet(at)
               /\ Cardinality(at) = Cardinality(X) /\ Cardinality(X) \in Nat
<1> DEFINE at == {x.sequence : x \in X}
           f == [x \in X |-> x.sequence]
<1>1. f \in Surjection(X, at) /\ f \in Injection(X, at)
  BY DEF Surjection, Injection, IsInjective
<1>2. IsFiniteSet(at) /\ Cardinality(at) = Cardinality(X)
  <2> HIDE DEF f, at
  <2> QED
    BY <1>1, FS_Surjection
<1> QED
  BY <1>2, FS_CardinalityType

\* A record beyond the cursor is returned, or the answer is full with earlier ones.
LEMMA QueryReads ==
    ASSUME NEW S, IsFiniteSet(S), \A q \in S : q.sequence \in Nat,
           \A q, r \in S : q.sequence = r.sequence => q = r,
           NEW n \in Nat
    PROVE  /\ Query(S, n) \subseteq S /\ \A q \in Query(S, n) : n < q.sequence
           /\ \A r \in S : n < r.sequence =>
                 \/ r \in Query(S, n)
                 \/ Full(Query(S, n)) /\ \A q \in Query(S, n) : q.sequence < r.sequence
<1> DEFINE above == {q \in S : q.sequence > n}
           at == {q.sequence : q \in above}
           rank(r) == Cardinality({q \in above : q.sequence < r.sequence})
           L == PageLimit
<1>1. Query(S, n) = {r \in above : rank(r) < L}
  BY DEF Query
<1>2. /\ IsFiniteSet(above) /\ above \in SUBSET S
      /\ \A q \in above : q.sequence \in Nat
      /\ \A q, r \in above : q.sequence = r.sequence => q = r
  <2>1. above \in SUBSET S
    OBVIOUS
  <2>2. IsFiniteSet(above)
    BY <2>1, FS_Subset
  <2> QED
    BY <2>2
<1>3. L \in Nat \ {0}
  BY PageLimitAssumption
<1> HIDE DEF above
<1>4. at \in SUBSET Nat /\ at \in SUBSET Int /\ IsFiniteSet(at)
  <2>1. at \in SUBSET Nat /\ IsFiniteSet(at)
    BY <1>2, SequencesCount
  <2> QED
    BY <2>1
<1>5. ASSUME NEW r \in above PROVE rank(r) = Cardinality(Below(at, r.sequence))
  <2> DEFINE less == {q \in above : q.sequence < r.sequence}
  <2>1. less \in SUBSET above /\ IsFiniteSet(less)
    <3>1. less \in SUBSET above
      OBVIOUS
    <3> HIDE DEF less
    <3> QED
      BY <1>2, <3>1, FS_Subset
  <2>2. {q.sequence : q \in less} = Below(at, r.sequence)
    BY DEF Below
  <2>3. Cardinality({q.sequence : q \in less}) = Cardinality(less)
    <3> HIDE DEF less
    <3> QED
      BY <1>2, <2>1, SequencesCount
  <2> QED
    BY <2>2, <2>3
<1> HIDE DEF rank
<1> DEFINE query == {r \in above : rank(r) < L}
           T == {q.sequence : q \in query}
<1>6. ASSUME NEW r \in above, rank(r) >= L
      PROVE  Full(query) /\ \A q \in query : q.sequence < r.sequence
  <2>1. \A x \in at : x \in Nat /\ Cardinality(Below(at, x)) \in Nat
    BY <1>4, RankBounds
  <2>2. ASSUME NEW q \in query PROVE q.sequence < r.sequence
    <3>1. q.sequence \in at /\ r.sequence \in at /\ q \in above
      OBVIOUS
    <3>2. Cardinality(Below(at, q.sequence)) < Cardinality(Below(at, r.sequence))
      <4>1. rank(q) < L
        OBVIOUS
      <4>2. rank(q) \in Nat /\ rank(r) \in Nat
        BY <1>5, <2>1, <3>1
      <4>3. rank(q) < rank(r)
        <5> HIDE DEF query
        <5> QED
          BY <1>3, <1>6, <4>1, <4>2
      <4> QED
        BY <1>5, <3>1, <4>3
    <3>3. ~(r.sequence < q.sequence)
      <4>1. r.sequence < q.sequence =>
              Cardinality(Below(at, r.sequence)) < Cardinality(Below(at, q.sequence))
        BY <1>4, <3>1, RankGrows
      <4> QED
        BY <2>1, <3>1, <3>2, <4>1
    <3>4. q.sequence # r.sequence
      BY <2>1, <3>1, <3>2
    <3>5. q.sequence \in Nat /\ r.sequence \in Nat
      BY <1>2, <3>1
    <3> HIDE DEF at, query
    <3> QED
      BY <3>3, <3>4, <3>5
  <2>3. L <= Cardinality(at) /\ Cardinality(at) \in Nat
    <3>1. Cardinality(Below(at, r.sequence)) + 1 \in 1..Cardinality(at)
      BY <1>4, RankBounds
    <3>2. Cardinality(Below(at, r.sequence)) >= L /\ Cardinality(at) \in Nat
      BY <1>4, <1>5, <1>6, FS_CardinalityType
    <3>3. Cardinality(Below(at, r.sequence)) \in Nat
      BY <2>1
    <3> QED
      BY <1>3, <3>1, <3>2, <3>3
  <2>4. \A m \in 1..L : Nth(at, m) \in at /\ Cardinality(Below(at, Nth(at, m))) = m - 1
    <3> SUFFICES ASSUME NEW m \in 1..L
                 PROVE  Nth(at, m) \in at /\ Cardinality(Below(at, Nth(at, m))) = m - 1
      OBVIOUS
    <3>1. m \in 1..Cardinality(at)
      BY <1>3, <2>3
    <3> HIDE DEF at
    <3> QED
      BY <1>4, <3>1, RankTaken
  <2> DEFINE f == [m \in 1..L |-> Nth(at, m)]
  <2>5. \A m \in 1..L : Nth(at, m) \in T
    <3> SUFFICES ASSUME NEW m \in 1..L PROVE Nth(at, m) \in T
      OBVIOUS
    <3>1. PICK q \in above : q.sequence = Nth(at, m)
      BY <2>4
    <3>2. rank(q) = m - 1
      BY <1>5, <2>4, <3>1
    <3>3. q \in query
      BY <1>3, <3>2
    <3> QED
      BY <3>1, <3>3
  <2>6. ASSUME NEW x \in T PROVE \E m \in 1..L : f[m] = x
    <3>1. PICK q \in query : q.sequence = x
      OBVIOUS
    <3>2. x \in at /\ Cardinality(Below(at, x)) < L /\ Cardinality(Below(at, x)) \in Nat
      BY <1>5, <2>1, <3>1
    <3>3. Nth(at, Cardinality(Below(at, x)) + 1) = x
      <4> HIDE DEF at
      <4> QED
        BY <1>4, <3>2, RankFound
    <3>4. Cardinality(Below(at, x)) + 1 \in 1..L
      BY <1>3, <3>2
    <3> QED
      BY <3>3, <3>4
  <2>7. f \in Surjection(1..L, T) /\ f \in Injection(1..L, T)
    <3>1. f \in [1..L -> T]
      BY <2>5
    <3>2. ASSUME NEW i \in 1..L, NEW j \in 1..L, f[i] = f[j] PROVE i = j
      <4>1. i - 1 = j - 1
        BY <2>4, <3>2
      <4> QED
        BY <4>1
    <3> HIDE DEF f, T
    <3> QED
      BY <2>6, <3>1, <3>2 DEF Surjection, Injection, IsInjective
  <2>8. IsFiniteSet(T) /\ Cardinality(T) = L
    <3>1. IsFiniteSet(1..L) /\ Cardinality(1..L) = L
      BY <1>3, FS_Interval
    <3> HIDE DEF f, T
    <3> QED
      BY <2>7, <3>1, FS_Surjection
  <2>9. Cardinality(query) = Cardinality(T)
    <3>1. query \in SUBSET above
      OBVIOUS
    <3> HIDE DEF query
    <3> QED
      BY <1>2, <3>1, FS_Subset, SequencesCount
  <2> QED
    BY <2>2, <2>8, <2>9 DEF Full
<1>7. \A r \in above : rank(r) \in Nat
  BY <1>4, <1>5, RankBounds
<1>8. \A r \in above : \/ r \in query
                       \/ Full(query) /\ \A q \in query : q.sequence < r.sequence
  <2> SUFFICES ASSUME NEW r \in above, r \notin query
               PROVE  Full(query) /\ \A q \in query : q.sequence < r.sequence
    OBVIOUS
  <2>1. rank(r) >= L
    BY <1>3, <1>7
  <2> QED
    BY <1>6, <2>1
<1> QED
  BY <1>1, <1>8 DEF above

-----------------------------------------------------------------------------
(* The log, and the records stored of it.                                  *)

LogEntry == [eventId : EventIds, copies : SUBSET Readable, roomRevision : Nat]

\* Stored(p), of any log.
StoredIn(l, p) ==
    {[partition |-> p, sequence |-> s, eventId |-> l[s].eventId,
      roomRevision |-> l[s].roomRevision] : s \in {n \in DOMAIN l : p \in l[n].copies}}

KnownIn(l) == {r \in Record : r \in StoredIn(l, r.partition)}

Extends(l, m) == Len(l) <= Len(m) /\ \A s \in DOMAIN l : m[s] = l[s]

LEMMA ReadablePartitions == Readable \subseteq Partitions
BY ViewerAssumption DEF Readable, AuthorizedPartitions, Partitions

LEMMA StoredFacts ==
    ASSUME NEW l \in Seq(LogEntry), NEW p \in Partitions
    PROVE  /\ IsFiniteSet(StoredIn(l, p)) /\ StoredIn(l, p) \subseteq KnownIn(l)
           /\ \A r \in StoredIn(l, p) :
                /\ r \in Record /\ r.partition = p
                /\ r.sequence \in DOMAIN l /\ r.sequence \in 1..Len(l) /\ r.sequence \in Nat
                /\ r.eventId = l[r.sequence].eventId /\ p \in l[r.sequence].copies
           /\ \A q, r \in StoredIn(l, p) : q.sequence = r.sequence => q = r
           /\ \A s \in DOMAIN l : p \in l[s].copies =>
                \E r \in StoredIn(l, p) : r.sequence = s
<1> DEFINE record(s) == [partition |-> p, sequence |-> s, eventId |-> l[s].eventId,
                         roomRevision |-> l[s].roomRevision]
           at == {n \in DOMAIN l : p \in l[n].copies}
<1>1. DOMAIN l = 1..Len(l) /\ Len(l) \in Nat /\ \A s \in DOMAIN l : l[s] \in LogEntry
  OBVIOUS
<1>2. StoredIn(l, p) = {record(s) : s \in at}
  BY DEF StoredIn
<1>3. \A s \in at : /\ record(s) \in Record /\ record(s).partition = p
                    /\ record(s).sequence = s /\ record(s).eventId = l[s].eventId
                    /\ s \in DOMAIN l /\ p \in l[s].copies /\ s \in Nat /\ s \in 1..Len(l)
  BY <1>1 DEF Record, LogEntry
<1>4. IsFiniteSet(StoredIn(l, p))
  <2> DEFINE w == [s \in at |-> record(s)]
  <2>1. IsFiniteSet(1..Len(l)) /\ at \in SUBSET (1..Len(l))
    BY <1>1, FS_Interval
  <2>2. IsFiniteSet(at)
    BY <2>1, FS_Subset
  <2>3. StoredIn(l, p) = {w[s] : s \in at}
    BY <1>2
  <2> HIDE DEF w, at
  <2> QED
    BY <2>2, <2>3, FiniteImage
<1> HIDE DEF record
<1>5. ASSUME NEW r \in StoredIn(l, p)
      PROVE  /\ r \in Record /\ r.partition = p
             /\ r.sequence \in DOMAIN l /\ r.sequence \in 1..Len(l) /\ r.sequence \in Nat
             /\ r.eventId = l[r.sequence].eventId /\ p \in l[r.sequence].copies
             /\ r = record(r.sequence)
  BY <1>2, <1>3
<1>6. StoredIn(l, p) \subseteq KnownIn(l)
  BY <1>5 DEF KnownIn
<1>7. \A s \in DOMAIN l : p \in l[s].copies => \E r \in StoredIn(l, p) : r.sequence = s
  BY <1>2, <1>3
<1>8. \A q, r \in StoredIn(l, p) : q.sequence = r.sequence => q = r
  BY <1>5
<1> QED
  BY <1>4, <1>5, <1>6, <1>7, <1>8

LEMMA KnownFacts ==
    ASSUME NEW l \in Seq(LogEntry)
    PROVE  /\ Truthful(KnownIn(l))
           /\ \A r \in KnownIn(l) :
                /\ r.partition \in Partitions /\ r \in StoredIn(l, r.partition)
                /\ r.sequence \in 1..Len(l) /\ r.eventId = l[r.sequence].eventId
<1>1. \A r \in KnownIn(l) :
         /\ r \in Record /\ r.partition \in Partitions /\ r \in StoredIn(l, r.partition)
         /\ r.sequence \in 1..Len(l) /\ r.eventId = l[r.sequence].eventId
  <2> SUFFICES ASSUME NEW r \in KnownIn(l)
               PROVE  /\ r \in Record /\ r.partition \in Partitions
                      /\ r \in StoredIn(l, r.partition)
                      /\ r.sequence \in 1..Len(l) /\ r.eventId = l[r.sequence].eventId
    OBVIOUS
  <2>1. r \in Record /\ r \in StoredIn(l, r.partition) /\ r.partition \in Partitions
    BY DEF KnownIn, Record
  <2> QED
    BY <2>1, StoredFacts
<1> QED
  BY <1>1 DEF Truthful

\* What is stored stays, and new records come after it.
LEMMA LogGrowth ==
    ASSUME NEW l \in Seq(LogEntry), NEW m \in Seq(LogEntry), Extends(l, m)
    PROVE  /\ KnownIn(l) \subseteq KnownIn(m)
           /\ Len(l) \in Nat /\ Len(m) \in Nat /\ Len(l) <= Len(m)
           /\ \A p \in Partitions :
                /\ StoredIn(l, p) \subseteq StoredIn(m, p)
                /\ \A r \in StoredIn(m, p) : r \in StoredIn(l, p) \/ Len(l) < r.sequence
<1>1. /\ DOMAIN l = 1..Len(l) /\ DOMAIN m = 1..Len(m) /\ Len(l) \in Nat /\ Len(m) \in Nat
      /\ Len(l) <= Len(m) /\ DOMAIN l \subseteq DOMAIN m
  BY DEF Extends
<1>2. ASSUME NEW p \in Partitions PROVE StoredIn(l, p) \subseteq StoredIn(m, p)
  BY <1>1 DEF Extends, StoredIn
<1>3. ASSUME NEW p \in Partitions, NEW r \in StoredIn(m, p), ~(Len(l) < r.sequence)
      PROVE  r \in StoredIn(l, p)
  <2>1. PICK s \in DOMAIN m : p \in m[s].copies /\ r = [partition |-> p, sequence |-> s,
                                eventId |-> m[s].eventId, roomRevision |-> m[s].roomRevision]
    BY DEF StoredIn
  <2>2. s \in DOMAIN l /\ m[s] = l[s]
    BY <1>1, <1>3, <2>1 DEF Extends
  <2> QED
    BY <2>1, <2>2 DEF StoredIn
<1>4. KnownIn(l) \subseteq KnownIn(m)
  BY <1>2 DEF KnownIn, Record
<1> QED
  BY <1>1, <1>2, <1>3, <1>4

LEMMA RevisionNat ==
    ASSUME NEW l \in Seq(LogEntry)
    PROVE  RoomRevision(l) \in Nat
<1>1. l # <<>> => Len(l) \in DOMAIN l
  OBVIOUS
<1>2. l # <<>> => l[Len(l)] \in LogEntry
  BY <1>1
<1> QED
  BY <1>2 DEF RoomRevision, LogEntry

\* A command's events are appended.
LEMMA CommitAppends ==
    ASSUME log \in Seq(LogEntry), NEW b \in Batches
    PROVE  /\ Committed(b) \in Seq(LogEntry) /\ Extends(log, Committed(b))
           /\ Len(log) < Len(Committed(b))
<1>1. PICK n \in 1..MaxBatch : b \in [1..n -> Events]
  BY DEF Batches
<1>2. RoomRevision(log) \in Nat
  BY RevisionNat
<1> DEFINE more == [i \in DOMAIN b |-> [eventId |-> b[i].eventId, copies |-> b[i].copies,
                                        roomRevision |-> RoomRevision(log) + 1]]
<1>3. more \in Seq(LogEntry) /\ Len(more) = n /\ n \in Nat \ {0}
  <2>1. n \in Nat \ {0} /\ DOMAIN b = 1..n
    BY <1>1
  <2>2. ASSUME NEW i \in 1..n PROVE more[i] \in LogEntry
    <3>1. b[i] \in Event
      BY <1>1, EventsAssumption
    <3> QED
      BY <1>2, <2>1, <3>1 DEF Event, LogEntry
  <2>3. more = [i \in 1..n |-> more[i]]
    BY <2>1
  <2> HIDE DEF more
  <2> QED
    BY <2>1, <2>2, <2>3
<1>4. Committed(b) = log \o more
  BY DEF Committed
<1> HIDE DEF more
<1>5. /\ log \o more \in Seq(LogEntry) /\ Len(log \o more) = Len(log) + n
      /\ \A s \in DOMAIN log : (log \o more)[s] = log[s]
  BY <1>3
<1> QED
  BY <1>3, <1>4, <1>5 DEF Extends

-----------------------------------------------------------------------------
(* One page.                                                               *)

\* What a partition returned: of its records beyond the cursor, those missing are
\* beyond a full answer, or were committed after it and after the page began.
ReadOK(S, records, after, began) ==
    /\ records \subseteq S /\ \A q \in records : after < q.sequence
    /\ \A r \in S : after < r.sequence =>
          \/ r \in records
          \/ /\ Full(records) \/ began < r.sequence
             /\ \A q \in records : q.sequence < r.sequence

LEMMA QueryOK ==
    ASSUME NEW l \in Seq(LogEntry), NEW p \in Partitions, NEW n \in Nat, NEW began
    PROVE  ReadOK(StoredIn(l, p), Query(StoredIn(l, p), n), n, began)
<1>1. /\ IsFiniteSet(StoredIn(l, p)) /\ \A q \in StoredIn(l, p) : q.sequence \in Nat
      /\ \A q, r \in StoredIn(l, p) : q.sequence = r.sequence => q = r
  BY StoredFacts
<1> DEFINE S == StoredIn(l, p)
<1> HIDE DEF S
<1>2. /\ Query(S, n) \subseteq S /\ \A q \in Query(S, n) : n < q.sequence
      /\ \A r \in S : n < r.sequence =>
            \/ r \in Query(S, n)
            \/ Full(Query(S, n)) /\ \A q \in Query(S, n) : q.sequence < r.sequence
  BY <1>1, QueryReads DEF S
<1> QED
  BY <1>2 DEF ReadOK, S

\* The room moving on takes nothing from a read.
LEMMA ReadStays ==
    ASSUME NEW l \in Seq(LogEntry), NEW m \in Seq(LogEntry), Extends(l, m),
           NEW p \in Partitions, NEW n \in Nat, NEW began \in 0..Len(l), NEW records,
           ReadOK(StoredIn(l, p), records, n, began)
    PROVE  ReadOK(StoredIn(m, p), records, n, began)
<1>1. /\ StoredIn(l, p) \subseteq StoredIn(m, p)
      /\ \A r \in StoredIn(m, p) : r \in StoredIn(l, p) \/ Len(l) < r.sequence
      /\ Len(l) \in Nat
  BY LogGrowth
<1>2. \A r \in StoredIn(m, p) : r.sequence \in Nat
  BY StoredFacts
<1>3. \A q \in records : q.sequence \in Nat /\ q.sequence <= Len(l)
  BY StoredFacts DEF ReadOK
<1>4. ASSUME NEW r \in StoredIn(m, p), Len(l) < r.sequence
      PROVE  began < r.sequence /\ \A q \in records : q.sequence < r.sequence
  BY <1>1, <1>2, <1>3, <1>4
<1> QED
  BY <1>1, <1>4 DEF ReadOK

\* The page: everything of a partition up to its last record released, and everything
\* committed before the page began up to the last record released at all.
LEMMA PageReleases ==
    ASSUME NEW l \in Seq(LogEntry), NEW after \in Cursor, NEW began \in 0..Len(l),
           NEW got, DOMAIN got = Readable,
           \A p \in Readable : ReadOK(StoredIn(l, p), got[p], after[p], began)
    PROVE  LET records == AssembleTailPage(got, after).records
           IN  /\ IsFiniteSet(records) /\ records \subseteq KnownIn(l)
               /\ \A r \in records : r.partition \in Readable /\ after[r.partition] < r.sequence
               /\ \A p \in Readable : \A r \in StoredIn(l, p) : \A m \in records :
                     /\ after[p] < r.sequence /\ r.sequence <= m.sequence
                     /\ m.partition = p \/ r.sequence <= began
                     => r \in records
<1> DEFINE records == AssembleTailPage(got, after).records
           all == UNION {got[p] : p \in DOMAIN got}
<1>1. records = {r \in all : r.sequence > after[r.partition] /\ BelowWatermark(got, r)}
  BY DEF AssembleTailPage
<1>2. Readable \subseteq Partitions
  BY ReadablePartitions
<1>3. ASSUME NEW p \in Readable, NEW r \in got[p]
      PROVE  r \in StoredIn(l, p) /\ r.partition = p /\ r.sequence \in 1..Len(l)
  BY <1>2, <1>3, StoredFacts DEF ReadOK
<1>4. \A r \in all : /\ r.partition \in Readable /\ r \in got[r.partition]
                     /\ r \in StoredIn(l, r.partition) /\ r.sequence \in Nat
  BY <1>3
<1>5. records \subseteq KnownIn(l) /\ IsFiniteSet(records)
  <2>1. ASSUME NEW r \in records
        PROVE  /\ r \in KnownIn(l)
               /\ \/ r \in StoredIn(l, "gm") \/ r \in StoredIn(l, "member")
                  \/ r \in StoredIn(l, "shared")
    BY <1>1, <1>2, <1>4, StoredFacts DEF Partitions
  <2>2. /\ IsFiniteSet(StoredIn(l, "gm")) /\ IsFiniteSet(StoredIn(l, "member"))
        /\ IsFiniteSet(StoredIn(l, "shared"))
    BY StoredFacts DEF Partitions
  <2>3. IsFiniteSet(StoredIn(l, "gm") \cup StoredIn(l, "member"))
    BY <2>2, FS_Union
  <2>4. IsFiniteSet((StoredIn(l, "gm") \cup StoredIn(l, "member")) \cup StoredIn(l, "shared"))
    BY <2>2, <2>3, FS_Union
  <2> QED
    BY <2>1, <2>4, FS_Subset
<1>6. \A r \in records : r.partition \in Readable /\ after[r.partition] < r.sequence
  <2>1. ASSUME NEW r \in records PROVE after[r.partition] < r.sequence
    <3>1. r.sequence > after[r.partition] /\ r.sequence \in Nat /\ after[r.partition] \in Nat
      BY <1>1, <1>2, <1>4 DEF Cursor
    <3> QED
      BY <3>1
  <2> QED
    BY <1>1, <1>4, <2>1
<1>7. ASSUME NEW p \in Readable, NEW r \in StoredIn(l, p), NEW m \in records,
             after[p] < r.sequence, r.sequence <= m.sequence,
             m.partition = p \/ r.sequence <= began
      PROVE  r \in records
  <2>1. /\ r.sequence \in Nat /\ m.sequence \in Nat /\ after[p] \in Nat /\ r.partition = p
        /\ m \in all /\ BelowWatermark(got, m) /\ m \in got[m.partition]
        /\ began \in Nat
    BY <1>1, <1>2, <1>4, StoredFacts DEF Cursor
  <2>2. BelowWatermark(got, r)
    <3> SUFFICES ASSUME NEW o \in DOMAIN got, Full(got[o])
                 PROVE  \E last \in got[o] : r.sequence <= last.sequence
      BY DEF BelowWatermark
    <3>1. PICK last \in got[o] : m.sequence <= last.sequence
      BY <2>1 DEF BelowWatermark
    <3>2. last.sequence \in Nat
      BY <1>3
    <3> QED
      BY <1>7, <2>1, <3>1, <3>2
  <2>3. r \in got[p]
    <3> SUFFICES ASSUME r \notin got[p] PROVE FALSE
      OBVIOUS
    <3>1. /\ Full(got[p]) \/ began < r.sequence
          /\ \A q \in got[p] : q.sequence < r.sequence
      BY <1>7 DEF ReadOK
    <3>2. \A q \in got[p] : q.sequence \in Nat
      BY <1>3
    <3>3. m \notin got[p]
      BY <1>7, <2>1, <3>1
    <3>4. Full(got[p])
      BY <1>7, <2>1, <3>1, <3>3
    <3>5. PICK last \in got[p] : m.sequence <= last.sequence
      BY <2>1, <3>4 DEF BelowWatermark
    <3> QED
      BY <1>7, <2>1, <3>1, <3>2, <3>5
  <2>4. r \in all
    BY <2>3
  <2> QED
    BY <1>1, <1>7, <2>1, <2>2, <2>4
<1> QED
  BY <1>5, <1>6, <1>7

-----------------------------------------------------------------------------
(* The inductive invariant of any number of tabs.                          *)

SessionFits(sn, l) ==
    /\ SessionOK(sn, KnownIn(l)) /\ CursorBehind(sn)
    /\ \A p \in Partitions : FetchCursor(sn)[p] \in 0..Len(l)

LedgerFits(data, l) ==
    data \in Ledger /\ \A p \in Partitions : data.cursor[p] \in 0..Len(l)

IsPage(pg) == DOMAIN pg = {"after", "began", "got", "left"}

HeadsFit(got, l) ==
    DOMAIN got \subseteq Readable /\ \A p \in DOMAIN got : got[p] \subseteq StoredIn(l, p)

PageFits(pg, after, l) ==
    /\ pg.after = after /\ pg.began \in 0..Len(l) /\ DOMAIN pg.got \subseteq Readable
    /\ \A p \in DOMAIN pg.got : ReadOK(StoredIn(l, p), pg.got[p], after[p], pg.began)

GapFree(t) ==
    session[t] # None =>
        \A s \in DOMAIN log : \A p \in log[s].copies :
            s <= paged[t] => s <= FetchCursor(session[t])[p]

TabOK(t) ==
    /\ phase[t] \in {"idle", "head", "page"}
    /\ IsPage(page[t]) /\ published[t] \in Seq(Entry) /\ recovered[t] \subseteq Nat \ {0}
    /\ session[t] # None => SessionFits(session[t], log)
    /\ session[t] = None => paged[t] = 0
    /\ paged[t] \in 0..Len(log)
    /\ GapFree(t)
    /\ phase[t] = "idle" => page[t] = NoPage
    /\ phase[t] = "head" => session[t] = None /\ HeadsFit(page[t].got, log)
    /\ phase[t] = "page" =>
          session[t] # None /\ PageFits(page[t], FetchCursor(session[t]), log)

\* Every tab is where it is in the log.
SyncInv ==
    /\ log \in Seq(LogEntry)
    /\ saved.state = "applied" => saved.first \in Nat \ {0}
    /\ ledger # None => LedgerFits(ledger, log)
    /\ \A f \in {phase, page, session, recovered, published, paged} : DOMAIN f = Tabs
    /\ \A t \in Tabs : TabOK(t)

LEMMA FitsStay ==
    ASSUME NEW l \in Seq(LogEntry), NEW m \in Seq(LogEntry), Extends(l, m)
    PROVE  /\ \A sn : SessionFits(sn, l) => SessionFits(sn, m)
           /\ \A data : LedgerFits(data, l) => LedgerFits(data, m)
           /\ \A got : HeadsFit(got, l) => HeadsFit(got, m)
           /\ \A pg : \A after \in Cursor : PageFits(pg, after, l) => PageFits(pg, after, m)
<1>1. /\ KnownIn(l) \subseteq KnownIn(m) /\ Len(l) \in Nat /\ Len(m) \in Nat
      /\ Len(l) <= Len(m) /\ \A p \in Partitions : StoredIn(l, p) \subseteq StoredIn(m, p)
  BY LogGrowth
<1>2. \A n \in 0..Len(l) : n \in 0..Len(m)
  BY <1>1
<1>3. \A sn : SessionFits(sn, l) => SessionFits(sn, m)
  BY <1>1, <1>2 DEF SessionFits, SessionOK, EntryOK
<1>4. \A data : LedgerFits(data, l) => LedgerFits(data, m)
  BY <1>2 DEF LedgerFits
<1>5. \A got : HeadsFit(got, l) => HeadsFit(got, m)
  BY <1>1, ReadablePartitions DEF HeadsFit
<1>6. ASSUME NEW pg, NEW after \in Cursor, PageFits(pg, after, l)
      PROVE  PageFits(pg, after, m)
  <2>1. ASSUME NEW p \in DOMAIN pg.got
        PROVE  ReadOK(StoredIn(m, p), pg.got[p], after[p], pg.began)
    <3>1. p \in Partitions /\ after[p] \in Nat /\ pg.began \in 0..Len(l)
      BY <1>6, ReadablePartitions DEF PageFits, Cursor
    <3>2. ReadOK(StoredIn(l, p), pg.got[p], after[p], pg.began)
      BY <1>6 DEF PageFits
    <3> QED
      BY <3>1, <3>2, ReadStays
  <2> QED
    BY <1>2, <1>6, <2>1 DEF PageFits
<1> QED
  BY <1>3, <1>4, <1>5, <1>6

LEMMA FetchCursorType ==
    ASSUME NEW K, NEW sn, SessionOK(sn, K)
    PROVE  sn # None /\ FetchCursor(sn) \in Cursor
BY NoneAssumption DEF SessionOK, Session, FetchCursor, Cursor, Greater

\* The room moves on, a tab stays.
LEMMA TabStays ==
    ASSUME SyncInv, NEW t \in Tabs, log' \in Seq(LogEntry), Extends(log, log'),
           phase'[t] = phase[t], page'[t] = page[t], session'[t] = session[t],
           recovered'[t] = recovered[t], published'[t] = published[t], paged'[t] = paged[t]
    PROVE  TabOK(t)'
<1>1. TabOK(t) /\ log \in Seq(LogEntry)
  BY DEF SyncInv
<1>2. Len(log) \in Nat /\ Len(log') \in Nat /\ Len(log) <= Len(log')
  BY <1>1, LogGrowth
<1>3. session[t] # None => SessionFits(session[t], log') /\ FetchCursor(session[t]) \in Cursor
  BY <1>1, FitsStay, FetchCursorType DEF TabOK, SessionFits
<1>4. phase[t] = "head" => HeadsFit(page[t].got, log')
  BY <1>1, FitsStay DEF TabOK
<1>5. phase[t] = "page" => PageFits(page[t], FetchCursor(session[t]), log')
  BY <1>1, <1>3, FitsStay DEF TabOK
<1>6. paged[t] \in 0..Len(log')
  BY <1>1, <1>2 DEF TabOK
<1>7. FetchCursor(session[t])' = FetchCursor(session[t])
  BY DEF FetchCursor
<1>8. GapFree(t)'
  <2>1. \A s \in DOMAIN log' : s <= paged[t] => s \in DOMAIN log /\ log'[s] = log[s]
    BY <1>1, <1>2 DEF TabOK, Extends
  <2> QED
    BY <1>1, <1>7, <2>1 DEF TabOK, GapFree
<1> QED
  BY <1>1, <1>3, <1>4, <1>5, <1>6, <1>7, <1>8 DEF TabOK, NoPage, EmptyCursor

LEMMA InitSyncInv == Init => SyncInv
<1> SUFFICES ASSUME Init PROVE SyncInv
  OBVIOUS
<1>1. log \in Seq(LogEntry) /\ saved.state # "applied" /\ ledger = None /\ Len(log) = 0
  BY DEF Init, NoCommand
<1>2. \A f \in {phase, page, session, recovered, published, paged} : DOMAIN f = Tabs
  BY DEF Init
<1>3. ASSUME NEW t \in Tabs PROVE TabOK(t)
  BY <1>1 DEF Init, TabOK, GapFree, NoPage, IsPage
<1> QED
  BY <1>1, <1>2, <1>3 DEF SyncInv

\* The log stays or gains events.
LogStep ==
    /\ log' \in Seq(LogEntry) /\ Extends(log, log')

LEMMA LogStays == log \in Seq(LogEntry) /\ log' = log => LogStep
BY DEF LogStep, Extends

\* A step of one tab.
LEMMA OneTabSteps ==
    ASSUME SyncInv, NEW t \in Tabs, LogStep,
           saved'.state = "applied" => saved'.first \in Nat \ {0},
           ledger' # None => LedgerFits(ledger', log'),
           \A f \in {phase', page', session', recovered', published', paged'} : DOMAIN f = Tabs,
           \A u \in Tabs \ {t} :
              /\ phase'[u] = phase[u] /\ page'[u] = page[u] /\ session'[u] = session[u]
              /\ recovered'[u] = recovered[u] /\ published'[u] = published[u]
              /\ paged'[u] = paged[u],
           TabOK(t)'
    PROVE  SyncInv'
<1>1. ASSUME NEW u \in Tabs, u # t PROVE TabOK(u)'
  BY <1>1, TabStays DEF LogStep
<1>2. \A u \in Tabs : TabOK(u)'
  BY <1>1
<1> QED
  BY <1>2 DEF SyncInv, LogStep

LEMMA RoomSteps ==
    ASSUME SyncInv, LogStep, UNCHANGED <<phase, page, session, recovered, published, paged, ledger>>,
           saved'.state = "applied" => saved'.first \in Nat \ {0}
    PROVE  SyncInv'
<1>1. \A u \in Tabs : TabOK(u)'
  BY TabStays DEF LogStep
<1>2. ledger # None => LedgerFits(ledger, log')
  BY FitsStay DEF SyncInv, LogStep
<1> QED
  BY <1>1, <1>2 DEF SyncInv, LogStep

\* A merged ledger keeps the larger cursors, and acknowledges what one of the two did.
LEMMA MergeKeeps ==
    ASSUME NEW a \in Ledger, NEW b \in Ledger
    PROVE  LET data == MergeLedgerData(a, b)
           IN  /\ data \in Ledger
               /\ \A p \in Partitions : data.cursor[p] = Greater(a.cursor[p], b.cursor[p])
               /\ Range(data.acknowledged) \subseteq Range(a.acknowledged) \cup Range(b.acknowledged)
<1>1. /\ a.acknowledged \in Seq(EventIds) /\ b.acknowledged \in Seq(EventIds)
      /\ a.cursor \in Cursor /\ b.cursor \in Cursor
  BY DEF Ledger
<1> DEFINE more == Only(b.acknowledged, Range(b.acknowledged) \ Range(a.acknowledged))
           all == a.acknowledged \o more
<1>2. more \in Seq(EventIds) /\ Range(more) \subseteq Range(b.acknowledged)
  BY <1>1, Selected
<1>3. all \in Seq(EventIds) /\ Range(all) = Range(a.acknowledged) \cup Range(more)
  <2> HIDE DEF more
  <2> QED
    BY <1>1, <1>2, ConcatRange
<1>4. /\ NewestOf(all, MaxAcknowledged) \in Seq(EventIds)
      /\ Range(NewestOf(all, MaxAcknowledged)) \subseteq Range(all)
  <2> HIDE DEF all
  <2> QED
    BY <1>3, Newest, LimitsAssumption
<1>5. MergeAcknowledgedIds(a.acknowledged, b.acknowledged) = NewestOf(all, MaxAcknowledged)
  BY DEF MergeAcknowledgedIds
<1>6. /\ MergeAcknowledgedIds(a.acknowledged, b.acknowledged) \in Seq(EventIds)
      /\ Range(MergeAcknowledgedIds(a.acknowledged, b.acknowledged))
           \subseteq Range(a.acknowledged) \cup Range(b.acknowledged)
  <2> HIDE DEF all, more
  <2> QED
    BY <1>2, <1>3, <1>4, <1>5
<1>7. [p \in Partitions |-> Greater(a.cursor[p], b.cursor[p])] \in Cursor
  BY <1>1 DEF Cursor, Greater
<1> QED
  BY <1>6, <1>7 DEF MergeLedgerData, Ledger

\* What is saved of a session, by itself or merged with what others saved.
LEMMA SavedFits ==
    ASSUME NEW l \in Seq(LogEntry), NEW a, a = None \/ LedgerFits(a, l),
           NEW b \in Ledger, \A p \in Partitions : b.cursor[p] \in 0..Len(l)
    PROVE  LET data == MergeLedgerData(IF a = None THEN EmptyLedgerData(EmptyCursor) ELSE a, b)
           IN  LedgerFits(data, l) /\ data # None
<1> DEFINE c == IF a = None THEN EmptyLedgerData(EmptyCursor) ELSE a
<1>1. c \in Ledger /\ \A p \in Partitions : c.cursor[p] \in 0..Len(l)
  <2>1. EmptyCursor \in Cursor /\ <<>> \in Seq(EventIds) /\ Len(l) \in Nat
    BY DEF EmptyCursor, Cursor
  <2>2. EmptyLedgerData(EmptyCursor) \in Ledger
    BY <2>1 DEF EmptyLedgerData, Ledger
  <2>3. \A p \in Partitions : EmptyLedgerData(EmptyCursor).cursor[p] \in 0..Len(l)
    BY <2>1 DEF EmptyLedgerData, EmptyCursor
  <2> QED
    BY <2>2, <2>3 DEF LedgerFits
<1> HIDE DEF c
<1>2. /\ MergeLedgerData(c, b) \in Ledger
      /\ \A p \in Partitions : MergeLedgerData(c, b).cursor[p] = Greater(c.cursor[p], b.cursor[p])
  BY <1>1, MergeKeeps
<1>3. \A p \in Partitions : Greater(c.cursor[p], b.cursor[p]) \in 0..Len(l)
  BY <1>1 DEF Greater
<1> QED
  BY <1>2, <1>3, NoneAssumption DEF LedgerFits, c

LEMMA ReconcileSteps ==
    ASSUME SyncInv, NEW t \in Tabs, Reconcile(t)
    PROVE  /\ LogStep
           /\ saved'.state = "applied" => saved'.first \in Nat \ {0}
           /\ DOMAIN recovered' = Tabs /\ \A u \in Tabs \ {t} : recovered'[u] = recovered[u]
           /\ recovered'[t] \subseteq Nat \ {0}
<1>1. /\ log \in Seq(LogEntry) /\ DOMAIN recovered = Tabs /\ recovered[t] \subseteq Nat \ {0}
      /\ saved.state = "applied" => saved.first \in Nat \ {0}
  BY DEF SyncInv, TabOK
<1>2. /\ RecoveredSoFar(t, {}) \subseteq Nat \ {0}
      /\ saved.state = "applied" => RecoveredSoFar(t, {saved.first}) \subseteq Nat \ {0}
  BY <1>1 DEF RecoveredSoFar
<1>3. LogStep
  <2>1. log' = log \/ \E b \in Batches : log' = Committed(b)
    BY DEF Reconcile
  <2> QED
    BY <1>1, <2>1, CommitAppends, LogStays DEF LogStep
<1>4. saved' = saved \/ saved' = NoCommand
  BY DEF Reconcile
<1>5. saved'.state = "applied" => saved'.first \in Nat \ {0}
  BY <1>1, <1>4 DEF NoCommand
<1>6. \/ recovered' = [recovered EXCEPT ![t] = RecoveredSoFar(t, {})]
      \/ /\ saved.state = "applied"
         /\ recovered' = [recovered EXCEPT ![t] = RecoveredSoFar(t, {saved.first})]
  BY DEF Reconcile
<1> QED
  BY <1>1, <1>2, <1>3, <1>5, <1>6

\* A session opened on a ledger that fits.
LEMMA OpenedFits ==
    ASSUME NEW l \in Seq(LogEntry), NEW data, LedgerFits(data, l)
    PROVE  /\ SessionFits(OpenSession(data), l) /\ FetchCursor(OpenSession(data)) = data.cursor
           /\ data.cursor \in Cursor
<1>1. data \in Ledger /\ data.cursor \in Cursor /\ \A p \in Partitions : data.cursor[p] \in 0..Len(l)
  BY DEF LedgerFits, Ledger
<1>2. <<>> \in Seq(Entry) /\ EmptyCursor \in Cursor /\ Range(<<>>) = {}
  BY DEF EmptyCursor, Cursor, Range
<1> DEFINE sn == OpenSession(data)
<1>3. /\ sn \in Session /\ sn.pending = <<>> /\ sn.cursor = data.cursor
      /\ sn.highest = EmptyCursor
  BY <1>1, <1>2 DEF OpenSession, Session, Ledger
<1> HIDE DEF sn
<1>4. FetchCursor(sn) = data.cursor
  <2>1. \A p \in Partitions : Greater(sn.cursor[p], sn.highest[p]) = data.cursor[p]
    BY <1>1, <1>3 DEF EmptyCursor, Greater, Cursor
  <2>2. data.cursor = [p \in Partitions |-> data.cursor[p]]
    BY <1>1 DEF Cursor
  <2> QED
    BY <2>1, <2>2 DEF FetchCursor
<1>5. SessionOK(sn, KnownIn(l)) /\ CursorBehind(sn)
  BY <1>2, <1>3 DEF SessionOK, CursorBehind, OneEntryEach
<1> QED
  BY <1>1, <1>4, <1>5 DEF SessionFits, sn

\* A page about to be read.
LEMMA FreshPageFits ==
    ASSUME NEW l \in Seq(LogEntry), NEW after, NEW pg, IsPage(pg), pg.after = after,
           pg.began = Len(l), pg.got = [p \in {} |-> {}]
    PROVE  PageFits(pg, after, l)
<1>1. Len(l) \in Nat /\ DOMAIN pg.got = {}
  OBVIOUS
<1> QED
  BY <1>1 DEF PageFits

LEMMA StartSyncSteps ==
    ASSUME SyncInv, NEW t \in Tabs, StartSync(t)
    PROVE  SyncInv'
<1>1. /\ LogStep /\ (saved'.state = "applied" => saved'.first \in Nat \ {0})
      /\ DOMAIN recovered' = Tabs /\ \A u \in Tabs \ {t} : recovered'[u] = recovered[u]
      /\ recovered'[t] \subseteq Nat \ {0}
  BY ReconcileSteps DEF StartSync
<1>2. /\ TabOK(t) /\ log \in Seq(LogEntry)
      /\ log' \in Seq(LogEntry) /\ Extends(log, log')
      /\ \A f \in {phase, page, session, recovered, published, paged} : DOMAIN f = Tabs
  BY <1>1 DEF SyncInv, LogStep
<1>3. ledger' = ledger /\ (ledger # None => LedgerFits(ledger, log'))
  BY <1>2, FitsStay DEF SyncInv, StartSync
<1>4. paged[t] \in 0..Len(log') /\ paged' = paged /\ published' = published /\ phase[t] = "idle"
  BY <1>2, LogGrowth DEF TabOK, StartSync
<1>5. CASE session[t] = None /\ ledger = None
  <2>1. phase' = [phase EXCEPT ![t] = "head"] /\ page' = page /\ session' = session
    BY <1>5 DEF StartSync
  <2>2. HeadsFit(page[t].got, log')
    BY <1>2, <1>4 DEF TabOK, NoPage, HeadsFit
  <2>3. TabOK(t)'
    BY <1>1, <1>2, <1>4, <1>5, <2>1, <2>2 DEF TabOK, GapFree
  <2> QED
    BY <1>1, <1>2, <1>3, <1>4, <2>1, <2>3, OneTabSteps
<1>6. CASE ~(session[t] = None /\ ledger = None)
  <2> DEFINE opened == IF session[t] = None THEN OpenSession(ledger) ELSE session[t]
             pg == [PageAfter(FetchCursor(opened), PagesPerSync) EXCEPT !.began = Len(log')]
  <2>1. /\ session' = [session EXCEPT ![t] = opened] /\ page' = [page EXCEPT ![t] = pg]
        /\ phase' = [phase EXCEPT ![t] = "page"]
    BY <1>6 DEF StartSync
  <2>2. SessionFits(opened, log')
    BY <1>2, <1>3, <1>6, FitsStay, OpenedFits DEF TabOK
  <2>3. opened # None /\ FetchCursor(opened) \in Cursor
    BY <2>2, FetchCursorType DEF SessionFits
  <2>4. IsPage(pg) /\ PageFits(pg, FetchCursor(opened), log')
    <3>1. /\ IsPage(pg) /\ pg.after = FetchCursor(opened) /\ pg.began = Len(log')
          /\ pg.got = [p \in {} |-> {}]
      BY DEF PageAfter, IsPage
    <3> HIDE DEF pg
    <3> QED
      BY <1>2, <3>1, FreshPageFits
  <2>5. GapFree(t)'
    <3>1. CASE session[t] = None
      <4>1. paged[t] = 0
        BY <1>2, <3>1 DEF TabOK
      <4>2. \A s \in DOMAIN log' : ~(s <= 0)
        BY <1>2
      <4> QED
        BY <1>4, <4>1, <4>2 DEF GapFree
    <3>2. CASE session[t] # None
      <4>1. session'[t] = session[t]
        BY <1>2, <2>1, <3>2
      <4>2. \A s \in DOMAIN log' : s <= paged[t] => s \in DOMAIN log /\ log'[s] = log[s]
        BY <1>2 DEF TabOK, Extends
      <4>3. FetchCursor(session[t])' = FetchCursor(session[t])
        BY <4>1 DEF FetchCursor
      <4> QED
        BY <1>2, <1>4, <3>2, <4>2, <4>3 DEF TabOK, GapFree
    <3> QED
      BY <3>1, <3>2
  <2>6. /\ session'[t] = opened /\ page'[t] = pg /\ phase'[t] = "page"
        /\ FetchCursor(session[t])' = FetchCursor(opened)
    BY <1>2, <2>1 DEF FetchCursor
  <2> HIDE DEF opened, pg
  <2>7. TabOK(t)'
    BY <1>1, <1>2, <1>4, <2>2, <2>3, <2>4, <2>5, <2>6 DEF TabOK
  <2> QED
    BY <1>1, <1>2, <1>3, <1>4, <2>1, <2>7, OneTabSteps
<1> QED
  BY <1>5, <1>6

LEMMA CommitSteps ==
    ASSUME SyncInv, Commit \/ ApplySaved
    PROVE  SyncInv'
<1>1. PICK b \in Batches : log' = Committed(b)
  BY DEF Commit, ApplySaved
<1>2. LogStep /\ Len(log) \in Nat
  BY <1>1, CommitAppends, LogStays DEF LogStep, SyncInv
<1>3. saved'.state = "applied" => saved'.first \in Nat \ {0}
  <2>1. CASE Commit
    BY <2>1 DEF SyncInv, Commit
  <2>2. CASE ApplySaved
    BY <1>2, <2>2 DEF ApplySaved
  <2> QED
    BY <2>1, <2>2
<1>4. UNCHANGED <<phase, page, session, recovered, published, paged, ledger>>
  BY DEF Commit, ApplySaved, tabVars
<1> QED
  BY <1>2, <1>3, <1>4, RoomSteps

\* Steps that leave the log and the tabs' reading alone.
LEMMA QuietSteps ==
    ASSUME SyncInv, UNCHANGED <<log, saved, phase, page, session, recovered, published, paged, ledger>>
    PROVE  SyncInv'
<1>1. LogStep
  BY LogStays DEF SyncInv
<1> QED
  BY <1>1, RoomSteps DEF SyncInv

\* A partition answers: the rest of the tab is as it was.
LEMMA ReadSteps ==
    ASSUME SyncInv, NEW t \in Tabs, NEW p \in Readable, ReadHead(t, p) \/ ReadPartition(t, p)
    PROVE  SyncInv'
<1>1. /\ TabOK(t) /\ log \in Seq(LogEntry) /\ IsPage(page[t]) /\ t \in DOMAIN page
      /\ \A f \in {phase, page, session, recovered, published, paged} : DOMAIN f = Tabs
  BY DEF SyncInv, TabOK
<1>2. UNCHANGED <<log, saved, ledger, phase, session, recovered, published, paged>>
  BY DEF ReadHead, ReadPartition
<1>3. LogStep /\ (saved'.state = "applied" => saved'.first \in Nat \ {0})
      /\ (ledger' # None => LedgerFits(ledger', log'))
  BY <1>1, <1>2, LogStays DEF SyncInv
<1>4. p \in Partitions /\ \A q : Stored(q) = StoredIn(log, q)
  BY ReadablePartitions DEF Stored, StoredIn
<1>5. GapFree(t)'
  BY <1>1, <1>2 DEF TabOK, GapFree, FetchCursor
<1>6. CASE ReadHead(t, p)
  <2> DEFINE heads == {r \in Stored(p) : \A q \in Stored(p) : q.sequence <= r.sequence}
             got == Answered(page[t].got, p, heads)
  <2>1. page' = [page EXCEPT ![t].got = got] /\ phase[t] = "head"
    BY <1>6 DEF ReadHead
  <2>2. /\ page'[t].got = got /\ DOMAIN page' = Tabs /\ \A u \in Tabs \ {t} : page'[u] = page[u]
        /\ IsPage(page'[t])
    BY <1>1, <2>1 DEF IsPage
  <2>3. HeadsFit(got, log)
    <3>1. heads \subseteq StoredIn(log, p) /\ HeadsFit(page[t].got, log)
      BY <1>1, <1>4, <2>1 DEF TabOK
    <3>2. /\ DOMAIN got = DOMAIN page[t].got \cup {p} /\ got[p] = heads
          /\ \A q \in DOMAIN page[t].got \ {p} : got[q] = page[t].got[q]
      <4> HIDE DEF heads
      <4> QED
        BY DEF Answered
    <3> HIDE DEF heads, got
    <3> QED
      BY <3>1, <3>2 DEF HeadsFit
  <2> HIDE DEF got
  <2>4. TabOK(t)'
    BY <1>1, <1>2, <1>5, <2>1, <2>2, <2>3 DEF TabOK
  <2> QED
    BY <1>1, <1>2, <1>3, <2>2, <2>4, OneTabSteps
<1>7. CASE ReadPartition(t, p)
  <2> DEFINE after == page[t].after
             records == Query(Stored(p), after[p])
             got == Answered(page[t].got, p, records)
  <2>1. page' = [page EXCEPT ![t].got = got] /\ phase[t] = "page" /\ p \notin DOMAIN page[t].got
    BY <1>7 DEF ReadPartition
  <2>2. /\ page'[t].got = got /\ DOMAIN page' = Tabs /\ \A u \in Tabs \ {t} : page'[u] = page[u]
        /\ IsPage(page'[t]) /\ page'[t].after = after /\ page'[t].began = page[t].began
    BY <1>1, <2>1 DEF IsPage
  <2>3. /\ session[t] # None /\ SessionOK(session[t], KnownIn(log))
        /\ PageFits(page[t], FetchCursor(session[t]), log)
    BY <1>1, <2>1 DEF TabOK, SessionFits
  <2>4. after = FetchCursor(session[t]) /\ after \in Cursor /\ after[p] \in Nat
    BY <1>4, <2>3, FetchCursorType DEF PageFits, Cursor
  <2>5. ReadOK(StoredIn(log, p), records, after[p], page[t].began)
    BY <1>1, <1>4, <2>4, QueryOK
  <2> HIDE DEF records, after
  <2>6. /\ DOMAIN got = DOMAIN page[t].got \cup {p} /\ got[p] = records
        /\ \A q \in DOMAIN page[t].got \ {p} : got[q] = page[t].got[q]
    BY DEF Answered
  <2> HIDE DEF got
  <2>7. PageFits(page'[t], FetchCursor(session[t]), log)
    BY <2>2, <2>3, <2>4, <2>5, <2>6 DEF PageFits
  <2>8. FetchCursor(session[t])' = FetchCursor(session[t])
    BY <1>2 DEF FetchCursor
  <2>9. TabOK(t)'
    BY <1>1, <1>2, <1>5, <2>1, <2>2, <2>7, <2>8 DEF TabOK
  <2> QED
    BY <1>1, <1>2, <1>3, <2>2, <2>9, OneTabSteps
<1> QED
  BY <1>6, <1>7

\* A pass that fails, and a refresh.
LEMMA EndSteps ==
    ASSUME SyncInv, NEW t \in Tabs, ReadFails(t) \/ Refresh(t)
    PROVE  SyncInv'
<1>1. /\ TabOK(t) /\ log \in Seq(LogEntry)
      /\ \A f \in {phase, page, session, recovered, published, paged} : DOMAIN f = Tabs
  BY DEF SyncInv
<1>2. /\ UNCHANGED <<log, saved, ledger>> /\ phase' = [phase EXCEPT ![t] = "idle"]
      /\ page' = [page EXCEPT ![t] = NoPage]
  BY DEF ReadFails, Refresh
<1>3. LogStep /\ (saved'.state = "applied" => saved'.first \in Nat \ {0})
      /\ (ledger' # None => LedgerFits(ledger', log'))
  BY <1>1, <1>2, LogStays DEF SyncInv
<1>4. IsPage(NoPage)
  BY DEF NoPage, IsPage
<1>5. CASE ReadFails(t)
  <2>1. UNCHANGED <<session, recovered, published, paged>>
    BY <1>5 DEF ReadFails
  <2>2. GapFree(t)'
    BY <1>1, <1>2, <2>1 DEF TabOK, GapFree, FetchCursor
  <2>3. TabOK(t)'
    BY <1>1, <1>2, <1>4, <2>1, <2>2 DEF TabOK, NoPage, EmptyCursor
  <2> QED
    BY <1>1, <1>2, <1>3, <2>1, <2>3, OneTabSteps
<1>6. CASE Refresh(t)
  <2>1. /\ session' = [session EXCEPT ![t] = None] /\ recovered' = [recovered EXCEPT ![t] = {}]
        /\ published' = [published EXCEPT ![t] = <<>>] /\ paged' = [paged EXCEPT ![t] = 0]
    BY <1>6 DEF Refresh
  <2>2. <<>> \in Seq(Entry) /\ 0 \in 0..Len(log)
    BY <1>1
  <2>3. TabOK(t)'
    BY <1>1, <1>2, <1>4, <2>1, <2>2 DEF TabOK, NoPage, EmptyCursor, GapFree
  <2> QED
    BY <1>1, <1>2, <1>3, <2>1, <2>3, OneTabSteps
<1> QED
  BY <1>5, <1>6

\* The heads of the partitions.
Heads(got) ==
    [p \in Partitions |->
        IF p \in Readable THEN Max({0} \cup {r.sequence : r \in got[p]}) ELSE 0]

LEMMA HeadsAre ==
    ASSUME NEW l \in Seq(LogEntry), NEW got, DOMAIN got = Readable, HeadsFit(got, l)
    PROVE  \A p \in Partitions : Heads(got)[p] \in 0..Len(l)
<1> SUFFICES ASSUME NEW p \in Partitions PROVE Heads(got)[p] \in 0..Len(l)
  OBVIOUS
<1>1. CASE p \notin Readable
  BY <1>1 DEF Heads
<1>2. CASE p \in Readable
  <2> DEFINE M == Max({0} \cup {r.sequence : r \in got[p]})
  <2>1. Heads(got)[p] = M
    BY <1>2 DEF Heads
  <2>2. got[p] \in SUBSET StoredIn(l, p)
    BY <1>2 DEF HeadsFit
  <2>3. IsFiniteSet(got[p]) /\ \A r \in got[p] : r.sequence \in 1..Len(l) /\ r.sequence \in Nat
    BY <2>2, StoredFacts, FS_Subset
  <2>4. M \in Nat /\ (M = 0 \/ \E r \in got[p] : r.sequence = M)
    BY <2>3, GreatestOf
  <2> HIDE DEF M
  <2> QED
    BY <2>1, <2>3, <2>4
<1> QED
  BY <1>1, <1>2

\* The ledger starts no later than the heads, and before every recovered command.
LEMMA BaselineBelow ==
    ASSUME NEW heads, NEW n \in Nat, \A p \in Partitions : heads[p] \in 0..n,
           NEW firsts \in SUBSET (Nat \ {0})
    PROVE  /\ Baseline(heads, firsts) \in Cursor
           /\ \A p \in Partitions :
                /\ Baseline(heads, firsts)[p] \in 0..n
                /\ \A f \in firsts : Baseline(heads, firsts)[p] < f
<1> SUFFICES ASSUME NEW p \in Partitions
             PROVE  /\ Baseline(heads, firsts)[p] \in 0..n
                    /\ \A f \in firsts : Baseline(heads, firsts)[p] < f
  BY DEF Cursor, Baseline
<1>1. CASE firsts = {}
  BY <1>1 DEF Baseline
<1>2. CASE firsts # {}
  <2> DEFINE f == Min(firsts)
             two == {heads[p], f - 1}
  <2>1. Baseline(heads, firsts)[p] = Min(two)
    BY <1>2 DEF Baseline
  <2>2. f \in Nat \ {0} /\ \A x \in firsts : x \in Nat /\ f <= x
    <3>1. firsts \in SUBSET Nat
      OBVIOUS
    <3> QED
      BY <1>2, <3>1, LeastNat
  <2> HIDE DEF f
  <2>3. two \in SUBSET Nat /\ two # {}
    BY <2>2
  <2>4. Min(two) \in two /\ \A x \in two : Min(two) <= x
    <3> HIDE DEF two
    <3> QED
      BY <2>3, LeastNat
  <2> DEFINE b == Min(two)
  <2>5. b \in Nat /\ b <= heads[p] /\ b <= f - 1
    BY <2>3, <2>4
  <2> HIDE DEF b
  <2> QED
    BY <2>1, <2>2, <2>5 DEF b
<1> QED
  BY <1>1, <1>2

LEMMA StartLedgerSteps ==
    ASSUME SyncInv, NEW t \in Tabs, StartLedger(t)
    PROVE  SyncInv' /\ ledger' # None
<1>1. /\ TabOK(t) /\ log \in Seq(LogEntry) /\ Len(log) \in Nat
      /\ \A f \in {phase, page, session, recovered, published, paged} : DOMAIN f = Tabs
  BY DEF SyncInv
<1> DEFINE got == page[t].got
           start == Baseline(Heads(got), recovered[t])
           initial == EmptyLedgerData(start)
           opened == OpenSession(initial)
           pg == PageAfter(FetchCursor(opened), PagesPerSync)
<1>2. /\ phase[t] = "head" /\ DOMAIN got = Readable
      /\ ledger' = MergeLedgerData(IF ledger = None THEN EmptyLedgerData(EmptyCursor) ELSE ledger,
                                   initial)
      /\ session' = [session EXCEPT ![t] = opened] /\ page' = [page EXCEPT ![t] = pg]
      /\ recovered' = [recovered EXCEPT ![t] = {}] /\ phase' = [phase EXCEPT ![t] = "page"]
      /\ UNCHANGED <<log, saved, published, paged>>
  BY DEF StartLedger, Heads
<1>3. /\ session[t] = None /\ HeadsFit(got, log) /\ recovered[t] \in SUBSET (Nat \ {0})
      /\ paged[t] = 0 /\ published[t] \in Seq(Entry)
  BY <1>1, <1>2 DEF TabOK
<1>4. start \in Cursor /\ \A p \in Partitions : start[p] \in 0..Len(log)
  <2>1. \A p \in Partitions : Heads(got)[p] \in 0..Len(log)
    BY <1>1, <1>2, <1>3, HeadsAre
  <2> HIDE DEF got
  <2> QED
    BY <1>1, <1>3, <2>1, BaselineBelow
<1> HIDE DEF start
<1>5. initial \in Ledger /\ initial.cursor = start
  <2>1. <<>> \in Seq(EventIds)
    OBVIOUS
  <2> QED
    BY <1>4, <2>1 DEF EmptyLedgerData, Ledger
<1> HIDE DEF initial
<1>6. LedgerFits(initial, log)
  BY <1>4, <1>5 DEF LedgerFits
<1>7. ledger' # None /\ LedgerFits(ledger', log)
  <2>1. ledger = None \/ LedgerFits(ledger, log)
    BY DEF SyncInv
  <2>2. \A p \in Partitions : initial.cursor[p] \in 0..Len(log)
    BY <1>4, <1>5
  <2> QED
    BY <1>1, <1>2, <1>5, <2>1, <2>2, SavedFits
<1>8. SessionFits(opened, log)
  BY <1>1, <1>6, OpenedFits
<1> HIDE DEF opened
<1>9. opened # None /\ FetchCursor(opened) \in Cursor
  BY <1>8, FetchCursorType DEF SessionFits
<1>10. IsPage(pg) /\ PageFits(pg, FetchCursor(opened), log)
  <2>1. /\ IsPage(pg) /\ pg.after = FetchCursor(opened) /\ pg.began = Len(log)
        /\ pg.got = [p \in {} |-> {}]
    BY DEF PageAfter, IsPage
  <2> HIDE DEF pg
  <2> QED
    BY <1>1, <2>1, FreshPageFits
<1> HIDE DEF pg
<1>11. /\ session'[t] = opened /\ page'[t] = pg /\ phase'[t] = "page"
       /\ recovered'[t] = {} /\ paged'[t] = 0 /\ published'[t] = published[t] /\ log' = log
       /\ FetchCursor(session[t])' = FetchCursor(opened)
  BY <1>1, <1>2, <1>3 DEF FetchCursor
<1>12. GapFree(t)'
  <2>1. \A s \in DOMAIN log : ~(s <= 0)
    BY <1>1
  <2> QED
    BY <1>11, <2>1 DEF GapFree
<1>13. TabOK(t)'
  BY <1>1, <1>3, <1>8, <1>9, <1>10, <1>11, <1>12 DEF TabOK
<1>14. LogStep /\ (saved'.state = "applied" => saved'.first \in Nat \ {0})
  BY <1>1, <1>2, LogStays DEF SyncInv
<1> QED
  BY <1>1, <1>2, <1>7, <1>11, <1>13, <1>14, OneTabSteps

\* What is published are the entries that wait.
LEMMA PendingIs ==
    ASSUME NEW K, Truthful(K), NEW sn, SessionOK(sn, K)
    PROVE  Pending(sn) \in Seq(Entry) /\ Range(Pending(sn)) = Range(sn.pending)
<1> DEFINE all == Range(sn.pending)
<1>1. all \subseteq Entry /\ IsFiniteSet(all)
  BY InRange DEF SessionOK, Session
<1>2. \A e \in all : e.sequence \in Nat
  BY <1>1 DEF Entry
<1>3. \A d, e \in all : d.sequence = e.sequence => d = e
  BY SequencesApart
<1>4. InOrder(all) \in Seq(all) /\ Range(InOrder(all)) = all
  <2> HIDE DEF all
  <2> QED
    BY <1>1, <1>2, <1>3, Ordered
<1>5. Pending(sn) = InOrder(all)
  BY DEF Pending
<1> HIDE DEF all
<1>6. InOrder(all) \in Seq(Entry)
  BY <1>1, <1>4
<1> QED
  BY <1>4, <1>5, <1>6 DEF all

\* What is saved fits, and is never lost.
LEMMA PersistFits ==
    ASSUME log \in Seq(LogEntry), ledger # None => LedgerFits(ledger, log),
           NEW old, NEW new, SessionFits(new, log)
    PROVE  LET data == Persist(old, new)
           IN  /\ data # None => LedgerFits(data, log)
               /\ ledger # None => data # None
               /\ data = ledger \/
                     data = MergeLedgerData(
                              IF ledger = None THEN EmptyLedgerData(EmptyCursor) ELSE ledger,
                              LedgerData(new))
               /\ LedgerData(new) \in Ledger
<1> DEFINE b == LedgerData(new)
<1>1. new \in Session /\ new.cursor \in Cursor /\ new.highest \in Cursor
  BY DEF SessionFits, SessionOK, Session
<1>2. b \in Ledger /\ b.cursor = new.cursor
  BY <1>1 DEF LedgerData, Ledger, Session
<1>3. ASSUME NEW p \in Partitions PROVE b.cursor[p] \in 0..Len(log)
  <2>1. FetchCursor(new)[p] \in 0..Len(log)
    BY DEF SessionFits
  <2>2. FetchCursor(new)[p] = Greater(new.cursor[p], new.highest[p])
    BY DEF FetchCursor
  <2>3. new.cursor[p] \in Nat /\ new.highest[p] \in Nat /\ Len(log) \in Nat
    BY <1>1 DEF Cursor
  <2> QED
    BY <1>2, <2>1, <2>2, <2>3 DEF Greater
<1>4. b = LedgerData(new)
  OBVIOUS
<1> HIDE DEF b
<1> DEFINE merged == MergeLedgerData(
                       IF ledger = None THEN EmptyLedgerData(EmptyCursor) ELSE ledger, b)
<1>5. LedgerFits(merged, log) /\ merged # None
  <2>1. ledger = None \/ LedgerFits(ledger, log)
    OBVIOUS
  <2> QED
    BY <1>2, <1>3, <2>1, SavedFits
<1>6. Persist(old, new) = ledger \/ Persist(old, new) = merged
  BY <1>4 DEF Persist
<1> QED
  BY <1>2, <1>4, <1>5, <1>6

Released(t) == AssembleTailPage(page[t].got, page[t].after).records

\* A page that has arrived whole, in a session that fits.
LEMMA PageIngested ==
    ASSUME SyncInv, NEW t \in Tabs, phase[t] = "page", DOMAIN page[t].got = Readable
    PROVE  LET old == session[t]
               new == Ingest(old, Released(t))
           IN  /\ SessionFits(old, log) /\ SessionFits(new, log)
               /\ Truthful(KnownIn(log)) /\ IsFiniteSet(Released(t)) /\ Released(t) \subseteq KnownIn(log)
               /\ FetchCursor(old) \in Cursor /\ FetchCursor(new) \in Cursor
               /\ page[t].began \in 0..Len(log) /\ Len(log) \in Nat
               /\ \A r \in Released(t) : /\ r.partition \in Readable
                                     /\ FetchCursor(old)[r.partition] < r.sequence
               /\ \A p \in Readable : \A r \in StoredIn(log, p) : \A m \in Released(t) :
                     /\ FetchCursor(old)[p] < r.sequence /\ r.sequence <= m.sequence
                     /\ m.partition = p \/ r.sequence <= page[t].began
                     => r \in Released(t)
<1> DEFINE old == session[t]
           records == Released(t)
           new == Ingest(old, records)
           after == FetchCursor(old)
<1>1. /\ TabOK(t) /\ log \in Seq(LogEntry) /\ Len(log) \in Nat
  BY DEF SyncInv
<1>2. SessionFits(old, log) /\ PageFits(page[t], after, log)
  BY <1>1 DEF TabOK
<1>3. Truthful(KnownIn(log)) /\ after \in Cursor /\ page[t].after = after
      /\ page[t].began \in 0..Len(log)
  BY <1>1, <1>2, KnownFacts, FetchCursorType DEF SessionFits, PageFits
<1>4. \A p \in Readable : ReadOK(StoredIn(log, p), page[t].got[p], after[p], page[t].began)
  BY <1>2 DEF PageFits
<1>5. records = AssembleTailPage(page[t].got, after).records
  BY <1>3 DEF Released
<1> HIDE DEF records
<1>6. /\ IsFiniteSet(records) /\ records \subseteq KnownIn(log)
      /\ \A r \in records : r.partition \in Readable /\ after[r.partition] < r.sequence
      /\ \A p \in Readable : \A r \in StoredIn(log, p) : \A m \in records :
            /\ after[p] < r.sequence /\ r.sequence <= m.sequence
            /\ m.partition = p \/ r.sequence <= page[t].began
            => r \in records
  <2> HIDE DEF after
  <2> QED
    BY <1>1, <1>3, <1>4, <1>5, PageReleases
<1>7. /\ SessionOK(new, KnownIn(log)) /\ CursorBehind(new)
      /\ \A p \in Partitions : \/ FetchCursor(new)[p] = FetchCursor(old)[p]
                               \/ \E r \in records : /\ r.partition = p
                                                     /\ r.sequence = FetchCursor(new)[p]
  <2> HIDE DEF old
  <2> QED
    BY <1>2, <1>3, <1>6, IngestKeeps DEF SessionFits
<1>8. ASSUME NEW p \in Partitions PROVE FetchCursor(new)[p] \in 0..Len(log)
  <2>1. CASE FetchCursor(new)[p] = FetchCursor(old)[p]
    BY <1>2, <2>1 DEF SessionFits
  <2>2. ASSUME NEW r \in records, r.sequence = FetchCursor(new)[p]
        PROVE  FetchCursor(new)[p] \in 0..Len(log)
    <3>1. r.sequence \in 1..Len(log)
      BY <1>1, <1>6, KnownFacts
    <3> QED
      BY <1>1, <2>2, <3>1
  <2> QED
    BY <1>7, <2>1, <2>2
<1>9. FetchCursor(new) \in Cursor
  BY <1>7, FetchCursorType
<1> HIDE DEF new, old
<1>10. SessionFits(new, log)
  BY <1>7, <1>8 DEF SessionFits
<1> QED
  BY <1>1, <1>2, <1>3, <1>6, <1>9, <1>10 DEF old, new, records

LEMMA PageArrivesSteps ==
    ASSUME SyncInv, NEW t \in Tabs, PageArrives(t)
    PROVE  SyncInv'
<1> DEFINE old == session[t]
           new == Ingest(old, Released(t))
           began == page[t].began
           top == Max({0} \cup {r.sequence : r \in Released(t)})
           least == Min({began, top})
           next == PageAfter(FetchCursor(new), page[t].left - 1)
<1>1. /\ TabOK(t) /\ log \in Seq(LogEntry) /\ Len(log) \in Nat
      /\ \A f \in {phase, page, session, recovered, published, paged} : DOMAIN f = Tabs
  BY DEF SyncInv
<1>2. /\ phase[t] = "page" /\ DOMAIN page[t].got = Readable
      /\ session' = [session EXCEPT ![t] = new] /\ ledger' = Persist(old, new)
      /\ paged' = [paged EXCEPT ![t] = least]
      /\ UNCHANGED <<log, saved, recovered>>
  BY DEF PageArrives, Released
<1>3. \/ /\ page' = [page EXCEPT ![t] = next] /\ UNCHANGED <<phase, published>>
      \/ /\ page' = [page EXCEPT ![t] = NoPage] /\ phase' = [phase EXCEPT ![t] = "idle"]
         /\ published' = [published EXCEPT ![t] = Pending(new)]
  BY DEF PageArrives, Released
<1>4. /\ SessionFits(old, log) /\ SessionFits(new, log)
      /\ Truthful(KnownIn(log)) /\ IsFiniteSet(Released(t)) /\ Released(t) \subseteq KnownIn(log)
      /\ FetchCursor(old) \in Cursor /\ FetchCursor(new) \in Cursor
      /\ began \in 0..Len(log)
      /\ \A p \in Readable : \A r \in StoredIn(log, p) : \A m \in Released(t) :
            /\ FetchCursor(old)[p] < r.sequence /\ r.sequence <= m.sequence
            /\ m.partition = p \/ r.sequence <= began
            => r \in Released(t)
  BY <1>2, PageIngested
<1>5. /\ \A p \in Partitions : FetchCursor(old)[p] <= FetchCursor(new)[p]
      /\ \A r \in Released(t) : r.sequence <= FetchCursor(new)[r.partition]
  <2> HIDE DEF old
  <2> QED
    BY <1>4, IngestKeeps DEF SessionFits
<1>6. \A r \in Released(t) : r.sequence \in 1..Len(log) /\ r.sequence \in Nat
  <2>1. \A r \in Released(t) : r.sequence \in 1..Len(log)
    BY <1>1, <1>4, KnownFacts
  <2> QED
    BY <2>1
<1>7. /\ top \in Nat /\ (top = 0 \/ \E r \in Released(t) : r.sequence = top)
  BY <1>4, <1>6, GreatestOf
<1> HIDE DEF top
<1>8. least \in 0..Len(log) /\ least <= began /\ least <= top
  <2> DEFINE two == {began, top}
  <2>1. two \in SUBSET Nat /\ two # {}
    BY <1>4, <1>7
  <2>2. Min(two) \in two /\ \A x \in two : Min(two) <= x
    <3> HIDE DEF two
    <3> QED
      BY <2>1, LeastNat
  <2> DEFINE n == Min(two)
  <2>3. n \in Nat /\ n <= began /\ n <= top
    BY <2>1, <2>2
  <2>4. least = n
    OBVIOUS
  <2> HIDE DEF n
  <2> QED
    BY <1>1, <1>4, <2>3, <2>4
<1> HIDE DEF least, new, old, began
<1>9. /\ session'[t] = new /\ paged'[t] = least /\ log' = log /\ new # None
      /\ FetchCursor(session[t])' = FetchCursor(new)
  BY <1>1, <1>2, <1>4, FetchCursorType DEF FetchCursor, SessionFits
<1>10. GapFree(t)'
  <2> SUFFICES ASSUME NEW s \in DOMAIN log, NEW p \in log[s].copies, s <= least
               PROVE  s <= FetchCursor(new)[p]
    BY <1>9 DEF GapFree
  <2>1. /\ s \in Nat \ {0} /\ s \in 1..Len(log) /\ log[s] \in LogEntry
    BY <1>1
  <2>2. p \in Readable /\ p \in Partitions
    BY <2>1, ReadablePartitions DEF LogEntry
  <2>3. PICK r \in StoredIn(log, p) : r.sequence = s /\ r.partition = p
    BY <1>1, <2>2, StoredFacts
  <2>4. PICK m \in Released(t) : m.sequence = top
    BY <1>7, <1>8, <2>1
  <2>5. FetchCursor(old)[p] \in Nat /\ FetchCursor(new)[p] \in Nat
    BY <1>4, <2>2 DEF Cursor
  <2>6. s <= began /\ s <= top
    BY <1>4, <1>7, <1>8, <2>1
  <2>7. CASE s <= FetchCursor(old)[p]
    <3>1. FetchCursor(old)[p] <= FetchCursor(new)[p]
      BY <1>5, <2>2
    <3> QED
      BY <2>1, <2>5, <2>7, <3>1
  <2>8. CASE FetchCursor(old)[p] < s
    <3>1. r \in Released(t)
      BY <1>4, <2>2, <2>3, <2>4, <2>6, <2>8
    <3> QED
      BY <1>5, <2>3, <3>1
  <2> QED
    BY <2>1, <2>5, <2>7, <2>8
<1>11. Pending(new) \in Seq(Entry)
  BY <1>4, PendingIs DEF SessionFits
<1>12. ledger' # None => LedgerFits(ledger', log')
  BY <1>1, <1>2, <1>4, PersistFits DEF SyncInv
<1>13. /\ published'[t] \in Seq(Entry) /\ recovered'[t] = recovered[t]
       /\ \/ phase'[t] = "page" /\ page'[t] = next
          \/ phase'[t] = "idle" /\ page'[t] = NoPage
  BY <1>1, <1>2, <1>3, <1>11 DEF TabOK
<1>14. IsPage(next) /\ PageFits(next, FetchCursor(new), log) /\ IsPage(NoPage)
  <2>1. /\ IsPage(next) /\ next.after = FetchCursor(new) /\ next.began = Len(log)
        /\ next.got = [p \in {} |-> {}] /\ IsPage(NoPage)
    BY DEF PageAfter, IsPage, NoPage
  <2> HIDE DEF next
  <2> QED
    BY <1>1, <2>1, FreshPageFits
<1> HIDE DEF next
<1>15. TabOK(t)'
  BY <1>1, <1>4, <1>8, <1>9, <1>10, <1>13, <1>14 DEF TabOK, NoPage, EmptyCursor
<1>16. LogStep /\ (saved'.state = "applied" => saved'.first \in Nat \ {0})
  BY <1>1, <1>2, LogStays DEF SyncInv
<1> QED
  BY <1>1, <1>2, <1>3, <1>12, <1>15, <1>16, OneTabSteps

\* What the dashboard acknowledges are events it was given.
LEMMA AcknowledgedAre ==
    ASSUME NEW t \in Tabs, published[t] \in Seq(Entry)
    PROVE  /\ Presentation(t) \in Seq(Entry)
           /\ Range(Presentation(t)) \subseteq Range(published[t])
           /\ \A S : Ids(Only(Presentation(t), S)) \in Seq(EventIds)
           /\ SelectOwnResolution(Presentation(t)) \in Seq(EventIds)
<1> DEFINE queue == Presentation(t)
<1>1. queue \in Seq(Entry) /\ Range(queue) \subseteq Range(published[t])
  BY Selected DEF Presentation
<1> HIDE DEF queue
<1>2. ASSUME NEW s \in Seq(Entry), NEW S PROVE Ids(Only(s, S)) \in Seq(EventIds)
  <2>1. Only(s, S) \in Seq(Entry)
    BY Selected
  <2> QED
    BY <2>1, IdsAre
<1>3. SelectOwnResolution(queue) \in Seq(EventIds)
  <2> DEFINE own == {i \in DOMAIN queue : queue[i].eventId \in Resolutions}
             first == Min(own)
  <2>1. CASE own = {}
    BY <2>1 DEF SelectOwnResolution
  <2>2. CASE own # {}
    <3>1. own \in SUBSET Nat /\ own \subseteq 1..Len(queue) /\ Len(queue) \in Nat
      BY <1>1
    <3>2. first \in own
      <4> HIDE DEF own
      <4> QED
        BY <2>2, <3>1, LeastNat
    <3>3. first \in 1..Len(queue)
      BY <3>1, <3>2
    <3> HIDE DEF first
    <3>4. SubSeq(queue, first, Len(queue)) \in Seq(Entry)
      BY <1>1, <3>1, <3>3
    <3>5. \E S : SelectOwnResolution(queue) = Ids(Only(SubSeq(queue, first, Len(queue)), S))
      BY <2>2 DEF SelectOwnResolution, first
    <3> QED
      BY <1>2, <3>4, <3>5
  <2> QED
    BY <2>1, <2>2
<1> QED
  BY <1>1, <1>2, <1>3 DEF queue

LEMMA AcknowledgePresentationSteps ==
    ASSUME SyncInv, NEW t \in Tabs, AcknowledgeNeutral(t) \/ Continue(t)
    PROVE  /\ SyncInv' /\ session[t] # None
           /\ \E ids \in Seq(EventIds) : \E through \in {"dashboard", "player"} :
                 AcknowledgePresentation(t, ids, through)
<1>1. /\ TabOK(t) /\ log \in Seq(LogEntry) /\ Len(log) \in Nat
      /\ \A f \in {phase, page, session, recovered, published, paged} : DOMAIN f = Tabs
  BY DEF SyncInv
<1>2. PICK ids \in Seq(EventIds) : \E through \in {"dashboard", "player"} :
         AcknowledgePresentation(t, ids, through)
  <2>1. published[t] \in Seq(Entry)
    BY <1>1 DEF TabOK
  <2>2. CASE AcknowledgeNeutral(t)
    BY <2>1, <2>2, AcknowledgedAre DEF AcknowledgeNeutral
  <2>3. CASE Continue(t)
    BY <2>1, <2>3, AcknowledgedAre DEF Continue
  <2> QED
    BY <2>2, <2>3
<1> DEFINE old == session[t]
           new == AcknowledgeEvents(old, ids)
<1>3. old # None
  BY DEF AcknowledgeNeutral, Continue
<1>4. /\ session' = [session EXCEPT ![t] = new] /\ ledger' = Persist(old, new)
      /\ published' = [published EXCEPT ![t] = Pending(new)]
      /\ UNCHANGED <<log, saved, phase, page, recovered, paged>>
  BY <1>2 DEF AcknowledgePresentation
<1>5. SessionFits(old, log) /\ Truthful(KnownIn(log))
  BY <1>1, <1>3, KnownFacts DEF TabOK
<1>6. SessionOK(new, KnownIn(log)) /\ CursorBehind(new) /\ FetchCursor(new) = FetchCursor(old)
  <2> HIDE DEF old
  <2> QED
    BY <1>5, AcknowledgeEventsKeeps DEF SessionFits
<1> HIDE DEF new
<1>7. SessionFits(new, log) /\ new # None
  BY <1>5, <1>6, FetchCursorType DEF SessionFits
<1>8. Pending(new) \in Seq(Entry)
  BY <1>5, <1>6, PendingIs
<1>9. /\ session'[t] = new /\ published'[t] \in Seq(Entry) /\ log' = log
      /\ FetchCursor(session[t])' = FetchCursor(session[t])
  BY <1>1, <1>4, <1>6, <1>8 DEF FetchCursor
<1>10. GapFree(t)'
  BY <1>1, <1>3, <1>4, <1>9 DEF TabOK, GapFree
<1>11. TabOK(t)'
  BY <1>1, <1>3, <1>4, <1>7, <1>9, <1>10 DEF TabOK
<1>12. ledger' # None => LedgerFits(ledger', log')
  BY <1>1, <1>4, <1>7, PersistFits DEF SyncInv
<1>13. LogStep /\ (saved'.state = "applied" => saved'.first \in Nat \ {0})
  BY <1>1, <1>4, LogStays DEF SyncInv
<1> QED
  BY <1>1, <1>2, <1>3, <1>4, <1>11, <1>12, <1>13, OneTabSteps

LEMMA NextSyncInv == SyncInv /\ [Next]_vars => SyncInv'
<1> SUFFICES ASSUME SyncInv, [Next]_vars PROVE SyncInv'
  OBVIOUS
<1>1. CASE UNCHANGED vars
  BY <1>1, QuietSteps DEF vars
<1>2. CASE Commit \/ ApplySaved
  BY <1>2, CommitSteps
<1>3. ASSUME NEW t \in Tabs, Receive(t) PROVE SyncInv'
  BY <1>3, QuietSteps DEF Receive
<1>4. ASSUME NEW t \in Tabs, SyncStep(t) PROVE SyncInv'
  BY <1>4, StartSyncSteps, StartLedgerSteps, PageArrivesSteps, ReadSteps DEF SyncStep
<1>5. ASSUME NEW t \in Tabs, ReadFails(t) \/ Refresh(t) PROVE SyncInv'
  BY <1>5, EndSteps
<1>6. ASSUME NEW t \in Tabs, AcknowledgeNeutral(t) \/ Continue(t) PROVE SyncInv'
  BY <1>6, AcknowledgePresentationSteps
<1> QED
  BY <1>1, <1>2, <1>3, <1>4, <1>5, <1>6 DEF Next

LEMMA SyncInvHolds == Spec => []SyncInv
<1> QED
  BY InitSyncInv, NextSyncInv, PTL DEF Spec

\* For any number of tabs, in every state: a page never runs ahead of a partition.  Of
\* the events committed when its reads began, all up to the last one it released have
\* been read in every partition: the watermark of assembleTailPage does its work however
\* the room moves on between the reads of one page.
THEOREM PagesNeverRunAhead == Spec => []PagesLeaveNoGap
<1>1. SyncInv => PagesLeaveNoGap
  BY DEF SyncInv, TabOK, GapFree, PagesLeaveNoGap
<1> QED
  BY <1>1, SyncInvHolds, PTL

-----------------------------------------------------------------------------
(* What was read and what was handled.                                     *)

Seen(h) == {x.eventId : x \in h}

\* Of an event: handled, or waiting with its copy of the partition or an earlier one.
Covered(sn, l, ids, s, p) ==
    \/ l[s].eventId \in ids
    \/ \E e \in Range(sn.pending) :
          /\ e.eventId = l[s].eventId
          /\ \E c \in e.copies : c.partition = p /\ c.sequence <= s

\* A session has lost nothing between the start b and what it reads next.
ReadThrough(sn, l, b, ids) ==
    /\ Acknowledged(sn) \subseteq ids
    /\ \A s \in DOMAIN l : \A p \in l[s].copies :
          b[p] < s /\ s <= FetchCursor(sn)[p] => Covered(sn, l, ids, s, p)

\* Below the cursor of a saved ledger everything was handled.
SavedThrough(data, l, b, ids) ==
    /\ Range(data.acknowledged) \subseteq ids
    /\ \A s \in DOMAIN l : \A p \in l[s].copies :
          b[p] < s /\ s <= data.cursor[p] => l[s].eventId \in ids

ReceiptsKept ==
    base = None => \A l \in learnt : l.through = "receipt" => \E t \in Tabs : l.first \in recovered[t]

\* Where the ledger is, and what was recovered.
LedgerInv ==
    /\ base # None => base \in Cursor
    /\ base = None <=> ledger = None
    /\ saved.state # "none" => base = None /\ \A t \in Tabs : phase[t] = "idle"
    /\ \A t \in Tabs : /\ session[t] # None => ledger # None
                       /\ phase[t] = "head" => ledger = None
    /\ learnt \subseteq [first : Nat, through : {"receipt", "resend", "reload"}]
    /\ ReceiptsKept
    /\ ReceiptsOutliveFailures

\* Nothing is lost on the way to what is read next, nor to what is saved.
ThroughInv ==
    /\ ledger # None => SavedThrough(ledger, log, base, Seen(handled))
    /\ \A t \in Tabs : session[t] # None => ReadThrough(session[t], log, base, Seen(handled))

LEMMA CopiesReadable ==
    ASSUME NEW l \in Seq(LogEntry), NEW s \in DOMAIN l, NEW p \in l[s].copies
    PROVE  p \in Readable /\ p \in Partitions /\ s \in Nat /\ s \in 1..Len(l) /\ Len(l) \in Nat
<1>1. l[s] \in LogEntry /\ s \in 1..Len(l) /\ Len(l) \in Nat
  OBVIOUS
<1> QED
  BY <1>1, ReadablePartitions DEF LogEntry

\* Log and history only grow.
LEMMA ThroughStays ==
    ASSUME NEW l \in Seq(LogEntry), NEW m \in Seq(LogEntry), Extends(l, m),
           NEW b, NEW ids, NEW more, ids \subseteq more
    PROVE  /\ \A sn : SessionFits(sn, l) /\ ReadThrough(sn, l, b, ids) => ReadThrough(sn, m, b, more)
           /\ \A data : LedgerFits(data, l) /\ SavedThrough(data, l, b, ids)
                          => SavedThrough(data, m, b, more)
<1>1. /\ DOMAIN l = 1..Len(l) /\ DOMAIN m = 1..Len(m) /\ Len(l) \in Nat /\ Len(m) \in Nat
      /\ \A s \in DOMAIN l : m[s] = l[s]
  BY DEF Extends
<1>2. \A s \in DOMAIN m : s \notin DOMAIN l => Len(l) < s
  BY <1>1
<1>3. \A s \in DOMAIN m : \A p \in m[s].copies : p \in Partitions
  BY CopiesReadable
<1>4. ASSUME NEW n, n \in 0..Len(l), NEW s \in DOMAIN m, s <= n
      PROVE  s \in DOMAIN l /\ m[s] = l[s]
  BY <1>1, <1>2, <1>4
<1>5. ASSUME NEW sn, SessionFits(sn, l), ReadThrough(sn, l, b, ids)
      PROVE  ReadThrough(sn, m, b, more)
  <2>1. Acknowledged(sn) \subseteq more
    BY <1>5 DEF ReadThrough
  <2>2. ASSUME NEW s \in DOMAIN m, NEW p \in m[s].copies, b[p] < s, s <= FetchCursor(sn)[p]
        PROVE  Covered(sn, m, more, s, p)
    <3>1. FetchCursor(sn)[p] \in 0..Len(l)
      BY <1>3, <1>5 DEF SessionFits
    <3>2. s \in DOMAIN l /\ m[s] = l[s]
      BY <1>4, <2>2, <3>1
    <3>3. Covered(sn, l, ids, s, p)
      BY <1>5, <2>2, <3>2 DEF ReadThrough
    <3> QED
      BY <3>2, <3>3 DEF Covered
  <2> QED
    BY <2>1, <2>2 DEF ReadThrough
<1>6. ASSUME NEW data, LedgerFits(data, l), SavedThrough(data, l, b, ids)
      PROVE  SavedThrough(data, m, b, more)
  <2>1. Range(data.acknowledged) \subseteq more
    BY <1>6 DEF SavedThrough
  <2>2. ASSUME NEW s \in DOMAIN m, NEW p \in m[s].copies, b[p] < s, s <= data.cursor[p]
        PROVE  m[s].eventId \in more
    <3>1. data.cursor[p] \in 0..Len(l)
      BY <1>3, <1>6 DEF LedgerFits
    <3>2. s \in DOMAIN l /\ m[s] = l[s]
      BY <1>4, <2>2, <3>1
    <3> QED
      BY <1>6, <2>2, <3>2 DEF SavedThrough
  <2> QED
    BY <2>1, <2>2 DEF SavedThrough
<1> QED
  BY <1>5, <1>6

\* A saved ledger, opened.
LEMMA OpenedThrough ==
    ASSUME NEW l \in Seq(LogEntry), NEW b, NEW ids, NEW data,
           LedgerFits(data, l), SavedThrough(data, l, b, ids)
    PROVE  ReadThrough(OpenSession(data), l, b, ids)
<1>1. FetchCursor(OpenSession(data)) = data.cursor
  BY OpenedFits
<1>2. Acknowledged(OpenSession(data)) = Range(data.acknowledged)
  BY DEF Acknowledged, OpenSession
<1> QED
  BY <1>1, <1>2 DEF ReadThrough, SavedThrough, Covered

\* What is saved of a session: its cursor stops before what waits.
LEMMA SavedOfRead ==
    ASSUME NEW l \in Seq(LogEntry), NEW b, NEW ids, NEW data \in Ledger,
           SavedThrough(data, l, b, ids), NEW sn, SessionFits(sn, l), ReadThrough(sn, l, b, ids)
    PROVE  SavedThrough(MergeLedgerData(data, LedgerData(sn)), l, b, ids)
<1> DEFINE other == LedgerData(sn)
           new == MergeLedgerData(data, other)
<1>1. sn \in Session /\ sn.cursor \in Cursor /\ sn.highest \in Cursor /\ data.cursor \in Cursor
  BY DEF SessionFits, SessionOK, Session, Ledger
<1>2. /\ other \in Ledger /\ other.cursor = sn.cursor
      /\ Range(other.acknowledged) = Acknowledged(sn)
  BY <1>1 DEF LedgerData, Ledger, Session, Acknowledged
<1> HIDE DEF other
<1>3. /\ \A p \in Partitions : new.cursor[p] = Greater(data.cursor[p], other.cursor[p])
      /\ Range(new.acknowledged) \subseteq Range(data.acknowledged) \cup Range(other.acknowledged)
  BY <1>2, MergeKeeps
<1> HIDE DEF new
<1>4. Range(new.acknowledged) \subseteq ids
  BY <1>2, <1>3 DEF ReadThrough, SavedThrough
<1>5. ASSUME NEW s \in DOMAIN l, NEW p \in l[s].copies, b[p] < s, s <= new.cursor[p]
      PROVE  l[s].eventId \in ids
  <2>1. p \in Partitions /\ s \in Nat
    BY CopiesReadable
  <2>2. data.cursor[p] \in Nat /\ sn.cursor[p] \in Nat /\ sn.highest[p] \in Nat
    BY <1>1, <2>1 DEF Cursor
  <2>3. new.cursor[p] = Greater(data.cursor[p], sn.cursor[p])
    BY <1>2, <1>3, <2>1
  <2>4. s <= data.cursor[p] \/ s <= sn.cursor[p]
    BY <1>5, <2>3 DEF Greater
  <2>5. CASE s <= data.cursor[p]
    BY <1>5, <2>5 DEF SavedThrough
  <2>6. CASE s <= sn.cursor[p]
    <3>1. FetchCursor(sn)[p] = Greater(sn.cursor[p], sn.highest[p])
      BY <2>1 DEF FetchCursor
    <3>2. s <= FetchCursor(sn)[p]
      BY <2>1, <2>2, <2>6, <3>1 DEF Greater
    <3>3. Covered(sn, l, ids, s, p)
      BY <1>5, <3>2 DEF ReadThrough
    <3> SUFFICES ASSUME NEW e \in Range(sn.pending), NEW c \in e.copies,
                        c.partition = p, c.sequence <= s
                 PROVE  FALSE
      BY <3>3 DEF Covered
    <3>4. sn.cursor[p] < c.sequence
      BY DEF SessionFits, CursorBehind
    <3>5. c.sequence \in Nat
      BY KnownFacts DEF SessionFits, SessionOK, EntryOK, Truthful, Record
    <3> QED
      BY <2>1, <2>2, <2>6, <3>4, <3>5
  <2> QED
    BY <2>4, <2>5, <2>6
<1> QED
  BY <1>4, <1>5 DEF SavedThrough, new, other

\* What stops waiting is seen.
LEMMA GoneSeen ==
    ASSUME NEW h, NEW copies, NEW sn, NEW through
    PROVE  /\ Seen(h) \subseteq Seen(h \cup Gone(copies, sn, through))
           /\ \A c \in copies : c.eventId \notin Waiting(sn) =>
                 c.eventId \in Seen(h \cup Gone(copies, sn, through))
<1>1. ASSUME NEW c \in copies, c.eventId \notin Waiting(sn)
      PROVE  c.eventId \in Seen(h \cup Gone(copies, sn, through))
  <2> DEFINE x == [eventId |-> c.eventId, sequence |-> c.sequence, through |-> through]
  <2>1. x \in Gone(copies, sn, through) /\ x.eventId = c.eventId
    BY <1>1 DEF Gone
  <2> HIDE DEF x
  <2> QED
    BY <2>1 DEF Seen
<1> QED
  BY <1>1 DEF Seen

\* acknowledge: what it takes from the queue is seen.
LEMMA AcknowledgeThrough ==
    ASSUME NEW l \in Seq(LogEntry), NEW b, NEW h, NEW sn, SessionFits(sn, l),
           ReadThrough(sn, l, b, Seen(h)), NEW ids \in Seq(EventIds), NEW through
    PROVE  LET new == AcknowledgeEvents(sn, ids)
           IN  ReadThrough(new, l, b, Seen(h \cup Gone(Copies(sn), new, through)))
<1> DEFINE new == AcknowledgeEvents(sn, ids)
           seen == Seen(h \cup Gone(Copies(sn), new, through))
<1>1. Truthful(KnownIn(l)) /\ SessionOK(sn, KnownIn(l)) /\ CursorBehind(sn)
  BY KnownFacts DEF SessionFits
<1>2. /\ FetchCursor(new) = FetchCursor(sn)
      /\ \A d \in Range(sn.pending) : d.eventId \in Waiting(new) => d \in Range(new.pending)
      /\ \A id \in Acknowledged(new) \ Acknowledged(sn) :
            id \notin Waiting(new) /\ \E c \in Copies(sn) : c.eventId = id
  BY <1>1, AcknowledgeEventsKeeps
<1> HIDE DEF new
<1>3. /\ Seen(h) \subseteq seen
      /\ \A c \in Copies(sn) : c.eventId \notin Waiting(new) => c.eventId \in seen
  BY GoneSeen
<1> HIDE DEF seen
<1>4. Acknowledged(new) \subseteq seen
  BY <1>2, <1>3 DEF ReadThrough
<1>5. ASSUME NEW s \in DOMAIN l, NEW p \in l[s].copies, b[p] < s, s <= FetchCursor(new)[p]
      PROVE  Covered(new, l, seen, s, p)
  <2>1. Covered(sn, l, Seen(h), s, p)
    BY <1>2, <1>5 DEF ReadThrough
  <2>2. CASE l[s].eventId \in Seen(h)
    BY <1>3, <2>2 DEF Covered
  <2>3. ASSUME NEW e \in Range(sn.pending), e.eventId = l[s].eventId,
               NEW c \in e.copies, c.partition = p, c.sequence <= s
        PROVE  Covered(new, l, seen, s, p)
    <3>1. c \in Copies(sn) /\ c.eventId = l[s].eventId
      BY <1>1, <2>3 DEF Copies, SessionOK, EntryOK
    <3> QED
      BY <1>2, <1>3, <2>3, <3>1 DEF Covered
  <2> QED
    BY <2>1, <2>2, <2>3 DEF Covered
<1> QED
  BY <1>4, <1>5 DEF ReadThrough, seen, new

\* ingestTail: a released page is wanted, waits already, or was handled; none of it is
\* dropped.
LEMMA IngestThrough ==
    ASSUME SyncInv, NEW t \in Tabs, phase[t] = "page", DOMAIN page[t].got = Readable,
           NEW b, NEW h, ReadThrough(session[t], log, b, Seen(h))
    PROVE  LET old == session[t]
               new == Ingest(old, Released(t))
               copies == Copies(old) \cup Added(NoteIngested(old, Released(t)), Released(t))
           IN  ReadThrough(new, log, b, Seen(h \cup Gone(copies, new, "expiry")))
<1> DEFINE old == session[t]
           records == Released(t)
           new == Ingest(old, records)
           added == Added(NoteIngested(old, records), records)
           seen == Seen(h \cup Gone(Copies(old) \cup added, new, "expiry"))
<1>1. log \in Seq(LogEntry)
  BY DEF SyncInv
<1>2. /\ SessionFits(old, log) /\ SessionFits(new, log)
      /\ Truthful(KnownIn(log)) /\ IsFiniteSet(records) /\ records \subseteq KnownIn(log)
      /\ FetchCursor(old) \in Cursor /\ FetchCursor(new) \in Cursor
      /\ \A p \in Readable : \A r \in StoredIn(log, p) : \A m \in records :
            /\ FetchCursor(old)[p] < r.sequence /\ r.sequence <= m.sequence
            /\ m.partition = p \/ r.sequence <= page[t].began
            => r \in records
  BY PageIngested
<1> HIDE DEF records
<1>3. /\ SessionOK(old, KnownIn(log)) /\ CursorBehind(old)
      /\ old.cursor \in Cursor /\ old.highest \in Cursor
      /\ ReadThrough(old, log, b, Seen(h))
  BY <1>2 DEF SessionFits, SessionOK, Session
<1> HIDE DEF old
<1>4. /\ \A p \in Partitions :
            \/ FetchCursor(new)[p] = FetchCursor(old)[p]
            \/ \E r \in records : r.partition = p /\ r.sequence = FetchCursor(new)[p]
      /\ \A d \in Range(old.pending) : d.eventId \in Waiting(new) =>
            \E e \in Range(new.pending) : e.eventId = d.eventId /\ d.copies \subseteq e.copies
      /\ \A c \in added : c.eventId \in Waiting(new) =>
            \E e \in Range(new.pending) : e.eventId = c.eventId /\ c \in e.copies
      /\ \A id \in Acknowledged(new) \ Acknowledged(old) :
            id \notin Waiting(new) /\ \E c \in Copies(old) \cup added : c.eventId = id
      /\ \A r \in records : Wanted(old, r) =>
            \E c \in added : /\ c.partition = r.partition /\ c.eventId = r.eventId
                             /\ c.sequence <= r.sequence
  BY <1>2, <1>3, IngestKeeps
<1>5. /\ Seen(h) \subseteq seen
      /\ \A c \in Copies(old) \cup added : c.eventId \notin Waiting(new) => c.eventId \in seen
  <2> HIDE DEF new, added
  <2> QED
    BY GoneSeen
<1> HIDE DEF new, added, seen
<1>6. Acknowledged(new) \subseteq seen
  BY <1>3, <1>4, <1>5 DEF ReadThrough
\* A copy that waited, and a copy that was added.
<1>7. ASSUME NEW e \in Range(old.pending), NEW c \in e.copies, NEW s \in DOMAIN log,
             e.eventId = log[s].eventId, c.sequence <= s
      PROVE  Covered(new, log, seen, s, c.partition)
  <2>1. c \in Copies(old) /\ c.eventId = e.eventId
    BY <1>3 DEF Copies, SessionOK, EntryOK
  <2>2. CASE e.eventId \in Waiting(new)
    BY <1>4, <1>7, <2>2 DEF Covered
  <2>3. CASE e.eventId \notin Waiting(new)
    BY <1>5, <1>7, <2>1, <2>3 DEF Covered
  <2> QED
    BY <2>2, <2>3
<1>8. ASSUME NEW c \in added, NEW s \in DOMAIN log,
             c.eventId = log[s].eventId, c.sequence <= s
      PROVE  Covered(new, log, seen, s, c.partition)
  <2>1. CASE c.eventId \in Waiting(new)
    BY <1>4, <1>8, <2>1 DEF Covered
  <2>2. CASE c.eventId \notin Waiting(new)
    BY <1>5, <1>8, <2>2 DEF Covered
  <2> QED
    BY <2>1, <2>2
<1>9. ASSUME NEW s \in DOMAIN log, NEW p \in log[s].copies, b[p] < s, s <= FetchCursor(new)[p]
      PROVE  Covered(new, log, seen, s, p)
  <2>1. p \in Readable /\ p \in Partitions /\ s \in Nat
    BY <1>1, CopiesReadable
  <2>2. /\ old.cursor[p] \in Nat /\ old.highest[p] \in Nat
        /\ FetchCursor(old)[p] = Greater(old.cursor[p], old.highest[p])
        /\ FetchCursor(old)[p] \in Nat /\ FetchCursor(new)[p] \in Nat
    BY <1>2, <1>3, <2>1 DEF Cursor, FetchCursor
  <2>3. CASE s <= FetchCursor(old)[p]
    <3>1. Covered(old, log, Seen(h), s, p)
      BY <1>3, <1>9, <2>3 DEF ReadThrough
    <3>2. CASE log[s].eventId \in Seen(h)
      BY <1>5, <3>2 DEF Covered
    <3>3. CASE log[s].eventId \notin Seen(h)
      BY <1>7, <3>1, <3>3 DEF Covered
    <3> QED
      BY <3>2, <3>3
  <2>4. CASE FetchCursor(old)[p] < s
    <3>1. PICK m \in records : m.partition = p /\ m.sequence = FetchCursor(new)[p]
      <4>1. FetchCursor(new)[p] # FetchCursor(old)[p]
        BY <1>9, <2>1, <2>2, <2>4
      <4> QED
        BY <1>4, <2>1, <4>1
    <3>2. PICK r \in StoredIn(log, p) : r.sequence = s
      BY <1>1, <2>1, StoredFacts
    <3>3. r.partition = p /\ r.eventId = log[s].eventId
      BY <1>1, <2>1, <3>2, StoredFacts
    <3>4. r \in records
      BY <1>2, <1>9, <2>1, <2>4, <3>1, <3>2
    <3>5. CASE Wanted(old, r)
      BY <1>4, <1>8, <3>2, <3>3, <3>4, <3>5
    <3>6. CASE ~Wanted(old, r)
      <4>1. CASE r.eventId \in Acknowledged(old)
        BY <1>3, <1>5, <3>3, <4>1 DEF ReadThrough, Covered
      <4>2. old.cursor[p] < s /\ old.highest[p] < s
        BY <2>1, <2>2, <2>4 DEF Greater
      <4>3. CASE r.eventId \notin Acknowledged(old)
        <5>1. r.sequence > old.cursor[r.partition]
          BY <2>1, <2>2, <3>2, <3>3, <4>2
        <5>2. PICK e \in Range(old.pending) : \E c \in e.copies :
                 c.partition = p /\ (c.eventId = r.eventId \/ c.sequence = r.sequence)
          BY <3>3, <3>6, <4>3, <5>1 DEF Wanted
        <5>3. PICK c \in e.copies :
                 c.partition = p /\ (c.eventId = r.eventId \/ c.sequence = r.sequence)
          BY <5>2
        <5>4. /\ c.eventId = e.eventId /\ c.sequence <= old.highest[p]
              /\ c.sequence \in Nat
          BY <1>2, <1>3, <5>3 DEF SessionOK, EntryOK, Truthful, Record
        <5>5. c.sequence < s
          BY <2>1, <2>2, <4>2, <5>4
        <5>6. e.eventId = log[s].eventId /\ c.sequence <= s
          BY <2>1, <3>2, <3>3, <5>3, <5>4, <5>5
        <5> QED
          BY <1>7, <5>3, <5>6
      <4> QED
        BY <4>1, <4>3
    <3> QED
      BY <3>5, <3>6
  <2> QED
    BY <2>1, <2>2, <2>3, <2>4
<1> QED
  BY <1>6, <1>9 DEF ReadThrough, seen, new, added, old, records

-----------------------------------------------------------------------------
(* One tab.  Two that start a ledger at once would each start it at their  *)
(* own heads, and the later start would win.                               *)

OneTab == \A t, u \in Tabs : t = u

LEMMA LedgerQuiet ==
    ASSUME LedgerInv, UNCHANGED <<base, ledger, phase, session, learnt, recovered>>,
           saved' = saved \/ (saved.state # "none" /\ base = None)
    PROVE  LedgerInv'
BY DEF LedgerInv, ReceiptsKept, ReceiptsOutliveFailures

LEMMA StartSyncLedger ==
    ASSUME SyncInv, LedgerInv, NEW t \in Tabs, StartSync(t)
    PROVE  LedgerInv'
<1>1. /\ DOMAIN phase = Tabs /\ DOMAIN session = Tabs /\ DOMAIN recovered = Tabs
      /\ log \in Seq(LogEntry) /\ Len(log) \in Nat
      /\ (saved.state = "applied" => saved.first \in Nat \ {0})
  BY DEF SyncInv
<1>2. base' = base /\ ledger' = ledger
  BY DEF StartSync
<1>3. saved'.state = "none" /\ Reconcile(t)
  BY DEF StartSync, Reconcile, NoCommand
<1>4. \A u \in Tabs : /\ session'[u] # None => ledger # None
                      /\ phase'[u] = "head" => ledger = None
  <2>1. CASE session[t] = None /\ ledger = None
    BY <1>1, <2>1 DEF StartSync, LedgerInv
  <2>2. CASE ~(session[t] = None /\ ledger = None)
    BY <1>1, <2>2 DEF StartSync, LedgerInv
  <2> QED
    BY <2>1, <2>2
<1>5. CASE learnt' = learnt
  <2>1. base = None => \A u \in Tabs : recovered[u] \subseteq recovered'[u]
    <3> SUFFICES ASSUME base = None PROVE \A u \in Tabs : recovered[u] \subseteq recovered'[u]
      OBVIOUS
    <3>1. session[t] = None /\ ledger = None
      BY DEF LedgerInv
    <3>2. recovered[t] \subseteq RecoveredSoFar(t, {}) /\ recovered[t] \subseteq RecoveredSoFar(t, {saved.first})
      BY <3>1 DEF RecoveredSoFar
    <3> QED
      BY <1>1, <1>3, <3>2 DEF Reconcile
  <2> QED
    BY <1>2, <1>3, <1>4, <1>5, <2>1 DEF LedgerInv, ReceiptsKept, ReceiptsOutliveFailures
<1>6. CASE learnt' # learnt
  <2>1. saved.state # "none" /\ base = None /\ session[t] = None /\ ledger = None
    BY <1>3, <1>6 DEF Reconcile, LedgerInv
  <2>2. \A firsts : RecoveredSoFar(t, firsts) = recovered[t] \cup firsts
    BY <2>1 DEF RecoveredSoFar
  <2>3. \/ /\ saved.state = "applied" /\ saved.first \in Nat
           /\ learnt' = learnt \cup {[first |-> saved.first, through |-> "receipt"]}
           /\ recovered' = [recovered EXCEPT ![t] = recovered[t] \cup {saved.first}]
        \/ /\ learnt' = learnt \cup {[first |-> Len(log) + 1, through |-> "resend"]}
           /\ recovered' = [recovered EXCEPT ![t] = recovered[t] \cup {}]
    BY <1>1, <1>3, <1>6, <2>2 DEF Reconcile
  <2>4. learnt' \subseteq [first : Nat, through : {"receipt", "resend", "reload"}]
    BY <1>1, <2>3 DEF LedgerInv
  <2>5. ReceiptsKept'
    <3> SUFFICES ASSUME NEW l \in learnt', l.through = "receipt"
                 PROVE  \E u \in Tabs : l.first \in recovered'[u]
      BY DEF ReceiptsKept
    <3>1. CASE l \in learnt
      BY <1>1, <2>1, <2>3, <3>1 DEF LedgerInv, ReceiptsKept
    <3>2. CASE l \notin learnt
      BY <1>1, <2>3, <3>2
    <3> QED
      BY <3>1, <3>2
  <2> QED
    BY <1>2, <1>3, <1>4, <2>1, <2>4, <2>5 DEF LedgerInv, ReceiptsOutliveFailures
<1> QED
  BY <1>5, <1>6

LEMMA StartLedgerLedger ==
    ASSUME OneTab, SyncInv, LedgerInv, NEW t \in Tabs, StartLedger(t)
    PROVE  /\ LedgerInv' /\ ledger = None
           /\ base' \in Cursor /\ FetchCursor(session'[t]) = base' /\ ledger'.cursor = base'
           /\ ledger'.acknowledged = <<>> /\ session'[t].acknowledged = <<>>
<1>1. /\ TabOK(t) /\ log \in Seq(LogEntry) /\ Len(log) \in Nat
      /\ DOMAIN phase = Tabs /\ DOMAIN session = Tabs /\ DOMAIN recovered = Tabs
  BY DEF SyncInv
<1>2. \A u \in Tabs : u = t
  BY DEF OneTab
<1> DEFINE got == page[t].got
           start == Baseline(Heads(got), recovered[t])
           initial == EmptyLedgerData(start)
           opened == OpenSession(initial)
<1>3. phase[t] = "head" /\ ledger = None /\ base = None /\ saved.state = "none"
  BY DEF StartLedger, LedgerInv
<1>4. /\ DOMAIN got = Readable
      /\ ledger' = MergeLedgerData(EmptyLedgerData(EmptyCursor), initial)
      /\ base' = initial.cursor
      /\ session' = [session EXCEPT ![t] = opened]
      /\ recovered' = [recovered EXCEPT ![t] = {}] /\ phase' = [phase EXCEPT ![t] = "page"]
      /\ UNCHANGED <<learnt, saved>>
  BY <1>3 DEF StartLedger, Heads
<1>5. start \in Cursor /\ \A p \in Partitions : /\ start[p] \in 0..Len(log)
                                                /\ \A f \in recovered[t] : start[p] < f
  <2>1. HeadsFit(got, log) /\ recovered[t] \in SUBSET (Nat \ {0})
    BY <1>1, <1>3 DEF TabOK
  <2>2. \A p \in Partitions : Heads(got)[p] \in 0..Len(log)
    BY <1>1, <1>4, <2>1, HeadsAre
  <2> HIDE DEF got
  <2> QED
    BY <1>1, <2>1, <2>2, BaselineBelow
<1> HIDE DEF start
<1>6. /\ initial \in Ledger /\ initial.cursor = start /\ initial.acknowledged = <<>>
      /\ EmptyLedgerData(EmptyCursor) \in Ledger
      /\ EmptyLedgerData(EmptyCursor).cursor = EmptyCursor
      /\ EmptyLedgerData(EmptyCursor).acknowledged = <<>>
  <2>1. <<>> \in Seq(EventIds) /\ EmptyCursor \in Cursor
    BY DEF EmptyCursor, Cursor
  <2> QED
    BY <1>5, <2>1 DEF EmptyLedgerData, Ledger
<1>7. opened.acknowledged = <<>>
  BY <1>6 DEF OpenSession
<1>8. FetchCursor(opened) = start
  <2>1. LedgerFits(initial, log)
    BY <1>5, <1>6 DEF LedgerFits
  <2> HIDE DEF initial
  <2> QED
    BY <1>1, <1>6, <2>1, OpenedFits
<1> HIDE DEF opened, initial
<1>9. /\ ledger' \in Ledger
      /\ \A p \in Partitions : ledger'.cursor[p] = Greater(EmptyCursor[p], start[p])
      /\ Range(ledger'.acknowledged) \subseteq Range(<<>>) \cup Range(<<>>)
  <2>1. /\ MergeLedgerData(EmptyLedgerData(EmptyCursor), initial) \in Ledger
        /\ \A p \in Partitions :
             MergeLedgerData(EmptyLedgerData(EmptyCursor), initial).cursor[p]
               = Greater(EmptyLedgerData(EmptyCursor).cursor[p], initial.cursor[p])
        /\ Range(MergeLedgerData(EmptyLedgerData(EmptyCursor), initial).acknowledged)
             \subseteq Range(EmptyLedgerData(EmptyCursor).acknowledged) \cup
                         Range(initial.acknowledged)
    BY <1>6, MergeKeeps
  <2> QED
    BY <1>4, <1>6, <2>1
<1>10. ledger'.cursor = start
  <2>1. \A p \in Partitions : Greater(EmptyCursor[p], start[p]) = start[p]
    BY <1>5 DEF EmptyCursor, Greater, Cursor
  <2>2. ledger'.cursor \in Cursor
    BY <1>9 DEF Ledger
  <2> QED
    BY <1>5, <1>9, <2>1, <2>2 DEF Cursor
<1>11. ledger'.acknowledged = <<>>
  <2>1. ledger'.acknowledged \in Seq(EventIds) /\ Range(<<>>) = {}
    BY <1>9 DEF Ledger, Range
  <2> DEFINE a == ledger'.acknowledged
  <2>2. Range(a) = {} /\ a \in Seq(EventIds)
    BY <1>9, <2>1
  <2> HIDE DEF a
  <2>3. Len(a) \in Nat /\ DOMAIN a = 1..Len(a) /\ \A i \in DOMAIN a : a[i] \in Range(a)
    BY <2>2, InRange
  <2>4. Len(a) = 0
    BY <2>2, <2>3
  <2> QED
    BY <2>2, <2>4 DEF a
<1>12. ledger' # None /\ base' # None
  BY <1>4, <1>5, <1>6, <1>9, NoneAssumption
<1>13. /\ session'[t] = opened /\ phase'[t] = "page" /\ base' = start
  BY <1>1, <1>4, <1>6
<1>14. ReceiptsOutliveFailures'
  <2>1. \A l \in learnt : l.through = "receipt" => l.first \in recovered[t]
    BY <1>2, <1>3 DEF LedgerInv, ReceiptsKept
  <2> QED
    BY <1>4, <1>5, <1>13, <2>1, ReadablePartitions DEF ReceiptsOutliveFailures
<1>15. LedgerInv'
  BY <1>2, <1>3, <1>4, <1>5, <1>12, <1>13, <1>14 DEF LedgerInv, ReceiptsKept
<1> QED
  BY <1>3, <1>5, <1>7, <1>8, <1>10, <1>11, <1>13, <1>15

\* A saved ledger is never lost.
LEMMA SavingLedger ==
    ASSUME SyncInv, LedgerInv, NEW t \in Tabs, PageArrives(t) \/ AcknowledgeNeutral(t) \/ Continue(t)
    PROVE  /\ LedgerInv' /\ ledger # None /\ ledger' # None
           /\ session[t] # None /\ UNCHANGED <<log, base>>
           /\ \A u \in Tabs \ {t} : session'[u] = session[u]
           /\ session'[t] # None /\ SessionFits(session'[t], log)
           /\ \/ ledger' = ledger
              \/ ledger' = MergeLedgerData(ledger, LedgerData(session'[t]))
<1>1. /\ TabOK(t) /\ log \in Seq(LogEntry)
      /\ DOMAIN phase = Tabs /\ DOMAIN session = Tabs
      /\ ledger # None => LedgerFits(ledger, log)
  BY DEF SyncInv
<1>2. SyncInv'
  BY PageArrivesSteps, AcknowledgePresentationSteps
<1>3. session[t] # None
  <2>1. CASE PageArrives(t)
    BY <1>1, <2>1 DEF PageArrives, TabOK
  <2>2. CASE AcknowledgeNeutral(t) \/ Continue(t)
    BY <2>2 DEF AcknowledgeNeutral, Continue
  <2> QED
    BY <2>1, <2>2
<1>4. PICK new : session' = [session EXCEPT ![t] = new] /\ ledger' = Persist(session[t], new)
  <2>1. CASE PageArrives(t)
    BY <2>1 DEF PageArrives
  <2>2. CASE AcknowledgeNeutral(t) \/ Continue(t)
    BY <2>2, AcknowledgePresentationSteps DEF AcknowledgePresentation
  <2> QED
    BY <2>1, <2>2
<1>5. /\ UNCHANGED <<log, saved, base, learnt, recovered>>
      /\ phase' = phase \/ phase' = [phase EXCEPT ![t] = "idle"]
      /\ session'[t] # None
  <2>1. CASE PageArrives(t)
    <3>1. session'[t] = Ingest(session[t], Released(t))
      BY <1>1, <2>1 DEF PageArrives, Released
    <3>2. SessionFits(Ingest(session[t], Released(t)), log)
      BY <2>1, PageIngested DEF PageArrives
    <3> QED
      BY <2>1, <3>1, <3>2, FetchCursorType DEF PageArrives, SessionFits
  <2>2. CASE AcknowledgeNeutral(t) \/ Continue(t)
    <3>1. PICK ids \in Seq(EventIds) : \E through \in {"dashboard", "player"} :
             AcknowledgePresentation(t, ids, through)
      BY <2>2, AcknowledgePresentationSteps
    <3>2. /\ session'[t] = AcknowledgeEvents(session[t], ids)
          /\ UNCHANGED <<log, saved, base, learnt, recovered, phase>>
      BY <1>1, <3>1 DEF AcknowledgePresentation
    <3>3. SessionOK(AcknowledgeEvents(session[t], ids), KnownIn(log))
      BY <1>1, <1>3, KnownFacts, AcknowledgeEventsKeeps DEF TabOK, SessionFits
    <3> QED
      BY <3>2, <3>3, FetchCursorType
  <2> QED
    BY <2>1, <2>2
<1>6. session'[t] = new /\ SessionFits(new, log)
  <2>1. TabOK(t)'
    BY <1>2 DEF SyncInv
  <2>2. SessionFits(session'[t], log')
    BY <1>5, <2>1 DEF TabOK
  <2> QED
    BY <1>1, <1>4, <1>5, <2>2
<1>7. ledger # None
  BY <1>3 DEF LedgerInv
<1>8. /\ ledger' # None
      /\ ledger' = ledger \/ ledger' = MergeLedgerData(ledger, LedgerData(new))
  BY <1>1, <1>4, <1>6, <1>7, PersistFits
<1>9. LedgerInv'
  BY <1>1, <1>4, <1>5, <1>7, <1>8 DEF LedgerInv, ReceiptsKept, ReceiptsOutliveFailures
<1> QED
  BY <1>1, <1>3, <1>4, <1>5, <1>6, <1>7, <1>8, <1>9

LEMMA EndLedger ==
    ASSUME SyncInv, LedgerInv, NEW t \in Tabs, ReadFails(t) \/ Refresh(t)
    PROVE  LedgerInv'
<1>1. DOMAIN phase = Tabs /\ DOMAIN session = Tabs /\ DOMAIN recovered = Tabs
  BY DEF SyncInv
<1>2. /\ UNCHANGED <<saved, ledger, base>> /\ phase' = [phase EXCEPT ![t] = "idle"]
  BY DEF ReadFails, Refresh
<1>3. CASE ReadFails(t)
  BY <1>1, <1>2, <1>3 DEF ReadFails, LedgerInv, ReceiptsKept, ReceiptsOutliveFailures
<1>4. CASE Refresh(t)
  <2>1. /\ session' = [session EXCEPT ![t] = None] /\ recovered' = [recovered EXCEPT ![t] = {}]
        /\ learnt' = IF session[t] = None THEN {[l EXCEPT !.through = "reload"] : l \in learnt}
                                          ELSE learnt
    BY <1>4 DEF Refresh
  <2>2. CASE session[t] = None
    <3>1. \A l \in learnt' : /\ l.through = "reload"
                             /\ l \in [first : Nat, through : {"receipt", "resend", "reload"}]
      BY <2>1, <2>2 DEF LedgerInv
    <3> QED
      BY <1>1, <1>2, <2>1, <3>1 DEF LedgerInv, ReceiptsKept, ReceiptsOutliveFailures
  <2>3. CASE session[t] # None
    BY <1>1, <1>2, <2>1, <2>3 DEF LedgerInv, ReceiptsKept, ReceiptsOutliveFailures
  <2> QED
    BY <2>2, <2>3
<1> QED
  BY <1>3, <1>4

LEMMA NextLedgerInv == OneTab /\ SyncInv /\ LedgerInv /\ [Next]_vars => LedgerInv'
<1> SUFFICES ASSUME OneTab, SyncInv, LedgerInv, [Next]_vars PROVE LedgerInv'
  OBVIOUS
<1>1. CASE UNCHANGED vars
  BY <1>1, LedgerQuiet DEF vars
<1>2. CASE Commit
  BY <1>2, LedgerQuiet DEF Commit, tabVars
<1>3. CASE ApplySaved
  <2>1. saved.state # "none"
    BY <1>3 DEF ApplySaved
  <2>2. base = None
    BY <2>1 DEF LedgerInv
  <2> QED
    BY <1>3, <2>1, <2>2, LedgerQuiet DEF ApplySaved, tabVars
<1>4. ASSUME NEW t \in Tabs, Receive(t) PROVE LedgerInv'
  BY <1>4, LedgerQuiet DEF Receive
<1>5. ASSUME NEW t \in Tabs, SyncStep(t) PROVE LedgerInv'
  <2>1. ASSUME NEW p \in Readable, ReadHead(t, p) \/ ReadPartition(t, p) PROVE LedgerInv'
    BY <2>1, LedgerQuiet DEF ReadHead, ReadPartition
  <2> QED
    BY <1>5, <2>1, StartSyncLedger, StartLedgerLedger, SavingLedger DEF SyncStep
<1>6. ASSUME NEW t \in Tabs, ReadFails(t) \/ Refresh(t) PROVE LedgerInv'
  BY <1>6, EndLedger
<1>7. ASSUME NEW t \in Tabs, AcknowledgeNeutral(t) \/ Continue(t) PROVE LedgerInv'
  BY <1>7, SavingLedger
<1> QED
  BY <1>1, <1>2, <1>3, <1>4, <1>5, <1>6, <1>7 DEF Next

\* The log and the history grow, a session or the ledger may be another one that fits.
LEMMA ThroughSteps ==
    ASSUME SyncInv, ThroughInv, LogStep, base' = base, Seen(handled) \subseteq Seen(handled'),
           \/ ledger' = ledger
           \/ SavedThrough(ledger', log', base, Seen(handled')),
           \A u \in Tabs : \/ session'[u] = session[u] \/ session'[u] = None
                           \/ ReadThrough(session'[u], log', base, Seen(handled'))
    PROVE  ThroughInv'
<1>1. /\ log \in Seq(LogEntry) /\ log' \in Seq(LogEntry) /\ Extends(log, log')
      /\ ledger # None => LedgerFits(ledger, log)
      /\ \A u \in Tabs : session[u] # None => SessionFits(session[u], log)
  BY DEF SyncInv, TabOK, LogStep
<1>2. /\ \A sn : SessionFits(sn, log) /\ ReadThrough(sn, log, base, Seen(handled))
                   => ReadThrough(sn, log', base, Seen(handled'))
      /\ \A data : LedgerFits(data, log) /\ SavedThrough(data, log, base, Seen(handled))
                     => SavedThrough(data, log', base, Seen(handled'))
  BY <1>1, ThroughStays
<1>3. /\ ledger' # None => SavedThrough(ledger', log', base, Seen(handled'))
      /\ \A u \in Tabs : session'[u] # None =>
            ReadThrough(session'[u], log', base, Seen(handled'))
  BY <1>1, <1>2 DEF ThroughInv
<1> QED
  BY <1>3 DEF ThroughInv

LEMMA StartSyncThrough ==
    ASSUME SyncInv, LedgerInv, ThroughInv, NEW t \in Tabs, StartSync(t)
    PROVE  ThroughInv'
<1>1. LogStep
  BY ReconcileSteps DEF StartSync
<1>2. /\ base' = base /\ handled' = handled /\ ledger' = ledger
      /\ DOMAIN session = Tabs
      /\ log \in Seq(LogEntry) /\ log' \in Seq(LogEntry) /\ Extends(log, log')
  BY <1>1 DEF StartSync, SyncInv, LogStep
<1>3. \/ session' = session
      \/ session[t] = None /\ ledger # None /\ session' = [session EXCEPT ![t] = OpenSession(ledger)]
      \/ session[t] # None /\ session' = [session EXCEPT ![t] = session[t]]
  BY DEF StartSync
<1>4. CASE session[t] = None /\ ledger # None /\ session' = [session EXCEPT ![t] = OpenSession(ledger)]
  <2>1. LedgerFits(ledger, log) /\ SavedThrough(ledger, log, base, Seen(handled))
    BY <1>4 DEF SyncInv, ThroughInv
  <2>2. /\ SessionFits(OpenSession(ledger), log)
        /\ ReadThrough(OpenSession(ledger), log, base, Seen(handled))
    BY <1>2, <2>1, OpenedFits, OpenedThrough
  <2>3. ReadThrough(OpenSession(ledger), log', base, Seen(handled))
    BY <1>2, <2>2, ThroughStays
  <2> QED
    BY <1>1, <1>2, <1>4, <2>3, ThroughSteps
<1>5. CASE session' = session \/ session' = [session EXCEPT ![t] = session[t]]
  BY <1>1, <1>2, <1>5, ThroughSteps
<1> QED
  BY <1>3, <1>4, <1>5

LEMMA StartLedgerThrough ==
    ASSUME OneTab, SyncInv, LedgerInv, ThroughInv, NEW t \in Tabs, StartLedger(t)
    PROVE  ThroughInv'
<1>1. \A u \in Tabs : u = t
  BY DEF OneTab
<1>2. /\ base' \in Cursor /\ FetchCursor(session'[t]) = base' /\ ledger'.cursor = base'
      /\ ledger'.acknowledged = <<>> /\ session'[t].acknowledged = <<>>
      /\ log' = log /\ log \in Seq(LogEntry)
  BY StartLedgerLedger DEF StartLedger, SyncInv
<1>3. Range(<<>>) = {}
  BY DEF Range
\* Nothing lies between the start and the start.
<1>4. \A s \in DOMAIN log : \A p \in log[s].copies : ~(base'[p] < s /\ s <= base'[p])
  <2> SUFFICES ASSUME NEW s \in DOMAIN log, NEW p \in log[s].copies
               PROVE  ~(base'[p] < s /\ s <= base'[p])
    OBVIOUS
  <2>1. p \in Partitions /\ s \in Nat
    BY <1>2, CopiesReadable
  <2>2. base'[p] \in Nat
    BY <1>2, <2>1 DEF Cursor
  <2> QED
    BY <2>1, <2>2
<1>5. SavedThrough(ledger', log, base', Seen(handled'))
  BY <1>2, <1>3, <1>4 DEF SavedThrough
<1>6. ReadThrough(session'[t], log, base', Seen(handled'))
  BY <1>2, <1>3, <1>4 DEF ReadThrough, Acknowledged
<1> QED
  BY <1>1, <1>2, <1>5, <1>6 DEF ThroughInv

LEMMA SavingThrough ==
    ASSUME SyncInv, LedgerInv, ThroughInv, NEW t \in Tabs,
           PageArrives(t) \/ AcknowledgeNeutral(t) \/ Continue(t)
    PROVE  ThroughInv'
<1>1. /\ log \in Seq(LogEntry) /\ DOMAIN session = Tabs
      /\ ledger # None => LedgerFits(ledger, log)
      /\ session[t] # None => SessionFits(session[t], log)
  BY DEF SyncInv, TabOK
<1>2. /\ ledger # None /\ session[t] # None /\ log' = log /\ base' = base
      /\ \A u \in Tabs \ {t} : session'[u] = session[u]
      /\ SessionFits(session'[t], log)
      /\ \/ ledger' = ledger
         \/ ledger' = MergeLedgerData(ledger, LedgerData(session'[t]))
  BY SavingLedger
<1>3. /\ Seen(handled) \subseteq Seen(handled')
      /\ ReadThrough(session'[t], log, base, Seen(handled'))
  <2>1. ReadThrough(session[t], log, base, Seen(handled))
    BY <1>2 DEF ThroughInv
  <2>2. CASE PageArrives(t)
    <3> DEFINE new == Ingest(session[t], Released(t))
               copies == Copies(session[t]) \cup
                           Added(NoteIngested(session[t], Released(t)), Released(t))
    <3>1. session'[t] = new /\ handled' = handled \cup Gone(copies, new, "expiry")
      BY <1>1, <2>2 DEF PageArrives, Released
    <3>2. ReadThrough(new, log, base, Seen(handled \cup Gone(copies, new, "expiry")))
      BY <2>1, <2>2, IngestThrough DEF PageArrives
    <3> HIDE DEF new, copies
    <3> QED
      BY <3>1, <3>2, GoneSeen
  <2>3. CASE AcknowledgeNeutral(t) \/ Continue(t)
    <3>1. PICK ids \in Seq(EventIds), through \in {"dashboard", "player"} :
             AcknowledgePresentation(t, ids, through)
      BY <2>3, AcknowledgePresentationSteps
    <3> DEFINE new == AcknowledgeEvents(session[t], ids)
               copies == Copies(session[t])
    <3>2. session'[t] = new /\ handled' = handled \cup Gone(copies, new, through)
      BY <1>1, <3>1 DEF AcknowledgePresentation
    <3>3. ReadThrough(new, log, base, Seen(handled \cup Gone(copies, new, through)))
      BY <1>1, <1>2, <2>1, AcknowledgeThrough
    <3> HIDE DEF new, copies
    <3> QED
      BY <3>2, <3>3, GoneSeen
  <2> QED
    BY <2>2, <2>3
<1>4. LogStep
  BY <1>1, <1>2, LogStays
<1>5. \/ ledger' = ledger
      \/ SavedThrough(ledger', log, base, Seen(handled'))
  <2>1. LedgerFits(ledger, log) /\ SavedThrough(ledger, log, base, Seen(handled))
        /\ ledger \in Ledger
    BY <1>1, <1>2 DEF ThroughInv, LedgerFits
  <2>2. Extends(log, log)
    BY <1>1 DEF Extends
  <2>3. SavedThrough(ledger, log, base, Seen(handled'))
    BY <1>1, <1>3, <2>1, <2>2, ThroughStays
  <2> QED
    BY <1>1, <1>2, <1>3, <2>1, <2>3, SavedOfRead
<1> QED
  BY <1>2, <1>3, <1>4, <1>5, ThroughSteps

LEMMA NextThroughInv == OneTab /\ SyncInv /\ LedgerInv /\ ThroughInv /\ [Next]_vars => ThroughInv'
<1> SUFFICES ASSUME OneTab, SyncInv, LedgerInv, ThroughInv, [Next]_vars PROVE ThroughInv'
  OBVIOUS
\* Neither a session nor the ledger changes.
<1>1. ASSUME LogStep, UNCHANGED <<base, ledger, session, handled>> PROVE ThroughInv'
  BY <1>1, ThroughSteps
<1>2. log \in Seq(LogEntry) /\ DOMAIN session = Tabs
  BY DEF SyncInv
<1>3. log' = log => LogStep
  BY <1>2, LogStays
<1>4. CASE UNCHANGED vars
  BY <1>1, <1>3, <1>4 DEF vars
<1>5. CASE Commit \/ ApplySaved
  <2>1. LogStep
    BY <1>2, <1>5, CommitAppends DEF Commit, ApplySaved, LogStep
  <2> QED
    BY <1>1, <1>5, <2>1 DEF Commit, ApplySaved, tabVars
<1>6. ASSUME NEW t \in Tabs, Receive(t) PROVE ThroughInv'
  BY <1>1, <1>3, <1>6 DEF Receive
<1>7. ASSUME NEW t \in Tabs, SyncStep(t) PROVE ThroughInv'
  <2>1. ASSUME NEW p \in Readable, ReadHead(t, p) \/ ReadPartition(t, p) PROVE ThroughInv'
    BY <1>1, <1>3, <2>1 DEF ReadHead, ReadPartition
  <2> QED
    BY <1>7, <2>1, StartSyncThrough, StartLedgerThrough, SavingThrough DEF SyncStep
<1>8. ASSUME NEW t \in Tabs, ReadFails(t) \/ Refresh(t) PROVE ThroughInv'
  <2>1. /\ UNCHANGED <<log, base, ledger, handled>>
        /\ \A u \in Tabs : session'[u] = session[u] \/ session'[u] = None
    BY <1>2, <1>8 DEF ReadFails, Refresh
  <2> QED
    BY <1>3, <2>1, ThroughSteps
<1>9. ASSUME NEW t \in Tabs, AcknowledgeNeutral(t) \/ Continue(t) PROVE ThroughInv'
  BY <1>9, SavingThrough
<1> QED
  BY <1>4, <1>5, <1>6, <1>7, <1>8, <1>9 DEF Next

LEMMA InitHistory == Init => LedgerInv /\ ThroughInv
<1> SUFFICES ASSUME Init PROVE LedgerInv /\ ThroughInv
  OBVIOUS
<1>1. LedgerInv
  BY DEF Init, LedgerInv, ReceiptsKept, ReceiptsOutliveFailures
<1>2. ThroughInv
  BY DEF Init, ThroughInv
<1> QED
  BY <1>1, <1>2

\* In one tab, in every state: what will not be read again waits or was handled.  No copy
\* of an event is skipped between partitions, pages, passes, failures and refreshes.
THEOREM EventsNeverSkipped ==
    ASSUME OneTab
    PROVE  Spec => []NothingSkipped
<1>1. ThroughInv => NothingSkipped
  <2> SUFFICES ASSUME ThroughInv, NEW t \in Tabs, session[t] # None,
                      NEW s \in DOMAIN log, NEW p \in log[s].copies,
                      base[p] < s, s <= FetchCursor(session[t])[p]
               PROVE  \/ log[s].eventId \in Waiting(session[t])
                      \/ \E h \in handled : h.eventId = log[s].eventId
    BY DEF NothingSkipped
  <2>1. Covered(session[t], log, Seen(handled), s, p)
    BY DEF ThroughInv, ReadThrough
  <2> QED
    BY <2>1 DEF Covered, Waiting, Seen
<1>2. Init => SyncInv /\ LedgerInv /\ ThroughInv
  BY InitSyncInv, InitHistory
<1>3. (SyncInv /\ LedgerInv /\ ThroughInv) /\ [Next]_vars => (SyncInv /\ LedgerInv /\ ThroughInv)'
  BY NextSyncInv, NextLedgerInv, NextThroughInv
<1> QED
  BY <1>1, <1>2, <1>3, PTL DEF Spec

\* In one tab, in every state: the events of a command recovered from its receipt lie
\* beyond the ledger's start, however often the first reads fail.
THEOREM ReceiptsStayAhead ==
    ASSUME OneTab
    PROVE  Spec => []ReceiptsOutliveFailures
<1>1. LedgerInv => ReceiptsOutliveFailures
  BY DEF LedgerInv
<1>2. Init => SyncInv /\ LedgerInv
  BY InitSyncInv, InitHistory
<1>3. (SyncInv /\ LedgerInv) /\ [Next]_vars => (SyncInv /\ LedgerInv)'
  BY NextSyncInv, NextLedgerInv
<1> QED
  BY <1>1, <1>2, <1>3, PTL DEF Spec

-----------------------------------------------------------------------------
(* What the log says.                                                      *)

\* What the template publishes under one identifier again and again has one place, as
\* what players and the table may read has: only the GM's is copied twice.
RecurInOnePlace ==
    \A e, f \in Events : e.eventId = f.eventId /\ e.eventId \notin Unique =>
        \A p \in e.copies, q \in f.copies : p = q

\* Entries are events of the room, in the order of their revisions; what is unique
\* appears once, and a choice after the resolution it finishes.
Told(l) ==
    /\ \A s \in DOMAIN l : \E e \in Events : e.eventId = l[s].eventId /\ e.copies = l[s].copies
    /\ \A s, u \in DOMAIN l : l[s].eventId = l[u].eventId /\ l[s].eventId \in Unique => s = u
    /\ \A s, u \in DOMAIN l : s <= u => l[s].roomRevision <= l[u].roomRevision
    /\ \A u \in DOMAIN l : l[u].eventId \in DOMAIN ChoiceOf =>
          \E s \in DOMAIN l : s < u /\ l[s].eventId = ChoiceOf[l[u].eventId]

\* A batch: its events, none that must not recur, and choices after resolutions.
LEMMA BatchFacts ==
    ASSUME NEW b \in Batches
    PROVE  \E n \in Nat \ {0} :
              /\ DOMAIN b = 1..n /\ b \in [1..n -> Events]
              /\ \A i \in 1..n :
                    LET before == {log[j].eventId : j \in DOMAIN log} \cup
                                  {b[j].eventId : j \in 1..(i - 1)}
                    IN  /\ b[i].eventId \in Unique => b[i].eventId \notin before
                        /\ b[i].eventId \in DOMAIN ChoiceOf => ChoiceOf[b[i].eventId] \in before
<1>1. PICK n \in 1..MaxBatch : b \in [1..n -> Events]
  BY DEF Batches
<1>2. n \in Nat \ {0} /\ DOMAIN b = 1..n
  BY <1>1
<1> QED
  BY <1>1, <1>2 DEF Batches

\* The log and what is appended, by positions.
LEMMA CommittedIs ==
    ASSUME log \in Seq(LogEntry), NEW b, NEW n \in Nat \ {0}, b \in [1..n -> Events]
    PROVE  /\ DOMAIN Committed(b) = 1..(Len(log) + n)
           /\ DOMAIN log = 1..Len(log) /\ Len(log) \in Nat
           /\ \A s \in 1..Len(log) : Committed(b)[s] = log[s]
           /\ \A i \in 1..n :
                /\ Committed(b)[Len(log) + i].eventId = b[i].eventId
                /\ Committed(b)[Len(log) + i].copies = b[i].copies
                /\ Committed(b)[Len(log) + i].roomRevision = RoomRevision(log) + 1
<1> DEFINE entry(i) == [eventId |-> b[i].eventId, copies |-> b[i].copies,
                        roomRevision |-> RoomRevision(log) + 1]
           more == [i \in 1..n |-> entry(i)]
<1>1. \A i \in 1..n : entry(i) \in LogEntry
  <2> SUFFICES ASSUME NEW i \in 1..n PROVE entry(i) \in LogEntry
    OBVIOUS
  <2>1. b[i] \in Event /\ RoomRevision(log) \in Nat
    BY EventsAssumption, RevisionNat
  <2> QED
    BY <2>1 DEF Event, LogEntry
<1>2. \A i \in 1..n : /\ entry(i).eventId = b[i].eventId /\ entry(i).copies = b[i].copies
                      /\ entry(i).roomRevision = RoomRevision(log) + 1
  OBVIOUS
<1>3. Committed(b) = log \o more
  BY DEF Committed
<1> HIDE DEF entry
<1>4. more \in Seq(LogEntry) /\ Len(more) = n /\ \A i \in 1..n : more[i] = entry(i)
  BY <1>1
<1>5. DOMAIN log = 1..Len(log) /\ Len(log) \in Nat
  OBVIOUS
<1> HIDE DEF more
<1>6. /\ DOMAIN (log \o more) = 1..(Len(log) + n)
      /\ \A s \in 1..Len(log) : (log \o more)[s] = log[s]
      /\ \A i \in 1..n : (log \o more)[Len(log) + i] = more[i]
  BY <1>4, <1>5
<1> QED
  BY <1>2, <1>3, <1>4, <1>5, <1>6

\* A commit leaves the log telling the truth.
LEMMA CommitTold ==
    ASSUME log \in Seq(LogEntry), Told(log), NEW b \in Batches
    PROVE  Told(Committed(b))
<1>1. PICK n \in Nat \ {0} :
         /\ DOMAIN b = 1..n /\ b \in [1..n -> Events]
         /\ \A i \in 1..n :
               LET before == {log[j].eventId : j \in DOMAIN log} \cup
                             {b[j].eventId : j \in 1..(i - 1)}
               IN  /\ b[i].eventId \in Unique => b[i].eventId \notin before
                   /\ b[i].eventId \in DOMAIN ChoiceOf => ChoiceOf[b[i].eventId] \in before
  BY BatchFacts
<1> DEFINE m == Committed(b)
           N == Len(log)
<1>2. /\ DOMAIN m = 1..(N + n) /\ DOMAIN log = 1..N /\ N \in Nat
      /\ \A s \in 1..N : m[s] = log[s]
      /\ \A i \in 1..n : /\ m[N + i].eventId = b[i].eventId /\ m[N + i].copies = b[i].copies
                         /\ m[N + i].roomRevision = RoomRevision(log) + 1
  BY <1>1, CommittedIs
<1> HIDE DEF m, N
\* A position is one of the log, or one of the batch.
<1>3. \A s \in DOMAIN m : s \in 1..N \/ \E i \in 1..n : s = N + i
  <2> SUFFICES ASSUME NEW s \in DOMAIN m, s \notin 1..N PROVE \E i \in 1..n : s = N + i
    OBVIOUS
  <2>1. s - N \in 1..n /\ s = N + (s - N)
    BY <1>2
  <2> QED
    BY <2>1
\* What comes before an event of the batch.
<1>4. ASSUME NEW i \in 1..n, NEW s \in DOMAIN m, s < N + i
      PROVE  \/ s \in DOMAIN log /\ m[s].eventId = log[s].eventId
             \/ \E j \in 1..(i - 1) : m[s].eventId = b[j].eventId
  <2>1. CASE s \in 1..N
    BY <1>2, <2>1
  <2>2. ASSUME NEW j \in 1..n, s = N + j
        PROVE  \E k \in 1..(i - 1) : m[s].eventId = b[k].eventId
    <3>1. j \in 1..(i - 1)
      BY <1>2, <1>4, <2>2
    <3> QED
      BY <1>2, <2>2, <3>1
  <2> QED
    BY <1>3, <2>1, <2>2
<1>5. ASSUME NEW s \in DOMAIN m
      PROVE  \E e \in Events : e.eventId = m[s].eventId /\ e.copies = m[s].copies
  <2>1. CASE s \in 1..N
    BY <1>2, <2>1 DEF Told
  <2>2. ASSUME NEW i \in 1..n, s = N + i
        PROVE  \E e \in Events : e.eventId = m[s].eventId /\ e.copies = m[s].copies
    BY <1>1, <1>2, <2>2
  <2> QED
    BY <1>3, <2>1, <2>2
\* No unique event follows one like it.
<1>6. ASSUME NEW s \in DOMAIN m, NEW u \in DOMAIN m, s < u, m[s].eventId = m[u].eventId,
             m[s].eventId \in Unique
      PROVE  FALSE
  <2>1. CASE u \in 1..N
    <3>1. s \in 1..N
      BY <1>2, <1>6, <2>1
    <3> QED
      BY <1>2, <1>6, <2>1, <3>1 DEF Told
  <2>2. ASSUME NEW i \in 1..n, u = N + i PROVE FALSE
    <3>1. m[u].eventId = b[i].eventId /\ b[i].eventId \in Unique
      BY <1>2, <1>6, <2>2
    <3>2. b[i].eventId \notin {log[j].eventId : j \in DOMAIN log} \cup {b[j].eventId : j \in 1..(i - 1)}
      BY <1>1, <3>1
    <3>3. \/ s \in DOMAIN log /\ m[s].eventId = log[s].eventId
          \/ \E j \in 1..(i - 1) : m[s].eventId = b[j].eventId
      BY <1>4, <1>6, <2>2
    <3> QED
      BY <1>6, <3>1, <3>2, <3>3
  <2> QED
    BY <1>3, <2>1, <2>2
<1>7. \A s, u \in DOMAIN m : m[s].eventId = m[u].eventId /\ m[s].eventId \in Unique => s = u
  <2> SUFFICES ASSUME NEW s \in DOMAIN m, NEW u \in DOMAIN m, m[s].eventId = m[u].eventId,
                      m[s].eventId \in Unique
               PROVE  s = u
    OBVIOUS
  <2>1. s \in Int /\ u \in Int
    BY <1>2
  <2>2. ~(s < u) /\ ~(u < s)
    BY <1>6
  <2> QED
    BY <2>1, <2>2
\* The new revision is larger than all before.
<1>8. ASSUME NEW s \in 1..N
      PROVE  m[s].roomRevision \in Nat /\ m[s].roomRevision <= RoomRevision(log)
  <2>1. N \in DOMAIN log /\ log # <<>> /\ s \in DOMAIN log /\ s <= N
    BY <1>2 DEF N
  <2>2. RoomRevision(log) = log[N].roomRevision
    BY <2>1 DEF RoomRevision, N
  <2>3. log[s] \in LogEntry /\ log[s].roomRevision <= log[N].roomRevision
    BY <2>1 DEF Told
  <2> QED
    BY <1>2, <2>2, <2>3 DEF LogEntry
<1>9. ASSUME NEW s \in DOMAIN m, NEW u \in DOMAIN m, s <= u
      PROVE  m[s].roomRevision <= m[u].roomRevision
  <2>1. RoomRevision(log) \in Nat
    BY RevisionNat
  <2>2. CASE u \in 1..N
    <3>1. s \in 1..N
      BY <1>2, <1>9, <2>2
    <3> QED
      BY <1>2, <1>9, <2>2, <3>1 DEF Told
  <2>3. ASSUME NEW i \in 1..n, u = N + i PROVE m[s].roomRevision <= m[u].roomRevision
    <3>1. m[u].roomRevision = RoomRevision(log) + 1
      BY <1>2, <2>3
    <3>2. CASE s \in 1..N
      BY <1>8, <2>1, <3>1, <3>2
    <3>3. CASE \E j \in 1..n : s = N + j
      BY <1>2, <2>1, <3>1, <3>3
    <3> QED
      BY <1>3, <3>2, <3>3
  <2> QED
    BY <1>3, <2>2, <2>3
<1>10. ASSUME NEW u \in DOMAIN m, m[u].eventId \in DOMAIN ChoiceOf
       PROVE  \E s \in DOMAIN m : s < u /\ m[s].eventId = ChoiceOf[m[u].eventId]
  <2>1. CASE u \in 1..N
    <3>1. PICK s \in DOMAIN log : s < u /\ log[s].eventId = ChoiceOf[log[u].eventId]
      BY <1>2, <1>10, <2>1 DEF Told
    <3>2. s \in DOMAIN m
      BY <1>2
    <3> QED
      BY <1>2, <2>1, <3>1, <3>2
  <2>2. ASSUME NEW i \in 1..n, u = N + i
        PROVE  \E s \in DOMAIN m : s < u /\ m[s].eventId = ChoiceOf[m[u].eventId]
    <3>1. m[u].eventId = b[i].eventId
      BY <1>2, <2>2
    <3>2. ChoiceOf[b[i].eventId] \in
            {log[j].eventId : j \in DOMAIN log} \cup {b[j].eventId : j \in 1..(i - 1)}
      BY <1>1, <1>10, <3>1
    <3>3. ASSUME NEW j \in DOMAIN log, log[j].eventId = ChoiceOf[b[i].eventId]
          PROVE  \E s \in DOMAIN m : s < u /\ m[s].eventId = ChoiceOf[m[u].eventId]
      <4>1. j \in DOMAIN m /\ j < u
        BY <1>2, <2>2
      <4> QED
        BY <1>2, <3>1, <3>3, <4>1
    <3>4. ASSUME NEW j \in 1..(i - 1), b[j].eventId = ChoiceOf[b[i].eventId]
          PROVE  \E s \in DOMAIN m : s < u /\ m[s].eventId = ChoiceOf[m[u].eventId]
      <4>1. j \in 1..n /\ N + j \in DOMAIN m /\ N + j < u
        BY <1>2, <2>2
      <4> QED
        BY <1>2, <3>1, <3>4, <4>1
    <3> QED
      BY <3>2, <3>3, <3>4
  <2> QED
    BY <1>3, <2>1, <2>2
<1>11. Told(m)
  BY <1>5, <1>7, <1>9, <1>10 DEF Told
<1> QED
  BY <1>11 DEF m

-----------------------------------------------------------------------------
(* The copies of an entry.                                                 *)

\* A stored copy says of the log what the log says.
LEMMA KnownSays ==
    ASSUME NEW l \in Seq(LogEntry), NEW r \in KnownIn(l)
    PROVE  /\ r \in Record /\ r.sequence \in DOMAIN l /\ r.sequence \in Nat
           /\ r.partition \in l[r.sequence].copies
           /\ r.eventId = l[r.sequence].eventId /\ r.roomRevision = l[r.sequence].roomRevision
<1>1. r \in Record /\ r \in StoredIn(l, r.partition)
  BY DEF KnownIn
<1>2. PICK s \in DOMAIN l : r.partition \in l[s].copies /\
         r = [partition |-> r.partition, sequence |-> s, eventId |-> l[s].eventId,
              roomRevision |-> l[s].roomRevision]
  BY <1>1 DEF StoredIn
<1> DEFINE w == [partition |-> r.partition, sequence |-> s, eventId |-> l[s].eventId,
                 roomRevision |-> l[s].roomRevision]
<1>3. w.sequence = s /\ w.eventId = l[s].eventId /\ w.roomRevision = l[s].roomRevision
  OBVIOUS
<1>4. r.sequence = s /\ r.eventId = l[s].eventId /\ r.roomRevision = l[s].roomRevision
  BY <1>2, <1>3
<1> QED
  BY <1>1, <1>2, <1>4 DEF Record

OneCopyEach(sn) ==
    \A e \in Range(sn.pending) : \A c, d \in e.copies : c.partition = d.partition => c = d

Distinct(K) ==
    \A q, r \in K : q.partition = r.partition /\ q.sequence = r.sequence => q = r

LEMMA KnownDistinct ==
    ASSUME NEW l \in Seq(LogEntry)
    PROVE  Distinct(KnownIn(l))
<1>1. \A r \in KnownIn(l) :
         r = [partition |-> r.partition, sequence |-> r.sequence,
              eventId |-> l[r.sequence].eventId, roomRevision |-> l[r.sequence].roomRevision]
  <2> SUFFICES ASSUME NEW r \in KnownIn(l)
               PROVE  r = [partition |-> r.partition, sequence |-> r.sequence,
                           eventId |-> l[r.sequence].eventId,
                           roomRevision |-> l[r.sequence].roomRevision]
    OBVIOUS
  <2>1. /\ r \in Record /\ r.eventId = l[r.sequence].eventId
        /\ r.roomRevision = l[r.sequence].roomRevision
    BY KnownSays
  <2> QED
    BY <2>1 DEF Record
<1> QED
  BY <1>1 DEF Distinct

\* A page gives an entry no second copy of a partition.
LEMMA IngestOneCopy ==
    ASSUME NEW K, Truthful(K), Distinct(K), NEW sn, SessionOK(sn, K), CursorBehind(sn),
           OneCopyEach(sn), NEW records, IsFiniteSet(records), records \subseteq K
    PROVE  OneCopyEach(Ingest(sn, records))
<1> DEFINE noted == NoteIngested(sn, records)
           added == Added(noted, records)
           grown == AddCopies(noted, added)
           fewer == Expire(grown)
           new == RecomputeCursor(fewer)
<1>1. /\ SessionOK(noted, K) /\ noted.pending = sn.pending
      /\ \A r \in records : r.sequence <= noted.highest[r.partition]
  BY NotedKeeps
<1> HIDE DEF noted
<1>2. /\ added \subseteq records /\ IsFiniteSet(added) /\ added \subseteq K
      /\ \A r \in added : r.sequence \in Nat
  <2>1. added \subseteq records
    BY DEF Added
  <2> QED
    BY <2>1, FS_Subset DEF Truthful, Record
<1>3. \A c, d \in added : c.partition = d.partition /\ c.eventId = d.eventId => c = d
  <2> SUFFICES ASSUME NEW c \in added, NEW d \in added,
                      c.partition = d.partition, c.eventId = d.eventId
               PROVE  c = d
    OBVIOUS
  <2>1. c.sequence <= d.sequence /\ d.sequence <= c.sequence
    BY DEF Added
  <2>2. c.sequence = d.sequence
    BY <1>2, <2>1
  <2> QED
    BY <1>2, <2>2 DEF Distinct
<1>4. \A c \in added : \A e \in Range(sn.pending) : \A d \in e.copies :
         d.partition = c.partition => d.eventId # c.eventId
  BY <1>1 DEF Added, Wanted
<1> HIDE DEF added
<1>5. /\ SessionOK(grown, K)
      /\ \A e \in Range(grown.pending) : \A c \in e.copies :
            c \in added \/ \E d \in Range(sn.pending) : c \in d.copies
  <2>1. \A c \in added : c.sequence <= noted.highest[c.partition]
    BY <1>1, <1>2
  <2> QED
    BY <1>1, <1>2, <2>1, CopiesAdded
<1> HIDE DEF grown
<1>6. OneCopyEach(grown)
  <2> SUFFICES ASSUME NEW e \in Range(grown.pending), NEW c \in e.copies, NEW d \in e.copies,
                      c.partition = d.partition
               PROVE  c = d
    BY DEF OneCopyEach
  <2>1. c.eventId = e.eventId /\ d.eventId = e.eventId
    BY <1>5 DEF SessionOK, EntryOK
  <2>2. \A x \in Range(sn.pending) : \A y \in x.copies : y.eventId = x.eventId
    BY DEF SessionOK, EntryOK
  <2>3. CASE c \in added /\ d \in added
    BY <1>3, <2>1, <2>3
  <2>4. CASE c \in added /\ d \notin added
    BY <1>4, <1>5, <2>1, <2>4
  <2>5. CASE c \notin added /\ d \in added
    BY <1>4, <1>5, <2>1, <2>5
  <2>6. CASE c \notin added /\ d \notin added
    <3>1. PICK x \in Range(sn.pending) : c \in x.copies
      BY <1>5, <2>6
    <3>2. PICK y \in Range(sn.pending) : d \in y.copies
      BY <1>5, <2>6
    <3>3. x.eventId = y.eventId
      BY <2>1, <2>2, <3>1, <3>2
    <3>4. x = y
      BY <3>3, SequencesApart
    <3> QED
      BY <3>1, <3>2, <3>4 DEF OneCopyEach
  <2> QED
    BY <2>3, <2>4, <2>5, <2>6
<1>7. Range(fewer.pending) \subseteq Range(grown.pending)
  BY <1>5, ExpireKeeps
<1>8. new.pending = fewer.pending
  BY DEF RecomputeCursor
<1>9. Ingest(sn, records) = new
  BY DEF Ingest, grown, added, noted
<1> HIDE DEF fewer, new
<1> QED
  BY <1>6, <1>7, <1>8, <1>9 DEF OneCopyEach

\* acknowledge takes entries away, those whose events it names.
LEMMA AcknowledgeLeaves ==
    ASSUME NEW K, Truthful(K), NEW sn, SessionOK(sn, K), NEW ids \in Seq(EventIds)
    PROVE  /\ Range(AcknowledgeEvents(sn, ids).pending) \subseteq Range(sn.pending)
           /\ \A e \in Range(sn.pending) : e.eventId \notin Range(ids) =>
                 e \in Range(AcknowledgeEvents(sn, ids).pending)
<1> DEFINE waiting == Only(ids, {e.eventId : e \in Range(sn.pending)})
           held == Acknowledge(sn, waiting)
           new == AcknowledgeEvents(sn, ids)
<1>1. waiting \in Seq(EventIds) /\ Range(waiting) \subseteq Range(ids)
  BY Selected
<1> HIDE DEF waiting
<1>2. CASE waiting = <<>>
  BY <1>2 DEF AcknowledgeEvents, waiting
<1>3. CASE waiting # <<>>
  <2>1. new = RecomputeCursor(held)
    BY <1>3 DEF AcknowledgeEvents, waiting
  <2>2. Range(held.pending) = {e \in Range(sn.pending) : e.eventId \notin Range(waiting)}
    BY <1>1, AcknowledgeKeeps
  <2> HIDE DEF held
  <2>3. new.pending = held.pending
    BY <2>1 DEF RecomputeCursor
  <2> QED
    BY <1>1, <2>2, <2>3
<1> QED
  BY <1>2, <1>3

\* An event is shown from one of its copies.
LEMMA ShownIsACopy ==
    ASSUME NEW e, e.copies # {}, e.copies \subseteq Record
    PROVE  Shown(e) \in e.copies
<1> DEFINE rank == [p \in Partitions |-> CASE p = "gm" -> 1 [] p = "member" -> 2 [] p = "shared" -> 3]
           ranks == {rank[c.partition] : c \in e.copies}
<1>1. \A p \in Partitions : rank[p] \in Nat
  BY DEF Partitions
<1>2. \A c \in e.copies : c.partition \in Partitions
  BY DEF Record
<1> HIDE DEF rank
<1>3. ranks \in SUBSET Nat /\ ranks # {}
  BY <1>1, <1>2
<1>4. Min(ranks) \in ranks /\ \A n \in ranks : Min(ranks) <= n
  <2> HIDE DEF ranks
  <2> QED
    BY <1>3, LeastNat
<1>5. \E c \in e.copies : \A d \in e.copies : rank[c.partition] <= rank[d.partition]
  <2>1. PICK c \in e.copies : rank[c.partition] = Min(ranks)
    BY <1>4
  <2> QED
    BY <1>4, <2>1
<1> QED
  BY <1>5 DEF Shown, rank

\* All copies of an entry are of one revision.
LEMMA OneRevision ==
    ASSUME RecurInOnePlace, NEW l \in Seq(LogEntry), Told(l), NEW e, e.copies \subseteq KnownIn(l),
           \A c \in e.copies : c.eventId = e.eventId,
           \A c, d \in e.copies : c.partition = d.partition => c = d,
           NEW c \in e.copies, NEW d \in e.copies
    PROVE  c.roomRevision = d.roomRevision
<1>1. /\ c.sequence \in DOMAIN l /\ c.partition \in l[c.sequence].copies
      /\ c.eventId = l[c.sequence].eventId /\ c.roomRevision = l[c.sequence].roomRevision
  BY KnownSays
<1>2. /\ d.sequence \in DOMAIN l /\ d.partition \in l[d.sequence].copies
      /\ d.eventId = l[d.sequence].eventId /\ d.roomRevision = l[d.sequence].roomRevision
  BY KnownSays
<1>3. c.eventId = d.eventId
  OBVIOUS
<1>4. CASE c.eventId \in Unique
  BY <1>1, <1>2, <1>3, <1>4 DEF Told
<1>5. CASE c.eventId \notin Unique
  <2>1. PICK x \in Events : x.eventId = c.eventId /\ x.copies = l[c.sequence].copies
    BY <1>1 DEF Told
  <2>2. PICK y \in Events : y.eventId = d.eventId /\ y.copies = l[d.sequence].copies
    BY <1>2 DEF Told
  <2>3. c.partition = d.partition
    BY <1>1, <1>2, <1>3, <1>5, <2>1, <2>2 DEF RecurInOnePlace
  <2> QED
    BY <2>3
<1> QED
  BY <1>4, <1>5

-----------------------------------------------------------------------------
(* What is shown.                                                          *)

\* An entry waits, with more copies perhaps, or was handled.
KeptIn(e, sn, ids) ==
    \/ e.eventId \in ids
    \/ \E d \in Range(sn.pending) : d.eventId = e.eventId /\ e.copies \subseteq d.copies

\* What a tab publishes comes from its session, and is there still or was handled.
ShownOK(t) ==
    /\ projection[t] \in Nat
    /\ session[t] # None => OneCopyEach(session[t])
    /\ \A e \in Range(published[t]) :
          /\ session[t] # None
          /\ e.copies # {} /\ e.copies \subseteq KnownIn(log)
          /\ \A c \in e.copies : c.eventId = e.eventId
          /\ KeptIn(e, session[t], Seen(handled))

ShownInv ==
    /\ Told(log) /\ DOMAIN projection = Tabs
    /\ \A t \in Tabs : ShownOK(t)

\* A page, or an acknowledgement: entries grow, or leave for the history.
LEMMA SessionMoves ==
    ASSUME SyncInv, ShownInv, NEW t \in Tabs,
           PageArrives(t) \/ AcknowledgeNeutral(t) \/ Continue(t)
    PROVE  /\ session[t] # None /\ session'[t] # None /\ UNCHANGED <<log, projection>>
           /\ \A u \in Tabs \ {t} : session'[u] = session[u] /\ published'[u] = published[u]
           /\ SessionFits(session[t], log) /\ SessionFits(session'[t], log)
           /\ OneCopyEach(session'[t])
           /\ Seen(handled) \subseteq Seen(handled')
           /\ \A d \in Range(session[t].pending) : KeptIn(d, session'[t], Seen(handled'))
           /\ published'[t] = published[t] \/ published'[t] = Pending(session'[t])
<1>1. /\ log \in Seq(LogEntry) /\ SyncInv' /\ session[t] # None
      /\ DOMAIN session = Tabs /\ DOMAIN published = Tabs
      /\ TabOK(t) /\ OneCopyEach(session[t])
  BY PageArrivesSteps, AcknowledgePresentationSteps DEF SyncInv, ShownInv, ShownOK, TabOK, PageArrives
<1>2. /\ SessionFits(session[t], log) /\ SessionOK(session[t], KnownIn(log))
      /\ CursorBehind(session[t]) /\ Truthful(KnownIn(log)) /\ Distinct(KnownIn(log))
  BY <1>1, KnownFacts, KnownDistinct DEF TabOK, SessionFits
\* Each entry that waits has a copy.
<1>3. \A d \in Range(session[t].pending) :
         \E c \in Copies(session[t]) : c.eventId = d.eventId
  BY <1>2 DEF SessionOK, EntryOK, Copies
<1>4. CASE PageArrives(t)
  <2> DEFINE new == Ingest(session[t], Released(t))
             copies == Copies(session[t]) \cup
                         Added(NoteIngested(session[t], Released(t)), Released(t))
  <2>1. /\ session' = [session EXCEPT ![t] = new]
        /\ handled' = handled \cup Gone(copies, new, "expiry")
        /\ UNCHANGED <<log, projection>>
        /\ \/ published' = published
           \/ published' = [published EXCEPT ![t] = Pending(new)]
    BY <1>4 DEF PageArrives, Released
  <2>2. IsFiniteSet(Released(t)) /\ Released(t) \subseteq KnownIn(log) /\ SessionFits(new, log)
    BY <1>4, PageIngested DEF PageArrives
  <2>3. OneCopyEach(new)
    BY <1>1, <1>2, <2>2, IngestOneCopy
  <2>4. \A d \in Range(session[t].pending) : d.eventId \in Waiting(new) =>
           \E e \in Range(new.pending) : e.eventId = d.eventId /\ d.copies \subseteq e.copies
    BY <1>2, <2>2, IngestKeeps
  <2> HIDE DEF new
  <2>5. new # None
    BY <2>2, FetchCursorType DEF SessionFits
  <2>6. /\ Seen(handled) \subseteq Seen(handled')
        /\ \A c \in Copies(session[t]) : c.eventId \notin Waiting(new) => c.eventId \in Seen(handled')
    <3> HIDE DEF copies
    <3>1. \A c \in copies : c.eventId \notin Waiting(new) => c.eventId \in Seen(handled')
      BY <2>1, GoneSeen
    <3>2. Seen(handled) \subseteq Seen(handled')
      BY <2>1, GoneSeen
    <3> QED
      BY <3>1, <3>2 DEF copies
  <2>7. \A d \in Range(session[t].pending) : KeptIn(d, new, Seen(handled'))
    BY <1>3, <2>4, <2>6 DEF KeptIn
  <2>8. session'[t] = new /\ \A u \in Tabs \ {t} : session'[u] = session[u] /\ published'[u] = published[u]
    BY <1>1, <2>1
  <2>9. published'[t] = published[t] \/ published'[t] = Pending(new)
    BY <1>1, <2>1
  <2> QED
    BY <1>1, <1>2, <2>1, <2>2, <2>3, <2>5, <2>6, <2>7, <2>8, <2>9
<1>5. CASE AcknowledgeNeutral(t) \/ Continue(t)
  <2>1. PICK ids \in Seq(EventIds), through \in {"dashboard", "player"} :
           AcknowledgePresentation(t, ids, through)
    BY <1>5, AcknowledgePresentationSteps
  <2> DEFINE new == AcknowledgeEvents(session[t], ids)
             copies == Copies(session[t])
  <2>2. /\ session' = [session EXCEPT ![t] = new]
        /\ handled' = handled \cup Gone(copies, new, through)
        /\ UNCHANGED <<log, projection>>
        /\ published' = [published EXCEPT ![t] = Pending(new)]
    BY <2>1 DEF AcknowledgePresentation
  <2>3. /\ Range(new.pending) \subseteq Range(session[t].pending)
        /\ \A d \in Range(session[t].pending) : d.eventId \in Waiting(new) => d \in Range(new.pending)
    BY <1>2, AcknowledgeLeaves, AcknowledgeEventsKeeps
  <2> HIDE DEF new
  <2>4. session'[t] = new /\ \A u \in Tabs \ {t} : session'[u] = session[u] /\ published'[u] = published[u]
    BY <1>1, <2>2
  <2>5. SessionFits(new, log) /\ new # None
    <3>1. SessionFits(new, log)
      <4>1. SyncInv'
        BY <1>1
      <4>2. new # None => SessionFits(new, log)
        BY <4>1, <2>2, <2>4 DEF SyncInv, TabOK
      <4>3. new # None
        BY <1>2, AcknowledgeEventsKeeps, FetchCursorType DEF new
      <4> QED
        BY <4>2, <4>3
    <3> QED
      BY <3>1, FetchCursorType DEF SessionFits
  <2>6. OneCopyEach(new)
    BY <1>1, <2>3 DEF OneCopyEach
  <2>7. /\ Seen(handled) \subseteq Seen(handled')
        /\ \A c \in copies : c.eventId \notin Waiting(new) => c.eventId \in Seen(handled')
    <3> HIDE DEF copies
    <3> QED
      BY <2>2, GoneSeen
  <2>8. \A d \in Range(session[t].pending) : KeptIn(d, new, Seen(handled'))
    BY <1>3, <2>3, <2>7 DEF KeptIn
  <2>9. published'[t] = Pending(new)
    BY <1>1, <2>2
  <2> QED
    BY <1>1, <1>2, <2>2, <2>4, <2>5, <2>6, <2>7, <2>8, <2>9
<1> QED
  BY <1>4, <1>5

\* Keeping is passed on.
LEMMA KeptOn ==
    ASSUME NEW e, NEW old, NEW new, NEW ids, NEW more, ids \subseteq more, KeptIn(e, old, ids),
           \A d \in Range(old.pending) : KeptIn(d, new, more)
    PROVE  KeptIn(e, new, more)
<1>1. CASE e.eventId \in ids
  BY <1>1 DEF KeptIn
<1>2. ASSUME NEW d \in Range(old.pending), d.eventId = e.eventId, e.copies \subseteq d.copies
      PROVE  KeptIn(e, new, more)
  <2>1. KeptIn(d, new, more)
    OBVIOUS
  <2> QED
    BY <1>2, <2>1 DEF KeptIn
<1> QED
  BY <1>1, <1>2 DEF KeptIn

\* A tab that publishes what it did stays in order while the room and the history grow.
LEMMA ShownStays ==
    ASSUME SyncInv, ShownInv, NEW t \in Tabs, LogStep,
           Seen(handled) \subseteq Seen(handled'), projection'[t] \in Nat,
           published'[t] = published[t],
           session'[t] # None => OneCopyEach(session'[t]),
           session[t] # None => /\ session'[t] # None
                                /\ \A d \in Range(session[t].pending) :
                                      KeptIn(d, session'[t], Seen(handled'))
    PROVE  ShownOK(t)'
<1>1. KnownIn(log) \subseteq KnownIn(log') /\ ShownOK(t)
  BY LogGrowth DEF LogStep, SyncInv, ShownInv
<1>2. ASSUME NEW e \in Range(published[t])
      PROVE  /\ session'[t] # None
             /\ e.copies # {} /\ e.copies \subseteq KnownIn(log')
             /\ \A c \in e.copies : c.eventId = e.eventId
             /\ KeptIn(e, session'[t], Seen(handled'))
  <2>1. session[t] # None /\ KeptIn(e, session[t], Seen(handled))
    BY <1>1 DEF ShownOK
  <2>2. KeptIn(e, session'[t], Seen(handled'))
    BY <2>1, KeptOn
  <2> QED
    BY <1>1, <2>1, <2>2 DEF ShownOK
<1>3. Seen(handled)' = Seen(handled')
  BY DEF Seen
<1> QED
  BY <1>2, <1>3 DEF ShownOK, KnownIn, StoredIn, KeptIn, OneCopyEach

LEMMA KeptAsIs ==
    ASSUME NEW sn, NEW ids, NEW d \in Range(sn.pending)
    PROVE  KeptIn(d, sn, ids)
BY DEF KeptIn

LEMMA LaterIsNat ==
    ASSUME NEW m \in Nat, NEW n \in Nat
    PROVE  LaterRevision(m, n) \in Nat /\ m <= LaterRevision(m, n)
BY DEF LaterRevision, Greater

\* A session is opened without anything that waits.
LEMMA OpenedEmpty ==
    ASSUME NEW data
    PROVE  OneCopyEach(OpenSession(data)) /\ Range(OpenSession(data).pending) = {}
<1>1. OpenSession(data).pending = <<>> /\ Range(<<>>) = {}
  BY DEF OpenSession, Range
<1> QED
  BY <1>1 DEF OneCopyEach

\* Steps that publish nothing: what a tab has open stays, is opened empty, or all is gone.
LEMMA QuietlyShown ==
    ASSUME SyncInv, ShownInv, LogStep, Told(log'), Seen(handled) \subseteq Seen(handled'),
           DOMAIN projection' = Tabs, published' = published,
           \A t \in Tabs : projection'[t] \in Nat,
           \A t \in Tabs : \/ session'[t] = session[t]
                           \/ session[t] = None /\ \E data : session'[t] = OpenSession(data)
    PROVE  ShownInv'
<1>1. ASSUME NEW t \in Tabs PROVE ShownOK(t)'
  <2>1. session'[t] # None => OneCopyEach(session'[t])
    BY OpenedEmpty DEF ShownInv, ShownOK
  <2>2. session[t] # None =>
           /\ session'[t] # None
           /\ \A d \in Range(session[t].pending) : KeptIn(d, session'[t], Seen(handled'))
    BY KeptAsIs
  <2> QED
    BY <2>1, <2>2, ShownStays
<1> QED
  BY <1>1 DEF ShownInv, Told

LEMMA NextShownInv == SyncInv /\ ShownInv /\ [Next]_vars => ShownInv'
<1> SUFFICES ASSUME SyncInv, ShownInv, [Next]_vars PROVE ShownInv'
  OBVIOUS
<1>1. /\ log \in Seq(LogEntry) /\ Told(log) /\ DOMAIN session = Tabs /\ DOMAIN published = Tabs
      /\ DOMAIN projection = Tabs /\ \A t \in Tabs : projection[t] \in Nat
  BY DEF SyncInv, ShownInv, ShownOK
<1>2. RoomRevision(log) \in Nat /\ (log' = log => LogStep /\ Told(log'))
  BY <1>1, RevisionNat, LogStays
<1>3. ASSUME NEW b \in Batches, log' = Committed(b)
      PROVE  LogStep /\ Told(log') /\ RoomRevision(log') \in Nat
  <2>1. LogStep /\ Told(log')
    BY <1>1, <1>3, CommitAppends, CommitTold DEF LogStep
  <2> QED
    BY <2>1, RevisionNat DEF LogStep
\* What is read alone changes.
<1>4. ASSUME LogStep, Told(log'), UNCHANGED <<session, projection, published, handled>>
      PROVE  ShownInv'
  BY <1>1, <1>4, QuietlyShown
<1>5. CASE UNCHANGED vars
  BY <1>2, <1>4, <1>5 DEF vars, tabVars
<1>6. CASE Commit \/ ApplySaved
  BY <1>3, <1>4, <1>6 DEF Commit, ApplySaved, tabVars
<1>7. ASSUME NEW t \in Tabs, Receive(t) PROVE ShownInv'
  <2>1. PICK r \in 0..RoomRevision(log) :
           projection' = [projection EXCEPT ![t] = LaterRevision(@, r)]
    BY <1>7 DEF Receive
  <2>2. DOMAIN projection' = Tabs /\ \A u \in Tabs : projection'[u] \in Nat
    <3>1. r \in Nat /\ projection[t] \in Nat
      BY <1>1, <1>2, <2>1
    <3>2. LaterRevision(projection[t], r) \in Nat
      BY <3>1, LaterIsNat
    <3> QED
      BY <1>1, <2>1, <3>2
  <2>3. UNCHANGED <<log, session, published, handled>>
    BY <1>7 DEF Receive
  <2> QED
    BY <1>2, <2>2, <2>3, QuietlyShown
<1>8. ASSUME NEW t \in Tabs, StartSync(t) PROVE ShownInv'
  <2>1. LogStep /\ Told(log') /\ RoomRevision(log') \in Nat
    <3>1. log' = log \/ \E b \in Batches : log' = Committed(b)
      BY <1>8 DEF StartSync, Reconcile
    <3> QED
      BY <1>2, <1>3, <3>1
  <2>2. projection' = [projection EXCEPT ![t] = LaterRevision(@, RoomRevision(log'))]
        /\ UNCHANGED <<published, handled>>
    BY <1>8 DEF StartSync
  <2>3. DOMAIN projection' = Tabs /\ \A u \in Tabs : projection'[u] \in Nat
    BY <1>1, <2>1, <2>2, LaterIsNat
  <2>4. \/ session' = session
        \/ session[t] = None /\ session' = [session EXCEPT ![t] = OpenSession(ledger)]
        \/ session[t] # None /\ session' = [session EXCEPT ![t] = session[t]]
    BY <1>8 DEF StartSync
  <2>5. \A u \in Tabs : \/ session'[u] = session[u]
                        \/ session[u] = None /\ \E data : session'[u] = OpenSession(data)
    BY <1>1, <2>4
  <2> QED
    BY <2>1, <2>2, <2>3, <2>5, QuietlyShown
<1>9. ASSUME NEW t \in Tabs, StartLedger(t) PROVE ShownInv'
  <2>1. session[t] = None
    BY <1>9 DEF StartLedger, SyncInv, TabOK
  <2>2. \E data : session' = [session EXCEPT ![t] = OpenSession(data)]
    BY <1>9 DEF StartLedger
  <2>3. UNCHANGED <<log, projection, published, handled>>
    BY <1>9 DEF StartLedger
  <2>4. \A u \in Tabs : \/ session'[u] = session[u]
                        \/ session[u] = None /\ \E data : session'[u] = OpenSession(data)
    BY <1>1, <2>1, <2>2
  <2> QED
    BY <1>1, <1>2, <2>3, <2>4, QuietlyShown
<1>10. ASSUME NEW t \in Tabs, NEW p \in Readable, ReadHead(t, p) \/ ReadPartition(t, p)
       PROVE  ShownInv'
  BY <1>2, <1>4, <1>10 DEF ReadHead, ReadPartition
<1>11. ASSUME NEW t \in Tabs, ReadFails(t) PROVE ShownInv'
  BY <1>2, <1>4, <1>11 DEF ReadFails
<1>12. ASSUME NEW t \in Tabs, Refresh(t) PROVE ShownInv'
  <2>1. /\ session' = [session EXCEPT ![t] = None] /\ published' = [published EXCEPT ![t] = <<>>]
        /\ projection' = [projection EXCEPT ![t] = 0] /\ UNCHANGED <<log, handled>>
    BY <1>12 DEF Refresh
  <2>2. Range(<<>>) = {}
    BY DEF Range
  <2>3. ShownOK(t)'
    BY <1>1, <2>1, <2>2 DEF ShownOK
  <2>4. ASSUME NEW u \in Tabs, u # t PROVE ShownOK(u)'
    <3>1. /\ session'[u] = session[u] /\ published'[u] = published[u]
          /\ projection'[u] = projection[u]
      BY <1>1, <2>1, <2>4
    <3> QED
      BY <1>1, <1>2, <2>1, <3>1, ShownStays, KeptAsIs DEF ShownInv, ShownOK
  <2> QED
    BY <1>1, <2>1, <2>3, <2>4 DEF ShownInv, Told
<1>13. ASSUME NEW t \in Tabs, PageArrives(t) \/ AcknowledgeNeutral(t) \/ Continue(t)
       PROVE  ShownInv'
  <2>1. /\ session[t] # None /\ session'[t] # None /\ UNCHANGED <<log, projection>>
        /\ \A u \in Tabs \ {t} : session'[u] = session[u] /\ published'[u] = published[u]
        /\ SessionFits(session'[t], log)
        /\ OneCopyEach(session'[t])
        /\ Seen(handled) \subseteq Seen(handled')
        /\ \A d \in Range(session[t].pending) : KeptIn(d, session'[t], Seen(handled'))
        /\ published'[t] = published[t] \/ published'[t] = Pending(session'[t])
    BY <1>13, SessionMoves
  <2>2. ASSUME NEW u \in Tabs, u # t PROVE ShownOK(u)'
    BY <1>1, <1>2, <2>1, <2>2, ShownStays, KeptAsIs DEF ShownInv, ShownOK
  <2>3. CASE published'[t] = published[t]
    <3>1. ShownOK(t)'
      BY <1>1, <1>2, <2>1, <2>3, ShownStays
    <3> QED
      BY <1>1, <2>1, <2>2, <3>1 DEF ShownInv, Told
  <2>4. CASE published'[t] = Pending(session'[t])
    <3>1. Range(published'[t]) = Range(session'[t].pending) /\ SessionOK(session'[t], KnownIn(log))
      BY <1>1, <2>1, <2>4, KnownFacts, PendingIs DEF SessionFits
    <3>2. \A e \in Range(published'[t]) :
             /\ e.copies # {} /\ e.copies \subseteq KnownIn(log')
             /\ \A c \in e.copies : c.eventId = e.eventId
             /\ KeptIn(e, session'[t], Seen(handled'))
      BY <2>1, <3>1, KeptAsIs DEF SessionOK, EntryOK
    <3>3. Seen(handled)' = Seen(handled')
      BY DEF Seen
    <3>4. ShownOK(t)'
      BY <1>1, <2>1, <3>2, <3>3 DEF ShownOK, KnownIn, StoredIn, KeptIn, OneCopyEach
    <3> QED
      BY <1>1, <2>1, <2>2, <3>4 DEF ShownInv, Told
  <2> QED
    BY <2>1, <2>3, <2>4
<1> QED
  BY <1>5, <1>6, <1>7, <1>8, <1>9, <1>10, <1>11, <1>12, <1>13 DEF Next, SyncStep

LEMMA InitShownInv == Init => ShownInv
<1> SUFFICES ASSUME Init PROVE ShownInv
  OBVIOUS
<1>1. Range(<<>>) = {} /\ DOMAIN <<>> = {}
  BY DEF Range
<1>2. log = <<>> /\ Told(log)
  BY <1>1 DEF Init, Told
<1>3. ASSUME NEW t \in Tabs PROVE ShownOK(t)
  BY <1>1 DEF Init, ShownOK
<1> QED
  BY <1>2, <1>3 DEF Init, ShownInv

\* Two entries of one event, one with the copies of the other, are shown from one revision.
LEMMA ShownAlike ==
    ASSUME RecurInOnePlace, log \in Seq(LogEntry), Told(log),
           NEW sn, SessionOK(sn, KnownIn(log)), OneCopyEach(sn),
           NEW d \in Range(sn.pending), NEW e, e.copies # {}, e.copies \subseteq d.copies
    PROVE  Shown(e).roomRevision = Shown(d).roomRevision
<1>1. /\ d.copies \subseteq KnownIn(log) /\ d.copies \subseteq Record /\ d.copies # {}
      /\ \A c \in d.copies : c.eventId = d.eventId
  BY DEF SessionOK, EntryOK, KnownIn
<1>2. Shown(e) \in d.copies /\ Shown(d) \in d.copies
  BY <1>1, ShownIsACopy
<1>3. \A c, x \in d.copies : c.partition = x.partition => c = x
  BY DEF OneCopyEach
<1> QED
  BY <1>1, <1>2, <1>3, OneRevision

\* What is presented: the published entries whose copy has arrived.
LEMMA PresentedAre ==
    ASSUME NEW t \in Tabs, published[t] \in Seq(Entry)
    PROVE  Range(Presentation(t)) =
             {e \in Range(published[t]) : Shown(e).roomRevision <= projection[t]}
<1> DEFINE S == {e \in Range(published[t]) : Shown(e).roomRevision <= projection[t]}
<1>1. Presentation(t) = Only(published[t], S)
  BY DEF Presentation
<1>2. Range(published[t]) \cap S = S
  OBVIOUS
<1> HIDE DEF S
<1>3. Range(Presentation(t)) = Range(published[t]) \cap S
  BY <1>1, Selected
<1> QED
  BY <1>2, <1>3 DEF S

Stays(t, id) ==
    \/ id \in VisibleIds(t)'
    \/ \E h \in handled' : h.eventId = id
    \/ session'[t] = None

\* One step takes nothing away.
LEMMA ShownStep ==
    ASSUME RecurInOnePlace, SyncInv, SyncInv', ShownInv, [Next]_vars,
           NEW t \in Tabs, NEW id \in VisibleIds(t)
    PROVE  Stays(t, id)
<1>1. /\ log \in Seq(LogEntry) /\ Told(log) /\ DOMAIN session = Tabs /\ DOMAIN published = Tabs
      /\ DOMAIN projection = Tabs /\ \A u \in Tabs : projection[u] \in Nat
      /\ published[t] \in Seq(Entry) /\ published'[t] \in Seq(Entry)
      /\ RoomRevision(log) \in Nat
  BY RevisionNat DEF SyncInv, TabOK, ShownInv, ShownOK
<1>2. PICK e \in Range(published[t]) : Shown(e).roomRevision <= projection[t] /\ e.eventId = id
  BY <1>1, PresentedAre DEF VisibleIds
<1>3. /\ session[t] # None /\ e.copies # {} /\ e.copies \subseteq KnownIn(log)
      /\ KeptIn(e, session[t], Seen(handled))
  BY <1>2 DEF ShownInv, ShownOK
<1>4. Shown(e).roomRevision \in Nat
  <2>1. e.copies \subseteq Record
    BY <1>3 DEF KnownIn
  <2> QED
    BY <1>3, <2>1, ShownIsACopy DEF Record
\* An entry published after the step from a copy that has arrived is visible.
<1>5. ASSUME NEW d \in Range(published'[t]), d.eventId = id,
             Shown(d).roomRevision <= projection'[t]
      PROVE  Stays(t, id)
  <2>1. d \in Range(Presentation(t)')
    <3>1. published[t]' = published'[t] /\ projection[t]' = projection'[t]
      OBVIOUS
    <3> DEFINE S == {x \in Range(published'[t]) : Shown(x).roomRevision <= projection'[t]}
    <3>2. Presentation(t)' = Only(published'[t], S)
      BY DEF Presentation
    <3>3. d \in S
      BY <1>5
    <3> HIDE DEF S
    <3>4. Range(Only(published'[t], S)) = Range(published'[t]) \cap S
      BY <1>1, Selected
    <3> QED
      BY <3>2, <3>3, <3>4
  <2> QED
    BY <1>5, <2>1 DEF Stays, VisibleIds
\* Nothing is published, and no older projection rendered.
<1>6. ASSUME published'[t] = published[t], projection[t] <= projection'[t], projection'[t] \in Nat
      PROVE  Stays(t, id)
  <2>1. Shown(e).roomRevision <= projection'[t]
    BY <1>1, <1>2, <1>4, <1>6
  <2> QED
    BY <1>2, <1>5, <1>6, <2>1
<1>7. CASE UNCHANGED <<published, projection>>
  BY <1>1, <1>6, <1>7
<1>8. ASSUME NEW u \in Tabs, Receive(u) PROVE Stays(t, id)
  <2>1. PICK r \in 0..RoomRevision(log) :
           projection' = [projection EXCEPT ![u] = LaterRevision(@, r)]
    BY <1>8 DEF Receive
  <2>2. /\ LaterRevision(projection[u], r) \in Nat
        /\ projection[u] <= LaterRevision(projection[u], r)
    <3>1. r \in Nat /\ projection[u] \in Nat
      BY <1>1, <2>1
    <3> QED
      BY <3>1, LaterIsNat
  <2>3. projection'[t] \in Nat /\ projection[t] <= projection'[t]
    BY <1>1, <2>1, <2>2
  <2> QED
    BY <1>6, <1>8, <2>3 DEF Receive
<1>9. ASSUME NEW u \in Tabs, StartSync(u) PROVE Stays(t, id)
  <2>1. projection' = [projection EXCEPT ![u] = LaterRevision(@, RoomRevision(log'))]
        /\ published' = published /\ RoomRevision(log') \in Nat
    BY <1>9, RevisionNat DEF StartSync, SyncInv
  <2>2. /\ LaterRevision(projection[u], RoomRevision(log')) \in Nat
        /\ projection[u] <= LaterRevision(projection[u], RoomRevision(log'))
    BY <1>1, <2>1, LaterIsNat
  <2>3. projection'[t] \in Nat /\ projection[t] <= projection'[t]
    BY <1>1, <2>1, <2>2
  <2> QED
    BY <1>6, <2>1, <2>3
<1>10. ASSUME NEW u \in Tabs, Refresh(u) PROVE Stays(t, id)
  <2>1. CASE u = t
    BY <1>1, <1>10, <2>1 DEF Refresh, Stays
  <2>2. CASE u # t
    BY <1>1, <1>6, <1>10, <2>2 DEF Refresh
  <2> QED
    BY <2>1, <2>2
<1>11. ASSUME NEW u \in Tabs, PageArrives(u) \/ AcknowledgeNeutral(u) \/ Continue(u)
       PROVE  Stays(t, id)
  <2>1. /\ session'[u] # None /\ UNCHANGED <<log, projection>>
        /\ \A v \in Tabs \ {u} : session'[v] = session[v] /\ published'[v] = published[v]
        /\ SessionFits(session'[u], log)
        /\ OneCopyEach(session'[u])
        /\ Seen(handled) \subseteq Seen(handled')
        /\ \A d \in Range(session[u].pending) : KeptIn(d, session'[u], Seen(handled'))
        /\ published'[u] = published[u] \/ published'[u] = Pending(session'[u])
    BY <1>11, SessionMoves
  <2>2. CASE published'[t] = published[t]
    BY <1>1, <1>6, <2>1, <2>2
  <2>3. CASE u = t /\ published'[t] = Pending(session'[t])
    <3>1. KeptIn(e, session'[t], Seen(handled'))
      BY <1>3, <2>1, <2>3, KeptOn
    <3>2. SessionOK(session'[t], KnownIn(log))
      BY <2>1, <2>3 DEF SessionFits
    <3>3. CASE e.eventId \in Seen(handled')
      BY <1>2, <3>3 DEF Stays, Seen
    <3>4. ASSUME NEW d \in Range(session'[t].pending), d.eventId = e.eventId,
                 e.copies \subseteq d.copies
          PROVE  Stays(t, id)
      <4>1. Shown(e).roomRevision = Shown(d).roomRevision
        BY <1>1, <1>3, <2>1, <2>3, <3>2, <3>4, ShownAlike
      <4>2. d \in Range(published'[t])
        BY <1>1, <2>3, <3>2, <3>4, KnownFacts, PendingIs
      <4> QED
        BY <1>2, <1>5, <2>1, <3>4, <4>1, <4>2
    <3> QED
      BY <3>1, <3>3, <3>4 DEF KeptIn
  <2> QED
    BY <2>1, <2>2, <2>3
<1> QED
  BY <1>7, <1>8, <1>9, <1>10, <1>11
     DEF Next, vars, tabVars, SyncStep, Commit, ApplySaved, StartLedger, ReadHead, ReadPartition,
         ReadFails

\* For any number of tabs: what is shown stays shown until it is handled or the tab is
\* refreshed, if what recurs has one place.
THEOREM ShownStaysShown ==
    ASSUME RecurInOnePlace
    PROVE  Spec => ShownUntilHandled
<1>1. SyncInv /\ SyncInv' /\ ShownInv /\ [Next]_vars =>
        [\A t \in Tabs : \A id \in VisibleIds(t) :
            \/ id \in VisibleIds(t)'
            \/ \E h \in handled' : h.eventId = id
            \/ session'[t] = None]_vars
  BY ShownStep DEF Stays
<1>2. SyncInv /\ ShownInv /\ [Next]_vars => ShownInv'
  BY NextShownInv
<1>3. Init => ShownInv
  BY InitShownInv
<1> QED
  BY <1>1, <1>2, <1>3, SyncInvHolds, PTL DEF Spec, ShownUntilHandled

-----------------------------------------------------------------------------
(* What is let go of by itself.                                            *)

\* A choice is published where the resolution it finishes is, and a resolution once.
ChoicesLieWithin ==
    \A e, f \in Events : e.eventId \in DOMAIN ChoiceOf /\ f.eventId = ChoiceOf[e.eventId] =>
        e.copies \subseteq f.copies /\ f.eventId \in Unique

\* The resolution that an event of the log finishes, beyond the ledger's start.
Finishes(s, id) ==
    /\ id \in DOMAIN ChoiceOf /\ log[s].eventId = ChoiceOf[id]
    /\ \A p \in log[s].copies : base[p] < s

\* A choice is published together with its resolution, or after that was handled.
QueueOK(t) ==
    \A e \in Range(published[t]) : \A s \in DOMAIN log : Finishes(s, e.eventId) =>
        \/ log[s].eventId \in Seen(handled)
        \/ \E o \in Range(published[t]) : o.eventId = log[s].eventId

ChoiceInv ==
    /\ ChoicesWaitForSummaries
    /\ base = None => handled = {}
    /\ \A h \in handled : \E q \in DOMAIN log : log[q].eventId = h.eventId
    /\ \A t \in Tabs : QueueOK(t)

\* A choice's resolution stands before it, and nowhere else however the log grows.
LEMMA ResolutionBefore ==
    ASSUME ChoicesLieWithin, NEW l, NEW m, Told(l), Told(m), DOMAIN l \subseteq DOMAIN m,
           \A s \in DOMAIN l : m[s] = l[s],
           NEW q \in DOMAIN l, l[q].eventId \in DOMAIN ChoiceOf,
           NEW s \in DOMAIN m, m[s].eventId = ChoiceOf[l[q].eventId]
    PROVE  /\ s \in DOMAIN l /\ s < q /\ m[s] = l[s] /\ m[s].eventId \in Unique
           /\ l[q].copies \subseteq m[s].copies
<1>1. PICK u \in DOMAIN l : u < q /\ l[u].eventId = ChoiceOf[l[q].eventId]
  BY DEF Told
<1>2. PICK e \in Events : e.eventId = l[q].eventId /\ e.copies = l[q].copies
  BY DEF Told
<1>3. PICK f \in Events : f.eventId = m[s].eventId /\ f.copies = m[s].copies
  BY DEF Told
<1>4. e.copies \subseteq f.copies /\ f.eventId \in Unique
  BY <1>2, <1>3 DEF ChoicesLieWithin
<1>5. s = u
  BY <1>1, <1>3, <1>4 DEF Told
<1> QED
  BY <1>1, <1>2, <1>3, <1>4, <1>5

LEMMA GrowsInPlace ==
    ASSUME SyncInv, LogStep
    PROVE  DOMAIN log \subseteq DOMAIN log' /\ \A s \in DOMAIN log : log'[s] = log[s]
<1>1. /\ DOMAIN log = 1..Len(log) /\ DOMAIN log' = 1..Len(log') /\ Len(log) \in Nat
      /\ Len(log') \in Nat /\ Len(log) <= Len(log')
  BY DEF SyncInv, LogStep, Extends
<1> QED
  BY <1>1 DEF LogStep, Extends

\* What is published is of the log.
LEMMA PublishedLogged ==
    ASSUME SyncInv, ShownInv, NEW t \in Tabs, NEW e \in Range(published[t])
    PROVE  /\ session[t] # None /\ Shown(e) \in e.copies
           /\ \A c \in e.copies : /\ c.sequence \in DOMAIN log /\ c.sequence \in Nat
                                  /\ log[c.sequence].eventId = e.eventId
                                  /\ c.roomRevision = log[c.sequence].roomRevision
<1>1. /\ session[t] # None /\ e.copies # {} /\ e.copies \subseteq KnownIn(log)
      /\ \A c \in e.copies : c.eventId = e.eventId
      /\ log \in Seq(LogEntry)
  BY DEF ShownInv, ShownOK, SyncInv
<1>2. e.copies \subseteq Record
  BY <1>1 DEF KnownIn
<1> QED
  BY <1>1, <1>2, KnownSays, ShownIsACopy

\* The property, of every release of its own accord.
LetGoInTime(h) ==
    h.through = "dashboard" =>
        \A s \in DOMAIN log : Finishes(s, h.eventId) => log[s].eventId \in Seen(handled)

LEMMA ChoicesAre == ChoicesWaitForSummaries <=> \A h \in handled : LetGoInTime(h)
<1>1. \A id : id \in Seen(handled) <=> \E g \in handled : g.eventId = id
  BY DEF Seen
<1> QED
  BY <1>1 DEF ChoicesWaitForSummaries, LetGoInTime, Finishes

\* Steps that publish and handle nothing.
LEMMA QuietChoices ==
    ASSUME ChoicesLieWithin, SyncInv, ShownInv, LedgerInv, ChoiceInv, LogStep, Told(log'),
           handled' = handled, base' = base \/ base = None,
           \A t \in Tabs : published'[t] = published[t] \/ Range(published'[t]) = {}
    PROVE  ChoiceInv'
<1>1. DOMAIN log \subseteq DOMAIN log' /\ (\A s \in DOMAIN log : log'[s] = log[s]) /\ Told(log)
  BY GrowsInPlace DEF ShownInv
<1>2. Seen(handled)' = Seen(handled)
  BY DEF Seen
<1>3. base = None => handled = {} /\ \A t \in Tabs : Range(published[t]) = {}
  BY PublishedLogged DEF ChoiceInv, LedgerInv
\* A resolution after the step was one before.
<1>4. ASSUME NEW id, NEW q \in DOMAIN log, log[q].eventId = id, NEW s \in DOMAIN log',
             base' = base, Finishes(s, id)'
      PROVE  s \in DOMAIN log /\ log'[s] = log[s] /\ Finishes(s, id)
  <2>1. /\ id \in DOMAIN ChoiceOf /\ log'[s].eventId = ChoiceOf[id]
        /\ \A p \in log'[s].copies : base[p] < s
    BY <1>4 DEF Finishes
  <2>2. s \in DOMAIN log /\ log'[s] = log[s]
    BY <1>1, <1>4, <2>1, ResolutionBefore
  <2> QED
    BY <2>1, <2>2 DEF Finishes
<1>5. \A h \in handled' : \E q \in DOMAIN log' : log'[q].eventId = h.eventId
  BY <1>1 DEF ChoiceInv
<1>6. base' = None => handled' = {}
  BY <1>3 DEF ChoiceInv
<1>7. ASSUME NEW h \in handled' PROVE LetGoInTime(h)'
  <2>1. base' = base /\ h \in handled /\ LetGoInTime(h) /\ \E q \in DOMAIN log : log[q].eventId = h.eventId
    BY <1>3, ChoicesAre DEF ChoiceInv
  <2>2. ASSUME h.through = "dashboard", NEW s \in DOMAIN log', Finishes(s, h.eventId)'
        PROVE  log'[s].eventId \in Seen(handled)
    <3>1. s \in DOMAIN log /\ log'[s] = log[s] /\ Finishes(s, h.eventId)
      BY <1>4, <2>1, <2>2
    <3> QED
      BY <2>1, <2>2, <3>1 DEF LetGoInTime
  <2> QED
    BY <1>2, <2>2 DEF LetGoInTime
<1>8. ASSUME NEW t \in Tabs PROVE QueueOK(t)'
  <2>1. CASE Range(published'[t]) = {}
    BY <2>1 DEF QueueOK
  <2>2. CASE published'[t] = published[t] /\ Range(published[t]) # {}
    <3>1. base' = base /\ QueueOK(t)
      BY <1>3, <2>2 DEF ChoiceInv
    <3>2. ASSUME NEW e \in Range(published[t]), NEW s \in DOMAIN log', Finishes(s, e.eventId)'
          PROVE  \/ log'[s].eventId \in Seen(handled)
                 \/ \E o \in Range(published[t]) : o.eventId = log'[s].eventId
      <4>1. \E q \in DOMAIN log : log[q].eventId = e.eventId
        BY PublishedLogged
      <4>2. s \in DOMAIN log /\ log'[s] = log[s] /\ Finishes(s, e.eventId)
        BY <1>4, <3>1, <3>2, <4>1
      <4> QED
        BY <3>1, <3>2, <4>2 DEF QueueOK
    <3> QED
      BY <1>2, <2>2, <3>2 DEF QueueOK
  <2> QED
    BY <2>1, <2>2
<1>9. ChoicesWaitForSummaries'
  <2>1. \A id : id \in Seen(handled)' => \E g \in handled' : g.eventId = id
    BY DEF Seen
  <2> QED
    BY <1>7, <2>1 DEF ChoicesWaitForSummaries, LetGoInTime, Finishes
<1> QED
  BY <1>5, <1>6, <1>8, <1>9 DEF ChoiceInv

\* What a page or an acknowledgement adds to the history waited in the session, or came
\* with the page.
LEMMA GoneLogged ==
    ASSUME NEW copies, copies \subseteq KnownIn(log), log \in Seq(LogEntry), NEW sn, NEW through
    PROVE  \A h \in Gone(copies, sn, through) :
              /\ h.through = through
              /\ \E c \in copies : c.eventId = h.eventId /\ c.eventId \notin Waiting(sn)
              /\ \E q \in DOMAIN log : log[q].eventId = h.eventId
<1> SUFFICES ASSUME NEW h \in Gone(copies, sn, through)
             PROVE  /\ h.through = through
                    /\ \E c \in copies : c.eventId = h.eventId /\ c.eventId \notin Waiting(sn)
                    /\ \E q \in DOMAIN log : log[q].eventId = h.eventId
  OBVIOUS
<1>1. PICK c \in copies : /\ c.eventId \notin Waiting(sn)
                          /\ h = [eventId |-> c.eventId, sequence |-> c.sequence,
                                  through |-> through]
  BY DEF Gone
<1>2. c.sequence \in DOMAIN log /\ log[c.sequence].eventId = c.eventId
  BY KnownSays
<1> QED
  BY <1>1, <1>2

\* Publishing: a choice comes with its resolution.
LEMMA PublishedTogether ==
    ASSUME ChoicesLieWithin, log \in Seq(LogEntry), Told(log),
           NEW sn, SessionFits(sn, log), NEW b, NEW ids, ReadThrough(sn, log, b, ids),
           NEW e \in Range(sn.pending), e.eventId \in DOMAIN ChoiceOf,
           NEW s \in DOMAIN log, log[s].eventId = ChoiceOf[e.eventId],
           \A p \in log[s].copies : b[p] < s
    PROVE  \/ log[s].eventId \in ids
           \/ \E o \in Range(sn.pending) : o.eventId = log[s].eventId
<1>1. /\ SessionOK(sn, KnownIn(log)) /\ EntryOK(e, KnownIn(log), sn.highest)
      /\ sn.cursor \in Cursor /\ sn.highest \in Cursor
  BY DEF SessionFits, SessionOK, Session
<1>2. PICK c \in e.copies : c \in KnownIn(log) /\ c.eventId = e.eventId
                            /\ c.sequence <= sn.highest[c.partition]
  BY <1>1 DEF EntryOK
<1>3. /\ c.sequence \in DOMAIN log /\ c.sequence \in Nat /\ c.partition \in Partitions
      /\ c.partition \in log[c.sequence].copies /\ c.eventId = log[c.sequence].eventId
  BY <1>2, KnownSays DEF Record
<1>4. s < c.sequence /\ c.partition \in log[s].copies /\ s \in Nat
  BY <1>2, <1>3, ResolutionBefore, CopiesReadable
<1>5. b[c.partition] < s /\ s <= FetchCursor(sn)[c.partition]
  <2>1. sn.cursor[c.partition] \in Nat /\ sn.highest[c.partition] \in Nat
    BY <1>1, <1>3 DEF Cursor
  <2>2. FetchCursor(sn)[c.partition] = Greater(sn.cursor[c.partition], sn.highest[c.partition])
    BY <1>3 DEF FetchCursor
  <2> QED
    BY <1>2, <1>3, <1>4, <2>1, <2>2 DEF Greater
<1>6. Covered(sn, log, ids, s, c.partition)
  BY <1>4, <1>5 DEF ReadThrough
<1> QED
  BY <1>6 DEF Covered

\* Ordering of revisions: what finishes a presented event is presented with it.
LEMMA PresentedTogether ==
    ASSUME ChoicesLieWithin, SyncInv, ShownInv, NEW t \in Tabs,
           NEW e \in Range(Presentation(t)), NEW s \in DOMAIN log, Finishes(s, e.eventId),
           NEW o \in Range(published[t]), o.eventId = log[s].eventId
    PROVE  o \in Range(Presentation(t))
<1>1. /\ log \in Seq(LogEntry) /\ Told(log) /\ published[t] \in Seq(Entry) /\ projection[t] \in Nat
  BY DEF SyncInv, TabOK, ShownInv, ShownOK
<1>2. e \in Range(published[t]) /\ Shown(e).roomRevision <= projection[t]
  BY <1>1, PresentedAre
<1> DEFINE q == Shown(e).sequence
           r == Shown(o).sequence
<1>3. /\ q \in DOMAIN log /\ log[q].eventId = e.eventId
      /\ Shown(e).roomRevision = log[q].roomRevision
  BY <1>2, PublishedLogged
<1>4. /\ r \in DOMAIN log /\ log[r].eventId = o.eventId
      /\ Shown(o).roomRevision = log[r].roomRevision
  BY PublishedLogged
<1> HIDE DEF q, r
<1>5. s < q /\ log[s].eventId \in Unique
  BY <1>1, <1>3, ResolutionBefore DEF Finishes
<1>6. r = s
  BY <1>1, <1>4, <1>5 DEF Told
<1>7. /\ log[s] \in LogEntry /\ log[q] \in LogEntry /\ s \in Nat /\ q \in Nat
  BY <1>1, <1>3
<1>8. log[s].roomRevision <= log[q].roomRevision
  BY <1>1, <1>3, <1>5, <1>7 DEF Told
<1>9. Shown(o).roomRevision <= projection[t]
  BY <1>1, <1>2, <1>3, <1>4, <1>6, <1>7, <1>8 DEF LogEntry
<1> QED
  BY <1>1, <1>9, PresentedAre

\* The dashboard lets go of a choice when nothing it finishes is in the queue.
LEMMA LetGoWhenFree ==
    ASSUME ChoicesLieWithin, SyncInv, ShownInv, ChoiceInv, NEW t \in Tabs, AcknowledgeNeutral(t),
           NEW h \in Gone(Copies(session[t]), session'[t], "dashboard"),
           NEW s \in DOMAIN log, Finishes(s, h.eventId)
    PROVE  log[s].eventId \in Seen(handled)
<1> DEFINE queue == Presentation(t)
           free == {e \in Range(queue) : ~IsHeldForResolution(queue, e)}
           neutral == Only(queue, free)
           ids == Ids(neutral)
<1>1. /\ log \in Seq(LogEntry) /\ published[t] \in Seq(Entry) /\ DOMAIN session = Tabs
      /\ session[t] # None => SessionFits(session[t], log)
  BY DEF SyncInv, TabOK
<1>2. /\ queue \in Seq(Entry) /\ Range(queue) \subseteq Range(published[t])
  BY <1>1, AcknowledgedAre
<1>3. /\ session[t] # None /\ session' = [session EXCEPT ![t] = AcknowledgeEvents(@, ids)]
  BY DEF AcknowledgeNeutral, AcknowledgePresentation
<1> HIDE DEF queue
<1>4. neutral \in Seq(Entry) /\ Range(neutral) = free
  <2>1. Range(queue) \cap free = free
    OBVIOUS
  <2> HIDE DEF free
  <2> QED
    BY <1>2, <2>1, Selected
<1> HIDE DEF neutral
<1>5. ids \in Seq(EventIds) /\ Range(ids) = {e.eventId : e \in free}
  <2> HIDE DEF free
  <2> QED
    BY <1>4, IdsAre
<1> HIDE DEF ids
<1>6. /\ Truthful(KnownIn(log)) /\ SessionOK(session[t], KnownIn(log))
      /\ session'[t] = AcknowledgeEvents(session[t], ids)
  BY <1>1, <1>3, KnownFacts DEF SessionFits
\* What is gone was among those released.
<1>7. PICK c \in Copies(session[t]) : c.eventId = h.eventId /\ c.eventId \notin Waiting(session'[t])
  <2>1. PICK c \in Copies(session[t]) :
           /\ c.eventId \notin Waiting(session'[t])
           /\ h = [eventId |-> c.eventId, sequence |-> c.sequence, through |-> "dashboard"]
    BY DEF Gone
  <2> QED
    BY <2>1
<1>8. PICK x \in Range(session[t].pending) : x.eventId = h.eventId
  BY <1>6, <1>7 DEF Copies, SessionOK, EntryOK
<1>9. h.eventId \in Range(ids)
  <2>1. x \notin Range(session'[t].pending)
    BY <1>7, <1>8 DEF Waiting
  <2> QED
    BY <1>5, <1>6, <1>8, <2>1, AcknowledgeLeaves
<1>10. PICK e \in free : e.eventId = h.eventId
  BY <1>5, <1>9
<1>11. /\ e \in Range(queue) /\ e \in Range(published[t])
       /\ \A o \in Range(queue) : o.eventId # log[s].eventId
  BY <1>2, <1>10 DEF IsHeldForResolution, Finishes
<1>12. \A o \in Range(published[t]) : o.eventId # log[s].eventId
  BY <1>10, <1>11, PresentedTogether DEF queue
<1> QED
  BY <1>10, <1>11, <1>12 DEF ChoiceInv, QueueOK

\* What is let go of now is of the log, and by itself only when nothing is left to finish.
LetGoNow(h) ==
    /\ \E q \in DOMAIN log : log[q].eventId = h.eventId
    /\ h.through = "dashboard" =>
          \A s \in DOMAIN log : Finishes(s, h.eventId) => log[s].eventId \in Seen(handled)

\* A page, or an acknowledgement.
LEMMA SavingChoices ==
    ASSUME ChoicesLieWithin, SyncInv, ShownInv, LedgerInv, ThroughInv, ChoiceInv, NEW t \in Tabs,
           PageArrives(t) \/ AcknowledgeNeutral(t) \/ Continue(t)
    PROVE  ChoiceInv'
<1>1. /\ session[t] # None /\ session'[t] # None /\ log' = log /\ base' = base
      /\ \A u \in Tabs \ {t} : published'[u] = published[u]
      /\ SessionFits(session[t], log) /\ SessionFits(session'[t], log)
      /\ Seen(handled) \subseteq Seen(handled')
      /\ published'[t] = published[t] \/ published'[t] = Pending(session'[t])
  BY SessionMoves DEF PageArrives, AcknowledgeNeutral, Continue, AcknowledgePresentation
<1>2. /\ log \in Seq(LogEntry) /\ Told(log) /\ DOMAIN session = Tabs /\ Truthful(KnownIn(log))
      /\ SessionOK(session[t], KnownIn(log)) /\ SessionOK(session'[t], KnownIn(log))
  BY <1>1, KnownFacts DEF SyncInv, ShownInv, SessionFits
<1>3. base # None /\ Seen(handled)' = Seen(handled')
  BY <1>1 DEF LedgerInv, Seen
<1>4. ReadThrough(session'[t], log, base, Seen(handled'))
  <2>1. ThroughInv'
    BY SavingThrough
  <2> QED
    BY <1>1, <1>3, <2>1 DEF ThroughInv, ReadThrough, Covered
\* What is added to the history.
<1>5. \A h \in handled' \ handled : LetGoNow(h)
  <2>1. Copies(session[t]) \subseteq KnownIn(log)
    BY <1>2 DEF Copies, SessionOK, EntryOK
  <2>2. CASE PageArrives(t)
    <3> DEFINE copies == Copies(session[t]) \cup
                           Added(NoteIngested(session[t], Released(t)), Released(t))
    <3>1. /\ session'[t] = Ingest(session[t], Released(t))
          /\ handled' = handled \cup Gone(copies, session'[t], "expiry")
      BY <1>2, <2>2 DEF PageArrives, Released
    <3>2. Released(t) \subseteq KnownIn(log)
      BY <2>2, PageIngested DEF PageArrives
    <3>3. copies \subseteq KnownIn(log)
      BY <2>1, <3>2 DEF Added
    <3> HIDE DEF copies
    <3>4. \A h \in Gone(copies, session'[t], "expiry") :
             h.through = "expiry" /\ \E q \in DOMAIN log : log[q].eventId = h.eventId
      BY <1>2, <3>3, GoneLogged
    <3> QED
      BY <3>1, <3>4 DEF LetGoNow
  <2>3. ASSUME NEW through, NEW ids, AcknowledgePresentation(t, ids, through),
               through = "dashboard" => AcknowledgeNeutral(t)
        PROVE  \A h \in handled' \ handled : LetGoNow(h)
    <3>1. handled' = handled \cup Gone(Copies(session[t]), session'[t], through)
      BY <1>2, <2>3 DEF AcknowledgePresentation
    <3>2. \A h \in Gone(Copies(session[t]), session'[t], through) :
             h.through = through /\ \E q \in DOMAIN log : log[q].eventId = h.eventId
      BY <1>2, <2>1, GoneLogged
    <3>3. ASSUME NEW h \in Gone(Copies(session[t]), session'[t], through),
                 h.through = "dashboard", NEW s \in DOMAIN log, Finishes(s, h.eventId)
          PROVE  log[s].eventId \in Seen(handled)
      <4>1. through = "dashboard"
        BY <3>2, <3>3
      <4> QED
        BY <2>3, <3>3, <4>1, LetGoWhenFree
    <3> QED
      BY <3>1, <3>2, <3>3 DEF LetGoNow
  <2>4. CASE AcknowledgeNeutral(t)
    <3>1. \E ids : AcknowledgePresentation(t, ids, "dashboard")
      BY <2>4 DEF AcknowledgeNeutral
    <3> QED
      BY <2>3, <2>4, <3>1
  <2>5. CASE Continue(t)
    <3>1. \E ids : AcknowledgePresentation(t, ids, "player")
      BY <2>5 DEF Continue
    <3> QED
      BY <2>3, <3>1
  <2> QED
    BY <2>2, <2>4, <2>5
\* The history after the step.
<1>6. ASSUME NEW h \in handled'
      PROVE  /\ \E q \in DOMAIN log : log[q].eventId = h.eventId
             /\ h.through = "dashboard" =>
                   \A s \in DOMAIN log : Finishes(s, h.eventId) => log[s].eventId \in Seen(handled')
  <2>1. CASE h \in handled
    <3>1. (\E q \in DOMAIN log : log[q].eventId = h.eventId) /\ LetGoInTime(h)
      BY <2>1, ChoicesAre DEF ChoiceInv
    <3> QED
      BY <1>1, <3>1 DEF LetGoInTime
  <2>2. CASE h \notin handled
    BY <1>1, <1>5, <2>2 DEF LetGoNow
  <2> QED
    BY <2>1, <2>2
<1>7. \A s : \A id : Finishes(s, id)' <=> Finishes(s, id)
  BY <1>1 DEF Finishes
<1>8. ChoicesWaitForSummaries'
  <2>1. \A id : id \in Seen(handled') => \E g \in handled' : g.eventId = id
    BY DEF Seen
  <2> QED
    BY <1>1, <1>6, <2>1 DEF ChoicesWaitForSummaries, Finishes
<1>9. ASSUME NEW u \in Tabs, published'[u] = published[u] PROVE QueueOK(u)'
  <2>1. \A e \in Range(published[u]) : \A s \in DOMAIN log : Finishes(s, e.eventId) =>
           \/ log[s].eventId \in Seen(handled')
           \/ \E o \in Range(published[u]) : o.eventId = log[s].eventId
    BY <1>1 DEF ChoiceInv, QueueOK
  <2> QED
    BY <1>1, <1>3, <1>9, <2>1 DEF QueueOK, Finishes
<1>10. ASSUME published'[t] = Pending(session'[t]) PROVE QueueOK(t)'
  <2>1. Range(published'[t]) = Range(session'[t].pending)
    BY <1>2, <1>10, PendingIs
  <2>2. \A e \in Range(published'[t]) : \A s \in DOMAIN log : Finishes(s, e.eventId) =>
           \/ log[s].eventId \in Seen(handled')
           \/ \E o \in Range(published'[t]) : o.eventId = log[s].eventId
    BY <1>1, <1>2, <1>4, <2>1, PublishedTogether DEF Finishes
  <2> QED
    BY <1>1, <1>3, <2>2 DEF QueueOK, Finishes
<1>11. \A u \in Tabs : QueueOK(u)'
  BY <1>1, <1>9, <1>10
<1> QED
  BY <1>1, <1>3, <1>6, <1>8, <1>11 DEF ChoiceInv

LEMMA NextChoiceInv ==
    ChoicesLieWithin /\ SyncInv /\ ShownInv /\ LedgerInv /\ ThroughInv /\ ChoiceInv /\ [Next]_vars
        => ChoiceInv'
<1> SUFFICES ASSUME ChoicesLieWithin, SyncInv, ShownInv, LedgerInv, ThroughInv, ChoiceInv,
                    [Next]_vars
             PROVE  ChoiceInv'
  OBVIOUS
<1>1. /\ log \in Seq(LogEntry) /\ DOMAIN published = Tabs /\ Range(<<>>) = {}
      /\ log' = log => LogStep
  BY LogStays DEF SyncInv, Range
<1>2. Told(log')
  <2>1. ShownInv'
    BY NextShownInv
  <2> QED
    BY <2>1 DEF ShownInv, Told
<1>3. ASSUME LogStep, UNCHANGED <<base, handled, published>> PROVE ChoiceInv'
  BY <1>2, <1>3, QuietChoices
<1>4. \A b \in Batches : log' = Committed(b) => LogStep
  BY <1>1, CommitAppends DEF LogStep
<1>5. CASE UNCHANGED vars
  BY <1>1, <1>3, <1>5 DEF vars, tabVars
<1>6. CASE Commit \/ ApplySaved
  BY <1>3, <1>4, <1>6 DEF Commit, ApplySaved, tabVars
<1>7. ASSUME NEW t \in Tabs, Receive(t) PROVE ChoiceInv'
  BY <1>1, <1>3, <1>7 DEF Receive
<1>8. ASSUME NEW t \in Tabs, StartSync(t) PROVE ChoiceInv'
  <2>1. LogStep
    BY <1>1, <1>4, <1>8 DEF StartSync, Reconcile
  <2> QED
    BY <1>3, <1>8, <2>1 DEF StartSync
<1>9. ASSUME NEW t \in Tabs, StartLedger(t) PROVE ChoiceInv'
  <2>1. UNCHANGED <<log, handled, published>> /\ (base' = base \/ base = None)
    BY <1>9 DEF StartLedger
  <2> QED
    BY <1>1, <1>2, <2>1, QuietChoices
<1>10. ASSUME NEW t \in Tabs, NEW p \in Readable, ReadHead(t, p) \/ ReadPartition(t, p)
       PROVE  ChoiceInv'
  BY <1>1, <1>3, <1>10 DEF ReadHead, ReadPartition
<1>11. ASSUME NEW t \in Tabs, ReadFails(t) PROVE ChoiceInv'
  BY <1>1, <1>3, <1>11 DEF ReadFails
<1>12. ASSUME NEW t \in Tabs, Refresh(t) PROVE ChoiceInv'
  <2>1. UNCHANGED <<log, handled, base>> /\ published' = [published EXCEPT ![t] = <<>>]
    BY <1>12 DEF Refresh
  <2>2. \A u \in Tabs : published'[u] = published[u] \/ Range(published'[u]) = {}
    BY <1>1, <2>1
  <2> QED
    BY <1>1, <1>2, <2>1, <2>2, QuietChoices
<1>13. ASSUME NEW t \in Tabs, PageArrives(t) \/ AcknowledgeNeutral(t) \/ Continue(t)
       PROVE  ChoiceInv'
  BY <1>13, SavingChoices
<1> QED
  BY <1>5, <1>6, <1>7, <1>8, <1>9, <1>10, <1>11, <1>12, <1>13 DEF Next, SyncStep

LEMMA InitChoiceInv == Init => ChoiceInv
<1> SUFFICES ASSUME Init PROVE ChoiceInv
  OBVIOUS
<1>1. Range(<<>>) = {}
  BY DEF Range
<1>2. handled = {} /\ \A t \in Tabs : published[t] = <<>>
  BY DEF Init
<1>3. \A t \in Tabs : QueueOK(t)
  BY <1>1, <1>2 DEF QueueOK
<1> QED
  BY <1>2, <1>3 DEF ChoiceInv, ChoicesWaitForSummaries

\* In one tab: the dashboard lets go of an injury choice by itself only when the
\* resolution it finishes has been dismissed or given up before, if a choice is published
\* where its resolution is.
THEOREM ChoicesFollowSummaries ==
    ASSUME OneTab, ChoicesLieWithin
    PROVE  Spec => []ChoicesWaitForSummaries
<1> DEFINE Inv == SyncInv /\ ShownInv /\ LedgerInv /\ ThroughInv /\ ChoiceInv
<1>1. Inv => ChoicesWaitForSummaries
  BY DEF ChoiceInv
<1>2. Init => Inv
  BY InitSyncInv, InitShownInv, InitHistory, InitChoiceInv
<1>3. Inv /\ [Next]_vars => Inv'
  BY NextSyncInv, NextShownInv, NextLedgerInv, NextThroughInv, NextChoiceInv
<1> QED
  BY <1>1, <1>2, <1>3, PTL DEF Spec

-----------------------------------------------------------------------------
(* Lists without repetition, and their limits.                              *)

\* A list without repetition is as long as its range is large.
LEMMA InjectiveLength ==
    ASSUME NEW X, NEW s \in Seq(X), IsInjective(s)
    PROVE  IsFiniteSet(Range(s)) /\ Cardinality(Range(s)) = Len(s)
<1>1. DOMAIN s = 1..Len(s) /\ Len(s) \in Nat
  OBVIOUS
<1>2. IsFiniteSet(1..Len(s)) /\ Cardinality(1..Len(s)) = Len(s)
  BY <1>1, FS_Interval
<1>3. s \in Bijection(1..Len(s), Range(s))
  <2>1. s \in [1..Len(s) -> Range(s)]
    BY <1>1 DEF Range
  <2>2. \A y \in Range(s) : \E i \in 1..Len(s) : s[i] = y
    BY <1>1 DEF Range
  <2> QED
    BY <1>1, <2>1, <2>2 DEF Bijection, Injection, Surjection, IsInjective
<1>4. ExistsBijection(1..Len(s), Range(s))
  BY <1>3 DEF ExistsBijection
<1> QED
  BY <1>2, <1>4, FS_Bijection

LEMMA ConcatInjective ==
    ASSUME NEW X, NEW s \in Seq(X), NEW u \in Seq(X), IsInjective(s), IsInjective(u),
           Range(s) \cap Range(u) = {}
    PROVE  IsInjective(s \o u)
<1>1. /\ DOMAIN (s \o u) = 1..(Len(s) + Len(u))
      /\ \A i \in 1..(Len(s) + Len(u)) :
            (s \o u)[i] = IF i <= Len(s) THEN s[i] ELSE u[i - Len(s)]
      /\ Len(s) \in Nat /\ Len(u) \in Nat
      /\ DOMAIN s = 1..Len(s) /\ DOMAIN u = 1..Len(u)
  OBVIOUS
<1>2. ASSUME NEW i \in 1..(Len(s) + Len(u)), i <= Len(s)
      PROVE  i \in DOMAIN s /\ (s \o u)[i] = s[i] /\ s[i] \in Range(s)
  <2>1. i \in DOMAIN s /\ (s \o u)[i] = s[i]
    BY <1>1, <1>2
  <2> QED
    BY <2>1 DEF Range
<1>3. ASSUME NEW i \in 1..(Len(s) + Len(u)), ~(i <= Len(s))
      PROVE  /\ i - Len(s) \in DOMAIN u /\ (s \o u)[i] = u[i - Len(s)]
             /\ u[i - Len(s)] \in Range(u)
  <2>1. i - Len(s) \in DOMAIN u /\ (s \o u)[i] = u[i - Len(s)]
    BY <1>1, <1>3
  <2> QED
    BY <2>1 DEF Range
<1>4. ASSUME NEW i \in 1..(Len(s) + Len(u)), NEW j \in 1..(Len(s) + Len(u)), (s \o u)[i] = (s \o u)[j]
      PROVE  i = j
  <2>1. CASE i <= Len(s) /\ j <= Len(s)
    BY <1>2, <1>4, <2>1 DEF IsInjective
  <2>2. CASE ~(i <= Len(s)) /\ ~(j <= Len(s))
    <3>1. i - Len(s) = j - Len(s)
      BY <1>3, <1>4, <2>2 DEF IsInjective
    <3> QED
      BY <1>1, <3>1
  <2>3. CASE i <= Len(s) /\ ~(j <= Len(s))
    BY <1>2, <1>3, <1>4, <2>3
  <2>4. CASE ~(i <= Len(s)) /\ j <= Len(s)
    BY <1>2, <1>3, <1>4, <2>4
  <2> QED
    BY <2>1, <2>2, <2>3, <2>4
<1> QED
  BY <1>1, <1>4 DEF IsInjective

LEMMA PartInjective ==
    ASSUME NEW X, NEW s \in Seq(X), IsInjective(s), NEW m \in 1..(Len(s) + 1), NEW n \in 0..Len(s)
    PROVE  IsInjective(SubSeq(s, m, n))
<1>1. Len(s) \in Nat /\ DOMAIN s = 1..Len(s) /\ m \in Nat /\ n \in Nat
  OBVIOUS
<1>2. /\ DOMAIN SubSeq(s, m, n) = 1..(n - m + 1)
      /\ \A i \in 1..(n - m + 1) : SubSeq(s, m, n)[i] = s[m + i - 1]
  <2>1. CASE m <= n
    BY <1>1, <2>1
  <2>2. CASE ~(m <= n)
    BY <1>1, <2>2
  <2> QED
    BY <2>1, <2>2
<1>3. ASSUME NEW i \in 1..(n - m + 1), NEW j \in 1..(n - m + 1), s[m + i - 1] = s[m + j - 1]
      PROVE  i = j
  <2>1. m + i - 1 \in DOMAIN s /\ m + j - 1 \in DOMAIN s
    BY <1>1
  <2>2. m + i - 1 = m + j - 1
    BY <1>3, <2>1 DEF IsInjective
  <2> QED
    BY <1>1, <2>2
<1> QED
  BY <1>2, <1>3 DEF IsInjective

LEMMA NewestBounded ==
    ASSUME NEW X, NEW s \in Seq(X), IsInjective(s), NEW n \in Nat \ {0}
    PROVE  /\ IsInjective(NewestOf(s, n)) /\ Len(NewestOf(s, n)) <= n
           /\ Len(s) <= n => NewestOf(s, n) = s
<1> DEFINE m == IF Len(s) > n THEN Len(s) - n + 1 ELSE 1
<1>1. /\ Len(s) \in Nat /\ Len(s) \in 0..Len(s) /\ m \in 1..(Len(s) + 1)
      /\ Len(s) - m + 1 <= n /\ (Len(s) <= n => m = 1)
  OBVIOUS
<1>2. NewestOf(s, n) = SubSeq(s, m, Len(s))
  BY DEF NewestOf
<1> HIDE DEF m
<1>3. IsInjective(SubSeq(s, m, Len(s)))
  BY <1>1, PartInjective
<1>4. Len(SubSeq(s, m, Len(s))) <= n
  BY <1>1
<1>5. m = 1 => SubSeq(s, m, Len(s)) = s
  BY <1>1
<1> QED
  BY <1>1, <1>2, <1>3, <1>4, <1>5

\* The list after new acknowledgements: bounded, without repetition, and as long as all
\* that was ever acknowledged fits in it, complete.
LEMMA ListGrows ==
    ASSUME NEW a \in Seq(EventIds), NEW b \in Seq(EventIds), IsInjective(a), IsInjective(b)
    PROVE  LET m == MergeAcknowledgedIds(a, b)
           IN  /\ m \in Seq(EventIds) /\ IsInjective(m) /\ Len(m) <= MaxAcknowledged
               /\ Range(m) \subseteq Range(a) \cup Range(b)
               /\ \A S : /\ IsFiniteSet(S) /\ Cardinality(S) <= MaxAcknowledged
                         /\ Range(a) \subseteq S /\ Range(b) \subseteq S
                         => Range(m) = Range(a) \cup Range(b)
<1> DEFINE more == Only(b, Range(b) \ Range(a))
           all == a \o more
<1>1. /\ more \in Seq(EventIds) /\ Range(more) = Range(b) \ Range(a) /\ IsInjective(more)
  <2>1. Range(b) \cap (Range(b) \ Range(a)) = Range(b) \ Range(a)
    OBVIOUS
  <2> QED
    BY <2>1, Selected
<1>2. MergeAcknowledgedIds(a, b) = NewestOf(all, MaxAcknowledged)
  BY DEF MergeAcknowledgedIds
<1> HIDE DEF more
<1>3. all \in Seq(EventIds) /\ Range(all) = Range(a) \cup Range(b) /\ IsInjective(all)
  <2>1. Range(a) \cap Range(more) = {}
    BY <1>1
  <2>2. Range(a) \cup Range(more) = Range(a) \cup Range(b)
    BY <1>1
  <2> QED
    BY <1>1, <2>1, <2>2, ConcatRange, ConcatInjective
<1> HIDE DEF all
<1>4. MaxAcknowledged \in Nat \ {0}
  BY LimitsAssumption
<1>5. /\ NewestOf(all, MaxAcknowledged) \in Seq(EventIds)
      /\ Range(NewestOf(all, MaxAcknowledged)) \subseteq Range(all)
      /\ IsInjective(NewestOf(all, MaxAcknowledged))
      /\ Len(NewestOf(all, MaxAcknowledged)) <= MaxAcknowledged
      /\ Len(all) <= MaxAcknowledged => NewestOf(all, MaxAcknowledged) = all
  BY <1>3, <1>4, Newest, NewestBounded
<1>6. ASSUME NEW S, IsFiniteSet(S), Cardinality(S) <= MaxAcknowledged,
             Range(a) \subseteq S, Range(b) \subseteq S
      PROVE  Len(all) <= MaxAcknowledged
  <2>1. Range(all) \in SUBSET S
    BY <1>3, <1>6
  <2>2. Cardinality(Range(all)) <= Cardinality(S)
    BY <1>6, <2>1, FS_Subset
  <2>3. Cardinality(Range(all)) = Len(all) /\ Len(all) \in Nat /\ Cardinality(S) \in Nat
    BY <1>3, <1>6, InjectiveLength, FS_CardinalityType
  <2> QED
    BY <1>4, <1>6, <2>2, <2>3
<1> QED
  BY <1>2, <1>3, <1>5, <1>6

\* An event has one entry: entries and identifiers are without repetition.
LEMMA EntriesOnce ==
    ASSUME NEW s \in Seq(Entry), OneEntryEach(s)
    PROVE  /\ IsInjective(s) /\ IsInjective(Ids(s))
           /\ \A d, e \in Range(s) : d.eventId = e.eventId => d = e
<1>1. \A d, e \in Range(s) : d.eventId = e.eventId => d = e
  BY DEF Range, OneEntryEach
<1> QED
  BY <1>1 DEF OneEntryEach, IsInjective, Ids

LEMMA EntriesApart ==
    ASSUME NEW s, IsInjective(s), \A d, e \in Range(s) : d.eventId = e.eventId => d = e
    PROVE  OneEntryEach(s)
<1> SUFFICES ASSUME NEW i \in DOMAIN s, NEW j \in DOMAIN s, s[i].eventId = s[j].eventId
             PROVE  i = j
  BY DEF OneEntryEach
<1>1. s[i] \in Range(s) /\ s[j] \in Range(s)
  BY DEF Range
<1> QED
  BY <1>1 DEF IsInjective

LEMMA SomeEntries ==
    ASSUME NEW s \in Seq(Entry), OneEntryEach(s), NEW S
    PROVE  /\ Only(s, S) \in Seq(Entry) /\ OneEntryEach(Only(s, S))
           /\ Range(Only(s, S)) = Range(s) \cap S
<1>1. /\ Only(s, S) \in Seq(Entry) /\ Range(Only(s, S)) = Range(s) \cap S
      /\ IsInjective(Only(s, S))
  BY EntriesOnce, Selected
<1> QED
  BY <1>1, EntriesOnce, EntriesApart

LEMMA PartOfEntries ==
    ASSUME NEW s \in Seq(Entry), OneEntryEach(s), NEW m \in 1..(Len(s) + 1), NEW n \in 0..Len(s)
    PROVE  SubSeq(s, m, n) \in Seq(Entry) /\ OneEntryEach(SubSeq(s, m, n))
<1>1. IsInjective(SubSeq(s, m, n))
  BY EntriesOnce, PartInjective
<1>2. Len(s) \in Nat /\ DOMAIN s = 1..Len(s) /\ m \in Nat /\ n \in Nat
  OBVIOUS
<1>3. /\ SubSeq(s, m, n) \in Seq(Entry)
      /\ DOMAIN SubSeq(s, m, n) = 1..(n - m + 1)
      /\ \A i \in 1..(n - m + 1) : SubSeq(s, m, n)[i] = s[m + i - 1] /\ m + i - 1 \in DOMAIN s
  <2>1. CASE m <= n
    BY <1>2, <2>1
  <2>2. CASE ~(m <= n)
    BY <1>2, <2>2
  <2> QED
    BY <2>1, <2>2
<1>4. Range(SubSeq(s, m, n)) \subseteq Range(s)
  BY <1>3 DEF Range
<1> QED
  BY <1>1, <1>3, <1>4, EntriesOnce, EntriesApart

\* What waits, in the order of the log.
LEMMA PendingOnce ==
    ASSUME NEW K, Truthful(K), NEW sn, SessionOK(sn, K)
    PROVE  /\ Pending(sn) \in Seq(Entry) /\ OneEntryEach(Pending(sn))
           /\ Range(Pending(sn)) = Range(sn.pending)
           /\ Len(Pending(sn)) = Len(sn.pending)
           /\ Len(sn.pending) = Cardinality(Range(sn.pending))
           /\ IsFiniteSet(Range(sn.pending))
<1> DEFINE all == Range(sn.pending)
<1>1. all \subseteq Entry /\ IsFiniteSet(all) /\ sn.pending \in Seq(Entry)
  BY InRange DEF SessionOK, Session
<1>2. \A e \in all : e.sequence \in Nat
  BY <1>1 DEF Entry
<1>3. \A d, e \in all : d.sequence = e.sequence \/ d.eventId = e.eventId => d = e
  BY SequencesApart
<1>4. /\ InOrder(all) \in Seq(all) /\ Range(InOrder(all)) = all
      /\ \A i, j \in DOMAIN InOrder(all) :
            i < j => InOrder(all)[i].sequence < InOrder(all)[j].sequence
  <2> HIDE DEF all
  <2> QED
    BY <1>1, <1>2, <1>3, Ordered
<1>5. Pending(sn) = InOrder(all)
  BY DEF Pending
<1> DEFINE s == InOrder(all)
<1>6. IsInjective(s)
  <2> SUFFICES ASSUME NEW i \in DOMAIN s, NEW j \in DOMAIN s, s[i] = s[j]
               PROVE  i = j
    BY DEF IsInjective
  <2> HIDE DEF s, all
  <2>1. i \in Nat /\ j \in Nat /\ s[i] \in all /\ s[j] \in all
    BY <1>4 DEF s
  <2>2. s[i].sequence \in Nat /\ s[j].sequence \in Nat
    BY <1>2, <2>1
  <2>3. ~(i < j) /\ ~(j < i)
    BY <1>4, <2>2 DEF s
  <2> QED
    BY <2>1, <2>3
<1>7. s \in Seq(Entry) /\ OneEntryEach(s) /\ Range(s) = all
  <2> HIDE DEF all
  <2> QED
    BY <1>1, <1>3, <1>4, <1>6, EntriesApart
<1>8. IsInjective(sn.pending)
  BY <1>1, EntriesOnce DEF SessionOK
<1>9. Cardinality(all) = Len(s) /\ Cardinality(all) = Len(sn.pending)
  <2> HIDE DEF s
  <2>1. Cardinality(Range(s)) = Len(s)
    BY <1>6, <1>7, InjectiveLength DEF s
  <2>2. Cardinality(all) = Len(sn.pending)
    BY <1>1, <1>8, InjectiveLength
  <2> QED
    BY <1>7, <2>1, <2>2
<1> QED
  BY <1>1, <1>5, <1>7, <1>9

\* acknowledgeInternal is a merge of what is acknowledged.
LEMMA AcknowledgedList ==
    ASSUME NEW K, Truthful(K), NEW sn, SessionOK(sn, K), NEW ids \in Seq(EventIds)
    PROVE  Acknowledge(sn, ids).acknowledged = MergeAcknowledgedIds(sn.acknowledged, ids)
BY DEF SessionOK, Session, Acknowledge, MergeAcknowledgedIds, Acknowledged

\* The limits of one list: what parseIdList demands of it when it is loaded again.
ListOK(list) == IsInjective(list) /\ Len(list) <= MaxAcknowledged

\* A finite set of at most as many events as a list may hold.
Fits(S) == IsFiniteSet(S) /\ Cardinality(S) <= MaxAcknowledged

LEMMA AcknowledgeBounded ==
    ASSUME NEW K, Truthful(K), NEW sn, SessionOK(sn, K), NEW ids \in Seq(EventIds),
           ListOK(sn.acknowledged), IsInjective(ids)
    PROVE  LET new == Acknowledge(sn, ids)
           IN  /\ ListOK(new.acknowledged)
               /\ \A S : Fits(S) /\ Acknowledged(sn) \subseteq S /\ Range(ids) \subseteq S
                         => Acknowledged(new) = Acknowledged(sn) \cup Range(ids)
<1> DEFINE new == Acknowledge(sn, ids)
<1>1. sn.acknowledged \in Seq(EventIds)
  BY DEF SessionOK, Session
<1>2. new.acknowledged = MergeAcknowledgedIds(sn.acknowledged, ids)
  BY AcknowledgedList
<1> HIDE DEF new
<1>3. ListOK(new.acknowledged)
  BY <1>1, <1>2, ListGrows DEF ListOK
<1>4. ASSUME NEW S, Fits(S), Acknowledged(sn) \subseteq S, Range(ids) \subseteq S
      PROVE  Acknowledged(new) = Acknowledged(sn) \cup Range(ids)
  BY <1>1, <1>2, <1>4, ListGrows DEF ListOK, Fits, Acknowledged
<1> QED
  BY <1>3, <1>4 DEF new

\* The overflow is what the limit leaves no room for.
LEMMA OverflowFits ==
    ASSUME NEW K, Truthful(K), NEW sn, SessionOK(sn, K)
    PROVE  /\ IsInjective(Overflow(sn))
           /\ Cardinality({e \in Range(sn.pending) : e.eventId \notin Range(Overflow(sn))})
                <= MaxPending
<1> DEFINE oldest == Pending(sn)
           k == IF Len(oldest) > MaxPending THEN Len(oldest) - MaxPending ELSE 0
           first == SubSeq(oldest, 1, k)
           left == {e \in Range(sn.pending) : e.eventId \notin Range(Overflow(sn))}
<1>1. /\ oldest \in Seq(Entry) /\ OneEntryEach(oldest) /\ Range(oldest) = Range(sn.pending)
  BY PendingOnce
<1>2. Overflow(sn) = Ids(first)
  BY DEF Overflow, Pending
<1> HIDE DEF oldest
<1>3. /\ Len(oldest) \in Nat /\ MaxPending \in Nat /\ k \in 0..Len(oldest)
      /\ Len(oldest) - k <= MaxPending /\ 1 \in 1..(Len(oldest) + 1)
      /\ DOMAIN oldest = 1..Len(oldest)
  BY <1>1, LimitsAssumption
<1> HIDE DEF k
<1>4. first \in Seq(Entry) /\ OneEntryEach(first)
  BY <1>1, <1>3, PartOfEntries
<1>5. \A i \in 1..k : oldest[i].eventId \in Range(Ids(first))
  <2>1. DOMAIN first = 1..k /\ \A i \in 1..k : first[i] = oldest[i]
    BY <1>1, <1>3
  <2> HIDE DEF first
  <2>2. \A i \in 1..k : Ids(first)[i] = oldest[i].eventId /\ i \in DOMAIN Ids(first)
    BY <2>1 DEF Ids
  <2> QED
    BY <2>2 DEF Range
<1> HIDE DEF first
<1>6. IsInjective(Overflow(sn))
  BY <1>2, <1>4, EntriesOnce
<1> DEFINE rest == (k + 1)..Len(oldest)
           f == [i \in rest |-> oldest[i]]
<1>7. left \subseteq {f[i] : i \in rest}
  <2> SUFFICES ASSUME NEW e \in left PROVE \E i \in rest : e = oldest[i]
    OBVIOUS
  <2>1. PICK i \in 1..Len(oldest) : e = oldest[i]
    BY <1>1, <1>3 DEF Range
  <2>2. ~(i \in 1..k)
    BY <1>2, <1>5, <2>1
  <2>3. i \in rest
    BY <1>3, <2>2
  <2> QED
    BY <2>1, <2>3
<1>8. IsFiniteSet(rest) /\ Cardinality(rest) <= MaxPending
  <2>1. k + 1 \in Int /\ Len(oldest) \in Int
    BY <1>3
  <2>2. Cardinality(rest) = IF k + 1 > Len(oldest) THEN 0 ELSE Len(oldest) - (k + 1) + 1
    BY <2>1, FS_Interval
  <2>3. IsFiniteSet(rest)
    BY <2>1, FS_Interval
  <2> HIDE DEF rest
  <2>4. Cardinality(rest) <= MaxPending
    BY <1>3, <2>2
  <2> QED
    BY <2>3, <2>4
<1> HIDE DEF rest
<1>9. f \in Surjection(rest, {f[i] : i \in rest})
  BY DEF Surjection
<1>10. /\ IsFiniteSet({f[i] : i \in rest})
       /\ Cardinality({f[i] : i \in rest}) <= Cardinality(rest)
  BY <1>8, <1>9, FS_Surjection
<1> HIDE DEF f, left
<1>11. IsFiniteSet(left) /\ Cardinality(left) <= Cardinality({f[i] : i \in rest})
  BY <1>7, <1>10, FS_Subset
<1>12. /\ Cardinality(left) \in Nat /\ Cardinality(rest) \in Nat
       /\ Cardinality({f[i] : i \in rest}) \in Nat /\ MaxPending \in Nat
  BY <1>3, <1>8, <1>10, <1>11, FS_CardinalityType
<1>13. Cardinality(left) <= MaxPending
  BY <1>8, <1>10, <1>11, <1>12
<1> QED
  BY <1>6, <1>13 DEF left

-----------------------------------------------------------------------------
(* A ledger within its limits.                                              *)

\* What a step takes from the queue.
Left(old, new) == {e.eventId : e \in {d \in Range(old.pending) : d.eventId \notin Waiting(new)}}

\* expire: within both limits, and what it gives up it remembers while the list has room.
LEMMA ExpireBounded ==
    ASSUME NEW K, Truthful(K), NEW sn, SessionOK(sn, K), ListOK(sn.acknowledged)
    PROVE  LET new == Expire(sn)
           IN  /\ ListOK(new.acknowledged) /\ Len(new.pending) <= MaxPending
               /\ \A e \in Range(sn.pending) :
                     e.eventId \in Acknowledged(new) \ Acknowledged(sn) => e.eventId \notin Waiting(new)
               /\ \A S : Fits(S) /\ Acknowledged(sn) \subseteq S /\ Left(sn, new) \subseteq S
                         => Acknowledged(new) = Acknowledged(sn) \cup Left(sn, new)
<1> DEFINE lagging == {e \in Range(sn.pending) : Lagging(sn, e)}
           ids == Ids(Only(sn.pending, lagging))
           caughtUp == Acknowledge(sn, ids)
           over == Overflow(caughtUp)
           new == Acknowledge(caughtUp, over)
<1>0. sn.pending \in Seq(Entry) /\ OneEntryEach(sn.pending)
  BY DEF SessionOK, Session
<1>1. /\ ids \in Seq(EventIds) /\ Range(ids) = {e.eventId : e \in lagging} /\ IsInjective(ids)
  <2>1. Range(sn.pending) \cap lagging = lagging
    OBVIOUS
  <2> HIDE DEF lagging
  <2>2. /\ Only(sn.pending, lagging) \in Seq(Entry) /\ OneEntryEach(Only(sn.pending, lagging))
        /\ Range(Only(sn.pending, lagging)) = lagging
    BY <1>0, <2>1, SomeEntries
  <2> QED
    BY <2>2, IdsAre, EntriesOnce
<1>2. Range(ids) \subseteq {e.eventId : e \in Range(sn.pending)}
  BY <1>1
<1> HIDE DEF ids
<1>3. /\ SessionOK(caughtUp, K)
      /\ Range(caughtUp.pending) = {e \in Range(sn.pending) : e.eventId \notin Range(ids)}
      /\ Acknowledged(caughtUp) \subseteq Acknowledged(sn) \cup Range(ids)
      /\ ListOK(caughtUp.acknowledged)
      /\ \A S : Fits(S) /\ Acknowledged(sn) \subseteq S /\ Range(ids) \subseteq S
                => Acknowledged(caughtUp) = Acknowledged(sn) \cup Range(ids)
  BY <1>1, AcknowledgeKeeps, AcknowledgeBounded
<1> HIDE DEF caughtUp
<1>4. /\ over \in Seq(EventIds) /\ Range(over) \subseteq {e.eventId : e \in Range(caughtUp.pending)}
      /\ IsInjective(over)
      /\ Cardinality({e \in Range(caughtUp.pending) : e.eventId \notin Range(over)}) <= MaxPending
  BY <1>3, OverflowAre, OverflowFits
<1> HIDE DEF over
<1>5. /\ SessionOK(new, K)
      /\ Range(new.pending) = {e \in Range(caughtUp.pending) : e.eventId \notin Range(over)}
      /\ Acknowledged(new) \subseteq Acknowledged(caughtUp) \cup Range(over)
      /\ ListOK(new.acknowledged)
      /\ \A S : Fits(S) /\ Acknowledged(caughtUp) \subseteq S /\ Range(over) \subseteq S
                => Acknowledged(new) = Acknowledged(caughtUp) \cup Range(over)
  BY <1>3, <1>4, AcknowledgeKeeps, AcknowledgeBounded
<1>6. Expire(sn) = new
  BY DEF Expire, caughtUp, over, ids
<1> HIDE DEF new
<1>7. Len(new.pending) <= MaxPending
  <2>1. Len(new.pending) = Cardinality(Range(new.pending))
    BY <1>5, PendingOnce
  <2> QED
    BY <1>4, <1>5, <2>1
<1>8. Left(sn, new) = Range(ids) \cup Range(over)
  <2>1. Waiting(new) = {e.eventId : e \in {d \in Range(sn.pending) :
                            d.eventId \notin Range(ids) /\ d.eventId \notin Range(over)}}
    BY <1>3, <1>5 DEF Waiting
  <2>2. Range(over) \subseteq {e.eventId : e \in Range(sn.pending)}
    BY <1>3, <1>4
  <2>3. \A id \in Left(sn, new) : id \in Range(ids) \/ id \in Range(over)
    BY <2>1 DEF Left
  <2>4. \A id \in Range(ids) \cup Range(over) : id \notin Waiting(new)
    BY <2>1
  <2>5. \A id \in Range(ids) \cup Range(over) : id \in Left(sn, new)
    BY <1>2, <2>2, <2>4 DEF Left
  <2> QED
    BY <2>3, <2>5
<1>9. \A e \in Range(sn.pending) :
         e.eventId \in Acknowledged(new) \ Acknowledged(sn) => e.eventId \notin Waiting(new)
  <2>1. Acknowledged(new) \ Acknowledged(sn) \subseteq Left(sn, new)
    BY <1>3, <1>5, <1>8
  <2> QED
    BY <2>1 DEF Left
<1>10. ASSUME NEW S, Fits(S), Acknowledged(sn) \subseteq S, Left(sn, new) \subseteq S
       PROVE  Acknowledged(new) = Acknowledged(sn) \cup Left(sn, new)
  <2>1. Acknowledged(caughtUp) = Acknowledged(sn) \cup Range(ids)
    BY <1>3, <1>8, <1>10
  <2>2. Acknowledged(new) = Acknowledged(caughtUp) \cup Range(over)
    BY <1>5, <1>8, <1>10, <2>1
  <2> QED
    BY <1>8, <2>1, <2>2
<1> QED
  BY <1>5, <1>6, <1>7, <1>9, <1>10

\* Waiting and acknowledged exclude each other.
Settled(sn) == Waiting(sn) \cap Acknowledged(sn) = {}

\* ingestTail, in its limits: of what it takes away the list knows, while it has room.
LEMMA IngestBounded ==
    ASSUME NEW K, Truthful(K), NEW sn, SessionOK(sn, K), CursorBehind(sn), ListOK(sn.acknowledged),
           NEW records, IsFiniteSet(records), records \subseteq K
    PROVE  LET new == Ingest(sn, records)
               copies == Copies(sn) \cup Added(NoteIngested(sn, records), records)
               gone == {c.eventId : c \in {d \in copies : d.eventId \notin Waiting(new)}}
           IN  /\ ListOK(new.acknowledged) /\ Len(new.pending) <= MaxPending
               /\ Settled(sn) => Settled(new)
               /\ \A S : Fits(S) /\ Acknowledged(sn) \subseteq S /\ gone \subseteq S
                         => Acknowledged(sn) \cup gone \subseteq Acknowledged(new)
<1> DEFINE noted == NoteIngested(sn, records)
           added == Added(noted, records)
           grown == AddCopies(noted, added)
           fewer == Expire(grown)
           new == Ingest(sn, records)
           copies == Copies(sn) \cup added
           gone == {c.eventId : c \in {d \in copies : d.eventId \notin Waiting(new)}}
<1>1. /\ SessionOK(noted, K) /\ noted.acknowledged = sn.acknowledged
      /\ noted.pending = sn.pending
      /\ \A r \in records : r.sequence <= noted.highest[r.partition]
  BY NotedKeeps
<1> HIDE DEF noted
<1>2. /\ IsFiniteSet(added) /\ added \subseteq K
      /\ \A c \in added : c.sequence <= noted.highest[c.partition]
      /\ \A c \in added : c.eventId \notin Acknowledged(sn)
  <2>1. added \subseteq records
    BY DEF Added
  <2>2. \A c \in added : c.eventId \notin Acknowledged(sn)
    BY <1>1 DEF Added, Wanted, Acknowledged
  <2> HIDE DEF added
  <2> QED
    BY <1>1, <2>1, <2>2, FS_Subset
<1> HIDE DEF added
<1>3. /\ SessionOK(grown, K) /\ grown.acknowledged = noted.acknowledged
      /\ \A c \in added : \E e \in Range(grown.pending) : e.eventId = c.eventId /\ c \in e.copies
      /\ \A d \in Range(noted.pending) : \E e \in Range(grown.pending) :
            e.eventId = d.eventId /\ d.copies \subseteq e.copies
      /\ \A e \in Range(grown.pending) : \A c \in e.copies :
            c \in added \/ \E d \in Range(noted.pending) : c \in d.copies
  BY <1>1, <1>2, CopiesAdded
<1> HIDE DEF grown
<1>4. /\ SessionOK(fewer, K) /\ Range(fewer.pending) \subseteq Range(grown.pending)
      /\ Acknowledged(fewer) \subseteq
            Acknowledged(grown) \cup {e.eventId : e \in Range(grown.pending) \ Range(fewer.pending)}
      /\ ListOK(fewer.acknowledged) /\ Len(fewer.pending) <= MaxPending
      /\ \A e \in Range(grown.pending) :
            e.eventId \in Acknowledged(fewer) \ Acknowledged(grown) => e.eventId \notin Waiting(fewer)
      /\ \A S : Fits(S) /\ Acknowledged(grown) \subseteq S /\ Left(grown, fewer) \subseteq S
                => Acknowledged(fewer) = Acknowledged(grown) \cup Left(grown, fewer)
  BY <1>1, <1>3, ExpireKeeps, ExpireBounded
<1> HIDE DEF fewer
<1>5. new.pending = fewer.pending /\ new.acknowledged = fewer.acknowledged
  BY DEF Ingest, RecomputeCursor, fewer, grown, added, noted
<1> HIDE DEF new
<1>6. /\ Waiting(new) = Waiting(fewer) /\ Acknowledged(new) = Acknowledged(fewer)
      /\ Acknowledged(grown) = Acknowledged(sn)
  BY <1>1, <1>3, <1>5 DEF Waiting, Acknowledged
\* The entries that waited on the way are those of the copies.
<1>7. \A e \in Range(grown.pending) : \E c \in copies : c.eventId = e.eventId
  <2> SUFFICES ASSUME NEW e \in Range(grown.pending) PROVE \E c \in copies : c.eventId = e.eventId
    OBVIOUS
  <2>1. PICK c \in e.copies : c.eventId = e.eventId
    BY <1>3 DEF SessionOK, EntryOK
  <2>2. c \in copies
    BY <1>1, <1>3, <2>1 DEF Copies
  <2> QED
    BY <2>1, <2>2
<1>8. \A c \in copies : \E e \in Range(grown.pending) : e.eventId = c.eventId
  <2> SUFFICES ASSUME NEW c \in copies PROVE \E e \in Range(grown.pending) : e.eventId = c.eventId
    OBVIOUS
  <2>1. CASE c \in added
    BY <1>3, <2>1
  <2>2. CASE c \in Copies(sn)
    <3>1. PICK d \in Range(sn.pending) : c \in d.copies
      BY <2>2 DEF Copies
    <3>2. c.eventId = d.eventId
      BY <3>1 DEF SessionOK, EntryOK
    <3> QED
      BY <1>1, <1>3, <3>1, <3>2
  <2> QED
    BY <2>1, <2>2
<1> HIDE DEF copies
<1>9. gone = Left(grown, fewer)
  BY <1>6, <1>7, <1>8 DEF Left
<1>10. ASSUME Settled(sn) PROVE Settled(new)
  <2> SUFFICES ASSUME NEW e \in Range(fewer.pending), e.eventId \in Acknowledged(fewer)
               PROVE  FALSE
    BY <1>6 DEF Settled, Waiting
  <2>1. e \in Range(grown.pending) /\ e.eventId \in Waiting(fewer)
    BY <1>4 DEF Waiting
  <2>2. e.eventId \in Acknowledged(sn)
    BY <1>4, <1>6, <2>1
  <2>3. PICK c \in e.copies : c.eventId = e.eventId
    BY <1>3, <2>1 DEF SessionOK, EntryOK
  <2>4. c \notin added
    BY <1>2, <2>2, <2>3
  <2>5. PICK d \in Range(sn.pending) : c \in d.copies
    BY <1>1, <1>3, <2>1, <2>3, <2>4
  <2>6. d.eventId = e.eventId
    BY <2>3, <2>5 DEF SessionOK, EntryOK
  <2> QED
    BY <1>10, <2>2, <2>5, <2>6 DEF Settled, Waiting
<1>11. ASSUME NEW S, Fits(S), Acknowledged(sn) \subseteq S, gone \subseteq S
       PROVE  Acknowledged(sn) \cup gone \subseteq Acknowledged(new)
  <2> HIDE DEF gone
  <2> QED
    BY <1>4, <1>6, <1>9, <1>11
<1> QED
  BY <1>4, <1>5, <1>10, <1>11 DEF new, copies, added, noted

\* acknowledge, in its limits.
LEMMA AcknowledgeEventsBounded ==
    ASSUME NEW K, Truthful(K), NEW sn, SessionOK(sn, K), CursorBehind(sn), ListOK(sn.acknowledged),
           Len(sn.pending) <= MaxPending, NEW ids \in Seq(EventIds), IsInjective(ids)
    PROVE  LET new == AcknowledgeEvents(sn, ids)
               gone == {c.eventId : c \in {d \in Copies(sn) : d.eventId \notin Waiting(new)}}
           IN  /\ ListOK(new.acknowledged) /\ Len(new.pending) <= MaxPending
               /\ Settled(sn) => Settled(new)
               /\ \A S : Fits(S) /\ Acknowledged(sn) \subseteq S /\ gone \subseteq S
                         => Acknowledged(sn) \cup gone \subseteq Acknowledged(new)
<1> DEFINE waiting == Only(ids, {e.eventId : e \in Range(sn.pending)})
           held == Acknowledge(sn, waiting)
           new == AcknowledgeEvents(sn, ids)
           gone == {c.eventId : c \in {d \in Copies(sn) : d.eventId \notin Waiting(new)}}
<1>1. /\ waiting \in Seq(EventIds) /\ IsInjective(waiting)
      /\ Range(waiting) \subseteq {e.eventId : e \in Range(sn.pending)}
  BY Selected
\* The copies are of what waits.
<1>2. /\ \A c \in Copies(sn) : c.eventId \in Waiting(sn)
      /\ \A e \in Range(sn.pending) : \E c \in Copies(sn) : c.eventId = e.eventId
  <2>1. \A e \in Range(sn.pending) : \A c \in e.copies : c.eventId = e.eventId
    BY DEF SessionOK, EntryOK
  <2>2. \A e \in Range(sn.pending) : e.copies # {}
    BY DEF SessionOK, EntryOK
  <2> QED
    BY <2>1, <2>2 DEF Copies, Waiting
<1>3. CASE waiting = <<>>
  <2>1. new = sn
    BY <1>3 DEF AcknowledgeEvents
  <2> HIDE DEF new
  <2>2. gone = {}
    BY <1>2, <2>1
  <2> HIDE DEF gone
  <2> QED
    BY <2>1, <2>2 DEF new, gone
<1>4. CASE waiting # <<>>
  <2>1. new = RecomputeCursor(held)
    BY <1>4 DEF AcknowledgeEvents
  <2> HIDE DEF waiting
  <2>2. /\ SessionOK(held, K)
        /\ Range(held.pending) = {e \in Range(sn.pending) : e.eventId \notin Range(waiting)}
        /\ Acknowledged(held) \subseteq Acknowledged(sn) \cup Range(waiting)
        /\ ListOK(held.acknowledged)
        /\ \A S : Fits(S) /\ Acknowledged(sn) \subseteq S /\ Range(waiting) \subseteq S
                  => Acknowledged(held) = Acknowledged(sn) \cup Range(waiting)
    BY <1>1, AcknowledgeKeeps, AcknowledgeBounded
  <2> HIDE DEF held
  <2>3. new.pending = held.pending /\ new.acknowledged = held.acknowledged
    BY <2>1 DEF RecomputeCursor
  <2> HIDE DEF new
  <2>4. /\ Waiting(new) = {e.eventId : e \in {d \in Range(sn.pending) : d.eventId \notin Range(waiting)}}
        /\ Acknowledged(new) = Acknowledged(held)
    BY <2>2, <2>3 DEF Waiting, Acknowledged
  <2>5. Len(new.pending) <= MaxPending
    <3>1. /\ Len(held.pending) = Cardinality(Range(held.pending))
          /\ Len(sn.pending) = Cardinality(Range(sn.pending)) /\ IsFiniteSet(Range(sn.pending))
      BY <2>2, PendingOnce
    <3>2. Range(held.pending) \in SUBSET Range(sn.pending)
      BY <2>2
    <3>3. /\ Cardinality(Range(held.pending)) <= Cardinality(Range(sn.pending))
          /\ Cardinality(Range(held.pending)) \in Nat /\ Cardinality(Range(sn.pending)) \in Nat
      BY <3>1, <3>2, FS_Subset, FS_CardinalityType
    <3> QED
      BY <2>3, <3>1, <3>3, LimitsAssumption
  <2>6. gone = Range(waiting)
    <3>1. \A id \in gone : id \in Range(waiting)
      <4> SUFFICES ASSUME NEW c \in Copies(sn), c.eventId \notin Waiting(new)
                   PROVE  c.eventId \in Range(waiting)
        OBVIOUS
      <4>1. PICK e \in Range(sn.pending) : e.eventId = c.eventId
        BY <1>2 DEF Waiting
      <4> QED
        BY <2>4, <4>1
    <3>2. \A id \in Range(waiting) : id \notin Waiting(new)
      BY <2>4
    <3>3. \A id \in Range(waiting) : \E c \in Copies(sn) : c.eventId = id
      BY <1>1, <1>2
    <3>4. \A id \in Range(waiting) : id \in gone
      BY <3>2, <3>3
    <3> QED
      BY <3>1, <3>4
  <2>7. ASSUME Settled(sn) PROVE Settled(new)
    BY <2>2, <2>4, <2>7 DEF Settled, Waiting
  <2>8. ASSUME NEW S, Fits(S), Acknowledged(sn) \subseteq S, gone \subseteq S
        PROVE  Acknowledged(sn) \cup gone \subseteq Acknowledged(new)
    BY <2>2, <2>4, <2>6, <2>8
  <2> QED
    BY <2>2, <2>3, <2>5, <2>7, <2>8 DEF new
<1> QED
  BY <1>3, <1>4

-----------------------------------------------------------------------------
(* Every tab within its limits.                                             *)

TabBounded(t) ==
    /\ session[t] # None => ListOK(session[t].acknowledged) /\ Len(session[t].pending) <= MaxPending
    /\ OneEntryEach(published[t])

\* The limits of the ledger, of every open session and of what is published.
BoundInv ==
    /\ ledger # None => ListOK(ledger.acknowledged)
    /\ \A t \in Tabs : TabBounded(t)

LEMMA EmptyBounded == /\ ListOK(<<>>) /\ Len(<<>>) <= MaxPending /\ OneEntryEach(<<>>)
                      /\ <<>> \in Seq(EventIds)
<1>1. DOMAIN <<>> = {} /\ Len(<<>>) = 0
  OBVIOUS
<1> QED
  BY <1>1, LimitsAssumption DEF ListOK, OneEntryEach, IsInjective

LEMMA OpenedBounded ==
    ASSUME NEW data, ListOK(data.acknowledged)
    PROVE  ListOK(OpenSession(data).acknowledged) /\ Len(OpenSession(data).pending) <= MaxPending
BY EmptyBounded DEF OpenSession

\* Saving merges two bounded lists.
LEMMA MergeBounded ==
    ASSUME NEW a \in Ledger, NEW b \in Ledger, ListOK(a.acknowledged), ListOK(b.acknowledged)
    PROVE  ListOK(MergeLedgerData(a, b).acknowledged)
<1>1. MergeLedgerData(a, b).acknowledged = MergeAcknowledgedIds(a.acknowledged, b.acknowledged)
  BY DEF MergeLedgerData
<1>2. a.acknowledged \in Seq(EventIds) /\ b.acknowledged \in Seq(EventIds)
  BY DEF Ledger
<1> QED
  BY <1>1, <1>2, ListGrows DEF ListOK

LEMMA NoLedgerBounded ==
    /\ EmptyLedgerData(EmptyCursor) \in Ledger
    /\ ListOK(EmptyLedgerData(EmptyCursor).acknowledged)
<1>1. EmptyCursor \in Cursor
  BY DEF EmptyCursor, Cursor
<1>2. EmptyLedgerData(EmptyCursor).acknowledged = <<>>
  BY DEF EmptyLedgerData
<1>3. EmptyLedgerData(EmptyCursor) \in Ledger
  BY <1>1, EmptyBounded DEF EmptyLedgerData, Ledger
<1> QED
  BY <1>2, <1>3, EmptyBounded

LEMMA PersistBounded ==
    ASSUME log \in Seq(LogEntry), ledger # None => LedgerFits(ledger, log),
           ledger # None => ListOK(ledger.acknowledged),
           NEW old, NEW new, SessionFits(new, log), ListOK(new.acknowledged)
    PROVE  Persist(old, new) # None => ListOK(Persist(old, new).acknowledged)
<1> DEFINE from == IF ledger = None THEN EmptyLedgerData(EmptyCursor) ELSE ledger
           data == LedgerData(new)
<1>1. /\ Persist(old, new) = ledger \/ Persist(old, new) = MergeLedgerData(from, data)
      /\ data \in Ledger
  BY PersistFits
<1>2. data.acknowledged = new.acknowledged
  BY DEF LedgerData
<1>3. from \in Ledger /\ ListOK(from.acknowledged)
  BY NoLedgerBounded DEF LedgerFits
<1> HIDE DEF from, data
<1>4. ListOK(MergeLedgerData(from, data).acknowledged)
  BY <1>1, <1>2, <1>3, MergeBounded
<1> QED
  BY <1>1, <1>4

\* What is acknowledged of a queue names no event twice.
LEMMA QueuedOnce ==
    ASSUME NEW t \in Tabs, published[t] \in Seq(Entry), OneEntryEach(published[t])
    PROVE  /\ Presentation(t) \in Seq(Entry) /\ OneEntryEach(Presentation(t))
           /\ \A S : IsInjective(Ids(Only(Presentation(t), S)))
           /\ IsInjective(SelectOwnResolution(Presentation(t)))
<1> DEFINE queue == Presentation(t)
<1>1. queue \in Seq(Entry) /\ OneEntryEach(queue)
  BY SomeEntries DEF Presentation
<1> HIDE DEF queue
<1>2. ASSUME NEW s \in Seq(Entry), OneEntryEach(s), NEW S
      PROVE  IsInjective(Ids(Only(s, S)))
  <2>1. Only(s, S) \in Seq(Entry) /\ OneEntryEach(Only(s, S))
    BY <1>2, SomeEntries
  <2> QED
    BY <2>1, EntriesOnce
<1>3. IsInjective(SelectOwnResolution(queue))
  <2> DEFINE own == {i \in DOMAIN queue : queue[i].eventId \in Resolutions}
             first == Min(own)
  <2>1. CASE own = {}
    BY <2>1, EmptyBounded DEF SelectOwnResolution, ListOK
  <2>2. CASE own # {}
    <3>1. own \in SUBSET Nat /\ own \subseteq 1..Len(queue) /\ Len(queue) \in Nat
      BY <1>1
    <3>2. first \in own
      <4> HIDE DEF own
      <4> QED
        BY <2>2, <3>1, LeastNat
    <3>3. first \in 1..(Len(queue) + 1) /\ Len(queue) \in 0..Len(queue)
      BY <3>1, <3>2
    <3> HIDE DEF first
    <3>4. /\ SubSeq(queue, first, Len(queue)) \in Seq(Entry)
          /\ OneEntryEach(SubSeq(queue, first, Len(queue)))
      BY <1>1, <3>3, PartOfEntries
    <3>5. \E S : SelectOwnResolution(queue) = Ids(Only(SubSeq(queue, first, Len(queue)), S))
      BY <2>2 DEF SelectOwnResolution, first
    <3> QED
      BY <1>2, <3>4, <3>5
  <2> QED
    BY <2>1, <2>2
<1> QED
  BY <1>1, <1>2, <1>3 DEF queue

LEMMA AcknowledgesOnce ==
    ASSUME SyncInv, BoundInv, NEW t \in Tabs, AcknowledgeNeutral(t) \/ Continue(t)
    PROVE  \E ids \in Seq(EventIds) : \E through \in {"dashboard", "player"} :
              IsInjective(ids) /\ AcknowledgePresentation(t, ids, through)
<1>1. published[t] \in Seq(Entry) /\ OneEntryEach(published[t])
  BY DEF SyncInv, TabOK, BoundInv, TabBounded
<1>2. CASE AcknowledgeNeutral(t)
  BY <1>1, <1>2, AcknowledgedAre, QueuedOnce DEF AcknowledgeNeutral
<1>3. CASE Continue(t)
  BY <1>1, <1>3, AcknowledgedAre, QueuedOnce DEF Continue
<1> QED
  BY <1>2, <1>3

\* What a step takes away, and whether the list of the session knows it all.
Takes(old, new, copies) ==
    LET gone == {c.eventId : c \in {d \in copies : d.eventId \notin Waiting(new)}}
    IN  /\ Settled(old) => Settled(new)
        /\ \A S : Fits(S) /\ Acknowledged(old) \subseteq S /\ gone \subseteq S
                  => Acknowledged(old) \cup gone \subseteq Acknowledged(new)

\* One tab saves a session that keeps the limits.
LEMMA SavedBounded ==
    ASSUME SyncInv, BoundInv, NEW t \in Tabs, NEW new,
           SessionFits(new, log), ListOK(new.acknowledged), Len(new.pending) <= MaxPending,
           session' = [session EXCEPT ![t] = new], ledger' = Persist(session[t], new),
           published' = published \/ published' = [published EXCEPT ![t] = Pending(new)]
    PROVE  BoundInv' /\ session'[t] = new
<1>1. /\ log \in Seq(LogEntry) /\ (ledger # None => LedgerFits(ledger, log))
      /\ DOMAIN session = Tabs /\ DOMAIN published = Tabs /\ Truthful(KnownIn(log))
  BY KnownFacts DEF SyncInv
<1>2. /\ session'[t] = new /\ \A u \in Tabs \ {t} : session'[u] = session[u]
      /\ \A u \in Tabs \ {t} : published'[u] = published[u]
      /\ published'[t] = published[t] \/ published'[t] = Pending(new)
  BY <1>1
<1>3. ledger' # None => ListOK(ledger'.acknowledged)
  BY <1>1, PersistBounded DEF BoundInv
<1>4. OneEntryEach(published'[t])
  <2>1. OneEntryEach(Pending(new))
    BY <1>1, PendingOnce DEF SessionFits
  <2> QED
    BY <1>2, <2>1 DEF BoundInv, TabBounded
<1>5. \A u \in Tabs : TabBounded(u)'
  BY <1>2, <1>4 DEF BoundInv, TabBounded
<1> QED
  BY <1>2, <1>3, <1>5 DEF BoundInv

\* A page or an acknowledgement, in the limits.
LEMMA SavingBounded ==
    ASSUME SyncInv, BoundInv, NEW t \in Tabs,
           PageArrives(t) \/ AcknowledgeNeutral(t) \/ Continue(t)
    PROVE  /\ BoundInv'
           /\ session[t] # None
           /\ ledger' = Persist(session[t], session'[t])
           /\ \E copies \in SUBSET KnownIn(log), through \in {"expiry", "dashboard", "player"} :
                 /\ handled' = handled \cup Gone(copies, session'[t], through)
                 /\ Takes(session[t], session'[t], copies)
<1>1. /\ log \in Seq(LogEntry) /\ SyncInv' /\ session[t] # None
      /\ DOMAIN session = Tabs /\ DOMAIN published = Tabs
  BY PageArrivesSteps, AcknowledgePresentationSteps DEF SyncInv, TabOK, PageArrives
<1>2. /\ SessionFits(session[t], log) /\ SessionOK(session[t], KnownIn(log))
      /\ CursorBehind(session[t]) /\ Truthful(KnownIn(log))
      /\ ListOK(session[t].acknowledged) /\ Len(session[t].pending) <= MaxPending
      /\ Copies(session[t]) \subseteq KnownIn(log)
  <2>1. SessionFits(session[t], log) /\ SessionOK(session[t], KnownIn(log))
    BY <1>1 DEF SyncInv, TabOK, SessionFits
  <2>2. Copies(session[t]) \subseteq KnownIn(log)
    BY <2>1 DEF Copies, SessionOK, EntryOK
  <2> QED
    BY <1>1, <2>1, <2>2, KnownFacts DEF BoundInv, TabBounded, SessionFits
<1>3. CASE PageArrives(t)
  <2> DEFINE new == Ingest(session[t], Released(t))
             copies == Copies(session[t]) \cup
                         Added(NoteIngested(session[t], Released(t)), Released(t))
  <2>1. /\ SessionFits(new, log) /\ IsFiniteSet(Released(t)) /\ Released(t) \subseteq KnownIn(log)
    BY <1>3, PageIngested DEF PageArrives
  <2>2. copies \in SUBSET KnownIn(log)
    BY <1>2, <2>1 DEF Added
  <2>3. LET gone == {c.eventId : c \in {d \in copies : d.eventId \notin Waiting(new)}}
        IN  /\ ListOK(new.acknowledged) /\ Len(new.pending) <= MaxPending
            /\ Settled(session[t]) => Settled(new)
            /\ \A S : Fits(S) /\ Acknowledged(session[t]) \subseteq S /\ gone \subseteq S
                      => Acknowledged(session[t]) \cup gone \subseteq Acknowledged(new)
    BY <1>2, <2>1, IngestBounded
  <2>4. /\ session' = [session EXCEPT ![t] = new] /\ ledger' = Persist(session[t], new)
        /\ published' = published \/ published' = [published EXCEPT ![t] = Pending(new)]
        /\ handled' = handled \cup Gone(copies, new, "expiry")
    BY <1>3 DEF PageArrives, Released
  <2> HIDE DEF new, copies
  <2>5. Takes(session[t], new, copies)
    BY <2>3 DEF Takes
  <2>6. BoundInv' /\ session'[t] = new
    BY <2>1, <2>3, <2>4, SavedBounded
  <2> QED
    BY <1>1, <2>2, <2>4, <2>5, <2>6
<1>4. CASE AcknowledgeNeutral(t) \/ Continue(t)
  <2>1. PICK ids \in Seq(EventIds), through \in {"dashboard", "player"} :
           IsInjective(ids) /\ AcknowledgePresentation(t, ids, through)
    BY <1>4, AcknowledgesOnce
  <2> DEFINE new == AcknowledgeEvents(session[t], ids)
             copies == Copies(session[t])
  <2>2. /\ session' = [session EXCEPT ![t] = new] /\ ledger' = Persist(session[t], new)
        /\ published' = [published EXCEPT ![t] = Pending(new)]
        /\ handled' = handled \cup Gone(copies, new, through)
    BY <2>1 DEF AcknowledgePresentation
  <2>3. SessionFits(new, log)
    <3>1. /\ SessionOK(new, KnownIn(log)) /\ CursorBehind(new)
          /\ FetchCursor(new) = FetchCursor(session[t])
      BY <1>2, AcknowledgeEventsKeeps
    <3> HIDE DEF new
    <3> QED
      BY <1>2, <3>1 DEF SessionFits
  <2>4. LET gone == {c.eventId : c \in {d \in copies : d.eventId \notin Waiting(new)}}
        IN  /\ ListOK(new.acknowledged) /\ Len(new.pending) <= MaxPending
            /\ Settled(session[t]) => Settled(new)
            /\ \A S : Fits(S) /\ Acknowledged(session[t]) \subseteq S /\ gone \subseteq S
                      => Acknowledged(session[t]) \cup gone \subseteq Acknowledged(new)
    BY <1>2, <2>1, AcknowledgeEventsBounded
  <2>5. copies \in SUBSET KnownIn(log) /\ through \in {"expiry", "dashboard", "player"}
    BY <1>2
  <2> HIDE DEF new, copies
  <2>6. Takes(session[t], new, copies)
    BY <2>4 DEF Takes
  <2>7. BoundInv' /\ session'[t] = new
    BY <2>2, <2>3, <2>4, SavedBounded
  <2> QED
    BY <1>1, <2>2, <2>5, <2>6, <2>7
<1> QED
  BY <1>3, <1>4

\* Steps that leave what is published: a session stays, is opened on saved data, or ends.
LEMMA QuietlyBounded ==
    ASSUME BoundInv, ledger' = ledger \/ ListOK(ledger'.acknowledged),
           \A u \in Tabs : /\ \/ session'[u] = session[u] \/ session'[u] = None
                              \/ \E data : ListOK(data.acknowledged) /\ session'[u] = OpenSession(data)
                           /\ published'[u] = published[u] \/ published'[u] = <<>>
    PROVE  BoundInv'
<1>1. \A u \in Tabs : TabBounded(u)'
  BY OpenedBounded, EmptyBounded DEF BoundInv, TabBounded
<1> QED
  BY <1>1 DEF BoundInv

LEMMA StartLedgerStarts ==
    ASSUME SyncInv, NEW t \in Tabs, StartLedger(t)
    PROVE  Baseline(Heads(page[t].got), recovered[t]) \in Cursor
<1> DEFINE got == page[t].got
<1>1. /\ log \in Seq(LogEntry) /\ Len(log) \in Nat /\ DOMAIN got = Readable
      /\ HeadsFit(got, log) /\ recovered[t] \in SUBSET (Nat \ {0})
  BY DEF StartLedger, SyncInv, TabOK
<1> HIDE DEF got
<1>2. \A p \in Partitions : Heads(got)[p] \in 0..Len(log)
  BY <1>1, HeadsAre
<1>3. Baseline(Heads(got), recovered[t]) \in Cursor
  BY <1>1, <1>2, BaselineBelow
<1> QED
  BY <1>3 DEF got

LEMMA NextBoundInv == SyncInv /\ BoundInv /\ [Next]_vars => BoundInv'
<1> SUFFICES ASSUME SyncInv, BoundInv, [Next]_vars PROVE BoundInv'
  OBVIOUS
<1>1. DOMAIN session = Tabs /\ DOMAIN published = Tabs
  BY DEF SyncInv
<1>2. ASSUME UNCHANGED <<ledger, session, published>> PROVE BoundInv'
  BY <1>2, QuietlyBounded
<1>3. CASE UNCHANGED vars
  BY <1>2, <1>3 DEF vars, tabVars
<1>4. CASE Commit \/ ApplySaved
  BY <1>2, <1>4 DEF Commit, ApplySaved, tabVars
<1>5. ASSUME NEW t \in Tabs, Receive(t) PROVE BoundInv'
  BY <1>2, <1>5 DEF Receive
<1>6. ASSUME NEW t \in Tabs, StartSync(t) PROVE BoundInv'
  <2>1. /\ ledger' = ledger /\ published' = published
        /\ \/ session' = session
           \/ ledger # None /\ session' = [session EXCEPT ![t] = OpenSession(ledger)]
           \/ session' = [session EXCEPT ![t] = session[t]]
    BY <1>6 DEF StartSync
  <2>2. ledger # None => ListOK(ledger.acknowledged)
    BY DEF BoundInv
  <2>3. \A u \in Tabs : \/ session'[u] = session[u]
                        \/ \E data : ListOK(data.acknowledged) /\ session'[u] = OpenSession(data)
    BY <1>1, <2>1, <2>2
  <2> QED
    BY <2>1, <2>3, QuietlyBounded
<1>7. ASSUME NEW t \in Tabs, StartLedger(t) PROVE BoundInv'
  <2>1. PICK start : LET initial == EmptyLedgerData(start)
                     IN  /\ start \in Cursor
                         /\ ledger' = MergeLedgerData(IF ledger = None THEN EmptyLedgerData(EmptyCursor)
                                                                     ELSE ledger, initial)
                         /\ session' = [session EXCEPT ![t] = OpenSession(initial)]
                         /\ published' = published
    <3> DEFINE start == Baseline(Heads(page[t].got), recovered[t])
    <3>1. /\ ledger' = MergeLedgerData(IF ledger = None THEN EmptyLedgerData(EmptyCursor)
                                                      ELSE ledger, EmptyLedgerData(start))
          /\ session' = [session EXCEPT ![t] = OpenSession(EmptyLedgerData(start))]
          /\ published' = published
      BY <1>7 DEF StartLedger, Heads
    <3>2. start \in Cursor
      BY <1>7, StartLedgerStarts
    <3> HIDE DEF start
    <3> QED
      BY <3>1, <3>2
  <2> DEFINE initial == EmptyLedgerData(start)
             from == IF ledger = None THEN EmptyLedgerData(EmptyCursor) ELSE ledger
  <2>2. initial \in Ledger /\ initial.acknowledged = <<>> /\ ListOK(initial.acknowledged)
    BY <2>1, EmptyBounded DEF EmptyLedgerData, Ledger
  <2>3. from \in Ledger /\ ListOK(from.acknowledged)
    BY NoLedgerBounded DEF BoundInv, SyncInv, LedgerFits
  <2>4. ledger' = MergeLedgerData(from, initial)
    BY <2>1
  <2> HIDE DEF from
  <2>5. ListOK(ledger'.acknowledged)
    BY <2>2, <2>3, <2>4, MergeBounded
  <2>6. \A u \in Tabs : \/ session'[u] = session[u]
                        \/ \E data : ListOK(data.acknowledged) /\ session'[u] = OpenSession(data)
    BY <1>1, <2>1, <2>2
  <2> QED
    BY <2>1, <2>5, <2>6, QuietlyBounded
<1>8. ASSUME NEW t \in Tabs, NEW p \in Readable, ReadHead(t, p) \/ ReadPartition(t, p)
      PROVE  BoundInv'
  BY <1>2, <1>8 DEF ReadHead, ReadPartition
<1>9. ASSUME NEW t \in Tabs, ReadFails(t) PROVE BoundInv'
  BY <1>2, <1>9 DEF ReadFails
<1>10. ASSUME NEW t \in Tabs, Refresh(t) PROVE BoundInv'
  <2>1. /\ ledger' = ledger /\ session' = [session EXCEPT ![t] = None]
        /\ published' = [published EXCEPT ![t] = <<>>]
    BY <1>10 DEF Refresh
  <2>2. \A u \in Tabs : /\ session'[u] = session[u] \/ session'[u] = None
                        /\ published'[u] = published[u] \/ published'[u] = <<>>
    BY <1>1, <2>1
  <2> QED
    BY <2>1, <2>2, QuietlyBounded
<1>11. ASSUME NEW t \in Tabs, PageArrives(t) \/ AcknowledgeNeutral(t) \/ Continue(t)
       PROVE  BoundInv'
  BY <1>11, SavingBounded
<1> QED
  BY <1>3, <1>4, <1>5, <1>6, <1>7, <1>8, <1>9, <1>10, <1>11 DEF Next, SyncStep

LEMMA InitBoundInv == Init => BoundInv
BY EmptyBounded DEF Init, BoundInv, TabBounded

\* For any number of tabs, in every state: the log, the ledger and the sessions are of
\* their types, no list acknowledges an event twice, no event waits twice, and both lists
\* keep their limits, whatever is merged from other tabs, expired or read again.  A ledger
\* that broke them would not be loaded again.
THEOREM LimitsKept == Spec => []TypeOK
<1>1. SyncInv /\ BoundInv => TypeOK
  <2> SUFFICES ASSUME SyncInv, BoundInv PROVE TypeOK
    OBVIOUS
  <2>1. \A s \in DOMAIN log : log[s].eventId \in EventIds /\ log[s].copies \subseteq Readable
    <3>1. \A s \in DOMAIN log : log[s] \in LogEntry
      BY DEF SyncInv
    <3> QED
      BY <3>1 DEF LogEntry
  <2>2. ledger # None => /\ ledger.cursor \in Cursor
                         /\ Len(ledger.acknowledged) <= MaxAcknowledged
                         /\ IsInjective(ledger.acknowledged)
    BY DEF SyncInv, BoundInv, LedgerFits, Ledger, ListOK
  <2>3. ASSUME NEW t \in Tabs
        PROVE  /\ phase[t] \in {"idle", "head", "page"}
               /\ phase[t] = "page" => session[t] # None
    BY DEF SyncInv, TabOK
  <2>4. ASSUME NEW t \in Tabs, session[t] # None
        PROVE  /\ DOMAIN session[t] = DOMAIN OpenSession(EmptyLedgerData(EmptyCursor))
               /\ session[t].cursor \in Cursor /\ session[t].highest \in Cursor
               /\ IsInjective(session[t].acknowledged) /\ IsInjective(Ids(session[t].pending))
               /\ Len(session[t].acknowledged) <= MaxAcknowledged
               /\ Len(session[t].pending) <= MaxPending
               /\ \A e \in Range(session[t].pending) : e \in Entry /\ e.copies # {}
    <3>1. SessionOK(session[t], KnownIn(log)) /\ session[t] \in Session
      BY <2>4 DEF SyncInv, TabOK, SessionFits, SessionOK
    <3>2. DOMAIN session[t] = DOMAIN OpenSession(EmptyLedgerData(EmptyCursor))
      BY <3>1 DEF Session, OpenSession
    <3>3. session[t].pending \in Seq(Entry) /\ OneEntryEach(session[t].pending)
      BY <3>1 DEF SessionOK, Session
    <3>4. IsInjective(Ids(session[t].pending))
      BY <3>3, EntriesOnce
    <3>5. /\ session[t].cursor \in Cursor /\ session[t].highest \in Cursor
          /\ \A e \in Range(session[t].pending) : e \in Entry /\ e.copies # {}
      BY <3>1 DEF SessionOK, EntryOK, Session
    <3> QED
      BY <2>4, <3>2, <3>4, <3>5 DEF BoundInv, TabBounded, ListOK
  <2> QED
    BY <2>1, <2>2, <2>3, <2>4 DEF TypeOK
<1>2. Init => SyncInv /\ BoundInv
  BY InitSyncInv, InitBoundInv
<1>3. (SyncInv /\ BoundInv) /\ [Next]_vars => (SyncInv /\ BoundInv)'
  BY NextSyncInv, NextBoundInv
<1> QED
  BY <1>1, <1>2, <1>3, PTL DEF Spec

-----------------------------------------------------------------------------
(* What was handled does not come back.                                    *)

\* What the history says of an event, the log says.
HandledLogged(h) ==
    h.sequence \in DOMAIN log /\ log[h.sequence].eventId = h.eventId

\* While every handled event fits in one list, the ledger and the open session know all.
HandledInv ==
    /\ ledger = None => handled = {}
    /\ \A h \in handled : HandledLogged(h)
    /\ \A t \in Tabs : session[t] # None => Settled(session[t])
    /\ Cardinality(Seen(handled)) <= MaxAcknowledged =>
         /\ ledger # None => Seen(handled) \subseteq Range(ledger.acknowledged)
         /\ \A t \in Tabs : session[t] # None => Seen(handled) \subseteq Acknowledged(session[t])

\* As many events are handled as there are.
LEMMA SeenFinite ==
    ASSUME NEW l \in Seq(LogEntry), NEW h,
           \A x \in h : x.sequence \in DOMAIN l /\ l[x.sequence].eventId = x.eventId
    PROVE  IsFiniteSet(Seen(h)) /\ Cardinality(Seen(h)) <= Len(l)
<1> DEFINE ids == [s \in 1..Len(l) |-> l[s].eventId]
<1>1. DOMAIN l = 1..Len(l) /\ Len(l) \in Nat
  OBVIOUS
<1>2. IsFiniteSet(1..Len(l)) /\ Cardinality(1..Len(l)) = Len(l)
  BY <1>1, FS_Interval
<1>3. Seen(h) \in SUBSET {ids[s] : s \in 1..Len(l)}
  BY <1>1 DEF Seen
<1>4. ids \in Surjection(1..Len(l), {ids[s] : s \in 1..Len(l)})
  BY DEF Surjection
<1> HIDE DEF ids
<1>5. /\ IsFiniteSet({ids[s] : s \in 1..Len(l)})
      /\ Cardinality({ids[s] : s \in 1..Len(l)}) <= Cardinality(1..Len(l))
  BY <1>2, <1>4, FS_Surjection
<1>6. /\ IsFiniteSet(Seen(h))
      /\ Cardinality(Seen(h)) <= Cardinality({ids[s] : s \in 1..Len(l)})
  BY <1>3, <1>5, FS_Subset
<1>7. Cardinality(Seen(h)) \in Nat /\ Cardinality({ids[s] : s \in 1..Len(l)}) \in Nat
  BY <1>5, <1>6, FS_CardinalityType
<1> QED
  BY <1>1, <1>2, <1>5, <1>6, <1>7

\* Merging loses nothing while both lists fit in one.
LEMMA MergeComplete ==
    ASSUME NEW a \in Ledger, NEW b \in Ledger, ListOK(a.acknowledged), ListOK(b.acknowledged),
           NEW S, Fits(S), Range(a.acknowledged) \subseteq S, Range(b.acknowledged) \subseteq S
    PROVE  Range(MergeLedgerData(a, b).acknowledged) = Range(a.acknowledged) \cup Range(b.acknowledged)
<1>1. MergeLedgerData(a, b).acknowledged = MergeAcknowledgedIds(a.acknowledged, b.acknowledged)
  BY DEF MergeLedgerData
<1>2. a.acknowledged \in Seq(EventIds) /\ b.acknowledged \in Seq(EventIds)
  BY DEF Ledger
<1> QED
  BY <1>1, <1>2, ListGrows DEF ListOK, Fits

\* The history only grows by steps that save.
LEMMA QuietlyHandled ==
    ASSUME SyncInv, HandledInv, LogStep, handled' = handled,
           \/ ledger' = ledger
           \/ ledger = None,
           \A u \in Tabs : \/ session'[u] = session[u] \/ session'[u] = None
                           \/ \E data : /\ session'[u] = OpenSession(data)
                                        /\ data = ledger \/ ledger = None
    PROVE  HandledInv'
<1>1. Seen(handled)' = Seen(handled) /\ (handled = {} => Seen(handled) = {})
  BY DEF Seen
<1>2. \A h \in handled : HandledLogged(h)'
  BY GrowsInPlace DEF HandledInv, HandledLogged
<1>3. \A data : /\ Settled(OpenSession(data))
                /\ Acknowledged(OpenSession(data)) = Range(data.acknowledged)
  <2>1. \A data : OpenSession(data).pending = <<>> /\ OpenSession(data).acknowledged = data.acknowledged
    BY DEF OpenSession
  <2>2. Range(<<>>) = {}
    BY DEF Range
  <2> QED
    BY <2>1, <2>2 DEF Settled, Waiting, Acknowledged
<1>4. ASSUME NEW u \in Tabs, session'[u] # None PROVE Settled(session'[u])
  BY <1>3, <1>4 DEF HandledInv
<1>5. ASSUME Cardinality(Seen(handled)) <= MaxAcknowledged, NEW u \in Tabs, session'[u] # None
      PROVE  Seen(handled) \subseteq Acknowledged(session'[u])
  BY <1>1, <1>3, <1>5 DEF HandledInv
<1>6. ASSUME Cardinality(Seen(handled)) <= MaxAcknowledged, ledger' # None
      PROVE  Seen(handled) \subseteq Range(ledger'.acknowledged)
  BY <1>1, <1>6 DEF HandledInv
<1>7. ledger' = None => handled = {}
  BY DEF HandledInv
<1> QED
  BY <1>1, <1>2, <1>4, <1>5, <1>6, <1>7 DEF HandledInv, Settled, Waiting, Acknowledged

\* What a page or an acknowledgement takes away enters the history, and both lists.
LEMMA SavingHandled ==
    ASSUME SyncInv, BoundInv, LedgerInv, ThroughInv, HandledInv, OneTab, NEW t \in Tabs,
           PageArrives(t) \/ AcknowledgeNeutral(t) \/ Continue(t)
    PROVE  HandledInv'
<1>1. /\ log \in Seq(LogEntry) /\ ledger # None /\ ledger' # None /\ log' = log
      /\ session[t] # None /\ session'[t] # None /\ SessionFits(session'[t], log)
      /\ SyncInv' /\ ledger \in Ledger
      /\ \A u \in Tabs : u = t
  BY SavingLedger, PageArrivesSteps, AcknowledgePresentationSteps DEF SyncInv, OneTab, LedgerFits
<1>2. BoundInv' /\ ledger' = Persist(session[t], session'[t])
  BY SavingBounded
<1>3. PICK copies \in SUBSET KnownIn(log), through \in {"expiry", "dashboard", "player"} :
         /\ handled' = handled \cup Gone(copies, session'[t], through)
         /\ Takes(session[t], session'[t], copies)
  BY SavingBounded
<1> DEFINE old == session[t]
           new == session'[t]
           gone == {c.eventId : c \in {d \in copies : d.eventId \notin Waiting(new)}}
           seen == Seen(handled')
<1>4. \A h \in handled' : HandledLogged(h)'
  <2>1. ASSUME NEW h \in Gone(copies, new, through)
        PROVE  h.sequence \in DOMAIN log /\ log[h.sequence].eventId = h.eventId
    <3>1. PICK c \in copies : h = [eventId |-> c.eventId, sequence |-> c.sequence,
                                   through |-> through]
      BY DEF Gone
    <3>2. c.sequence \in DOMAIN log /\ log[c.sequence].eventId = c.eventId
      BY <1>1, KnownSays
    <3> QED
      BY <3>1, <3>2
  <2> QED
    BY <1>1, <1>3, <2>1 DEF HandledInv, HandledLogged
<1>5. IsFiniteSet(seen)
  BY <1>1, <1>4, SeenFinite DEF HandledLogged
<1>6. seen = Seen(handled) \cup gone
  <2>1. Seen(Gone(copies, new, through)) = gone
    <3>1. \A id \in Seen(Gone(copies, new, through)) : id \in gone
      <4> SUFFICES ASSUME NEW h \in Gone(copies, new, through) PROVE h.eventId \in gone
        BY DEF Seen
      <4>1. PICK c \in copies : /\ c.eventId \notin Waiting(new)
                                /\ h = [eventId |-> c.eventId, sequence |-> c.sequence,
                                        through |-> through]
        BY DEF Gone
      <4> QED
        BY <4>1
    <3>2. gone \subseteq Seen(Gone(copies, new, through))
      <4>1. \A c \in copies : c.eventId \notin Waiting(new) =>
               c.eventId \in Seen({} \cup Gone(copies, new, through))
        BY GoneSeen
      <4>2. {} \cup Gone(copies, new, through) = Gone(copies, new, through)
        OBVIOUS
      <4> QED
        BY <4>1, <4>2
    <3> QED
      BY <3>1, <3>2
  <2>2. seen = Seen(handled) \cup Seen(Gone(copies, new, through))
    BY <1>3 DEF Seen
  <2> QED
    BY <2>1, <2>2
<1>7. /\ Acknowledged(old) \subseteq Seen(handled) /\ Range(ledger.acknowledged) \subseteq Seen(handled)
      /\ Acknowledged(new) \subseteq seen
  <2>1. ThroughInv'
    BY SavingThrough
  <2> QED
    BY <1>1, <2>1 DEF ThroughInv, ReadThrough, SavedThrough, Seen
<1>8. /\ Settled(new)
      /\ \A S : Fits(S) /\ Acknowledged(old) \subseteq S /\ gone \subseteq S
                => Acknowledged(old) \cup gone \subseteq Acknowledged(new)
  BY <1>1, <1>3 DEF HandledInv, Takes
<1> HIDE DEF old, new, gone, seen
<1>9. ASSUME Cardinality(seen) <= MaxAcknowledged
      PROVE  seen \subseteq Acknowledged(new) /\ seen \subseteq Range(ledger'.acknowledged)
  <2>1. Fits(seen)
    BY <1>5, <1>9 DEF Fits
  <2>2. Cardinality(Seen(handled)) <= MaxAcknowledged
    <3>1. Seen(handled) \in SUBSET seen
      BY <1>6
    <3>2. /\ Cardinality(Seen(handled)) <= Cardinality(seen) /\ Cardinality(seen) \in Nat
          /\ Cardinality(Seen(handled)) \in Nat
      BY <1>5, <3>1, FS_Subset, FS_CardinalityType
    <3> QED
      BY <1>9, <3>2, LimitsAssumption
  <2>3. Seen(handled) \subseteq Acknowledged(old) /\ Seen(handled) \subseteq Range(ledger.acknowledged)
    BY <1>1, <2>2 DEF HandledInv, old
  <2>4. Acknowledged(old) \cup gone \subseteq Acknowledged(new)
    BY <1>6, <1>7, <1>8, <2>1
  <2>5. seen \subseteq Acknowledged(new)
    BY <1>6, <2>3, <2>4
  <2>6. seen \subseteq Range(ledger'.acknowledged)
    <3>1. CASE ledger' = ledger /\ LedgerData(new) = LedgerData(old)
      <4>1. Acknowledged(new) = Acknowledged(old)
        BY <3>1 DEF LedgerData, Acknowledged
      <4> QED
        BY <1>7, <2>3, <2>5, <3>1, <4>1
    <3>2. CASE ledger' = MergeLedgerData(ledger, LedgerData(new))
      <4>1. /\ LedgerData(new) \in Ledger /\ LedgerData(new).acknowledged = new.acknowledged
        BY <1>1 DEF new, SessionFits, SessionOK, Session, LedgerData, Ledger
      <4>2. ListOK(ledger.acknowledged) /\ ListOK(new.acknowledged)
        BY <1>1, <1>2 DEF BoundInv, TabBounded, new
      <4>3. Range(ledger.acknowledged) \subseteq seen /\ Range(new.acknowledged) \subseteq seen
        BY <1>6, <1>7 DEF Acknowledged
      <4>4. Range(ledger'.acknowledged) = Range(ledger.acknowledged) \cup Range(new.acknowledged)
        BY <1>1, <2>1, <3>2, <4>1, <4>2, <4>3, MergeComplete
      <4> QED
        BY <2>5, <4>4 DEF Acknowledged
    <3> QED
      BY <1>1, <1>2, <3>1, <3>2 DEF Persist, old, new
  <2> QED
    BY <2>5, <2>6
<1>10. Seen(handled)' = seen
  BY DEF Seen, seen
<1>11. \A u \in Tabs : session'[u] = new
  BY <1>1 DEF new
<1>12. Cardinality(Seen(handled)') <= MaxAcknowledged =>
          /\ Seen(handled)' \subseteq Range(ledger'.acknowledged)
          /\ \A u \in Tabs : Seen(handled)' \subseteq Acknowledged(session'[u])
  BY <1>9, <1>10, <1>11
<1>13. \A u \in Tabs : Settled(session'[u])
  BY <1>8, <1>11
<1> QED
  BY <1>1, <1>4, <1>12, <1>13 DEF HandledInv, Settled, Waiting, Acknowledged

LEMMA NextHandledInv ==
    OneTab /\ SyncInv /\ BoundInv /\ LedgerInv /\ ThroughInv /\ HandledInv /\ [Next]_vars
        => HandledInv'
<1> SUFFICES ASSUME OneTab, SyncInv, BoundInv, LedgerInv, ThroughInv, HandledInv, [Next]_vars
             PROVE  HandledInv'
  OBVIOUS
<1>1. log \in Seq(LogEntry) /\ DOMAIN session = Tabs /\ (log' = log => LogStep)
  BY LogStays DEF SyncInv
<1>2. \A b \in Batches : log' = Committed(b) => LogStep
  BY <1>1, CommitAppends DEF LogStep
<1>3. ASSUME LogStep, UNCHANGED <<ledger, session, handled>> PROVE HandledInv'
  BY <1>3, QuietlyHandled
<1>4. CASE UNCHANGED vars
  BY <1>1, <1>3, <1>4 DEF vars, tabVars
<1>5. CASE Commit \/ ApplySaved
  BY <1>2, <1>3, <1>5 DEF Commit, ApplySaved, tabVars
<1>6. ASSUME NEW t \in Tabs, Receive(t) PROVE HandledInv'
  BY <1>1, <1>3, <1>6 DEF Receive
<1>7. ASSUME NEW t \in Tabs, StartSync(t) PROVE HandledInv'
  <2>1. LogStep
    BY <1>1, <1>2, <1>7 DEF StartSync, Reconcile
  <2>2. /\ ledger' = ledger /\ handled' = handled
        /\ \/ session' = session
           \/ session' = [session EXCEPT ![t] = OpenSession(ledger)]
           \/ session' = [session EXCEPT ![t] = session[t]]
    BY <1>7 DEF StartSync
  <2>3. \A u \in Tabs : session'[u] = session[u] \/ session'[u] = OpenSession(ledger)
    BY <1>1, <2>2
  <2> QED
    BY <2>1, <2>2, <2>3, QuietlyHandled
<1>8. ASSUME NEW t \in Tabs, StartLedger(t) PROVE HandledInv'
  <2>1. ledger = None /\ log' = log /\ handled' = handled
    BY <1>8 DEF StartLedger, LedgerInv
  <2>2. \E data : session' = [session EXCEPT ![t] = OpenSession(data)]
    BY <1>8 DEF StartLedger
  <2>3. \A u \in Tabs : session'[u] = session[u] \/ \E data : session'[u] = OpenSession(data)
    BY <1>1, <2>2
  <2> QED
    BY <1>1, <2>1, <2>3, QuietlyHandled
<1>9. ASSUME NEW t \in Tabs, NEW p \in Readable, ReadHead(t, p) \/ ReadPartition(t, p)
      PROVE  HandledInv'
  BY <1>1, <1>3, <1>9 DEF ReadHead, ReadPartition
<1>10. ASSUME NEW t \in Tabs, ReadFails(t) \/ Refresh(t) PROVE HandledInv'
  <2>1. /\ UNCHANGED <<log, ledger, handled>>
        /\ \A u \in Tabs : session'[u] = session[u] \/ session'[u] = None
    BY <1>1, <1>10 DEF ReadFails, Refresh
  <2> QED
    BY <1>1, <2>1, QuietlyHandled
<1>11. ASSUME NEW t \in Tabs, PageArrives(t) \/ AcknowledgeNeutral(t) \/ Continue(t)
       PROVE  HandledInv'
  BY <1>11, SavingHandled
<1> QED
  BY <1>4, <1>5, <1>6, <1>7, <1>8, <1>9, <1>10, <1>11 DEF Next, SyncStep

LEMMA InitHandledInv == Init => HandledInv
BY DEF Init, HandledInv, Seen

\* In one tab, in every state: until more events were handled than one list holds, no event
\* that was acknowledged or given up waits again, however often the tail is read anew from
\* a cursor that an older event holds back.  So in a room of at most that many events.
THEOREM NothingReplayed ==
    ASSUME OneTab
    PROVE  Spec => [](Cardinality(Seen(handled)) <= MaxAcknowledged \/ Len(log) <= MaxAcknowledged
                        => NeverReplayed)
<1> DEFINE Inv == SyncInv /\ BoundInv /\ LedgerInv /\ ThroughInv /\ HandledInv
<1>1. Inv => (Cardinality(Seen(handled)) <= MaxAcknowledged \/ Len(log) <= MaxAcknowledged
                => NeverReplayed)
  <2> SUFFICES ASSUME Inv,
                      Cardinality(Seen(handled)) <= MaxAcknowledged \/ Len(log) <= MaxAcknowledged,
                      NEW t \in Tabs, session[t] # None, NEW c \in Copies(session[t]),
                      NEW h \in handled, h.sequence = c.sequence
               PROVE  FALSE
    BY DEF NeverReplayed
  <2>1. /\ log \in Seq(LogEntry) /\ Len(log) \in Nat /\ SessionOK(session[t], KnownIn(log))
        /\ \A x \in handled : HandledLogged(x)
    BY DEF SyncInv, TabOK, SessionFits, HandledInv
  <2>2. /\ IsFiniteSet(Seen(handled)) /\ Cardinality(Seen(handled)) <= Len(log)
        /\ Cardinality(Seen(handled)) \in Nat
    BY <2>1, SeenFinite, FS_CardinalityType DEF HandledLogged
  <2>3. Cardinality(Seen(handled)) <= MaxAcknowledged
    BY <2>1, <2>2, LimitsAssumption
  <2>4. PICK e \in Range(session[t].pending) : c \in e.copies
    BY DEF Copies
  <2>5. c \in KnownIn(log) /\ c.eventId = e.eventId
    BY <2>1, <2>4 DEF SessionOK, EntryOK
  <2>6. log[c.sequence].eventId = e.eventId
    BY <2>1, <2>5, KnownSays
  <2>7. e.eventId \in Seen(handled)
    BY <2>1, <2>6 DEF HandledLogged, Seen
  <2>8. e.eventId \in Acknowledged(session[t])
    BY <2>3, <2>7 DEF HandledInv
  <2> QED
    BY <2>4, <2>8 DEF HandledInv, Settled, Waiting
<1>2. Init => Inv
  BY InitSyncInv, InitBoundInv, InitHistory, InitHandledInv
<1>3. Inv /\ [Next]_vars => Inv'
  BY NextSyncInv, NextBoundInv, NextLedgerInv, NextThroughInv, NextHandledInv
<1> QED
  BY <1>1, <1>2, <1>3, PTL DEF Spec

-----------------------------------------------------------------------------
(* The room that is followed.                                               *)

\* A step commits one batch, or none.
LEMMA LogMoves == [Next]_vars => UNCHANGED log \/ \E b \in Batches : log' = Committed(b)
<1> SUFFICES ASSUME [Next]_vars PROVE UNCHANGED log \/ \E b \in Batches : log' = Committed(b)
  OBVIOUS
<1>1. CASE Commit \/ ApplySaved
  BY <1>1 DEF Commit, ApplySaved
<1>2. ASSUME NEW t \in Tabs, StartSync(t)
      PROVE  UNCHANGED log \/ \E b \in Batches : log' = Committed(b)
  BY <1>2 DEF StartSync, Reconcile
<1>3. ASSUME NEW t \in Tabs,
             \/ Receive(t) \/ StartLedger(t) \/ PageArrives(t) \/ ReadFails(t) \/ Refresh(t)
             \/ AcknowledgeNeutral(t) \/ Continue(t)
      PROVE  UNCHANGED log
  BY <1>3 DEF Receive, StartLedger, PageArrives, ReadFails, Refresh, AcknowledgeNeutral,
              Continue, AcknowledgePresentation
<1>4. ASSUME NEW t \in Tabs, NEW p \in Readable, ReadHead(t, p) \/ ReadPartition(t, p)
      PROVE  UNCHANGED log
  BY <1>4 DEF ReadHead, ReadPartition
<1>5. CASE UNCHANGED vars
  BY <1>5 DEF vars
<1> QED
  BY <1>1, <1>2, <1>3, <1>4, <1>5 DEF Next, SyncStep

\* The copies a log has stored, by sequence and revision.
CopiesOf(l) ==
    UNION {{[partition |-> p, sequence |-> s, roomRevision |-> l[s].roomRevision] :
               p \in l[s].copies} : s \in DOMAIN l}

LEMMA CommitIsLogged ==
    ASSUME log \in Seq(LogEntry), NEW b \in Batches, log' = Committed(b)
    PROVE  Room!Commit
<1>1. PICK n \in Nat \ {0} : DOMAIN b = 1..n /\ b \in [1..n -> Events]
  BY BatchFacts
<1> DEFINE m == Committed(b)
           N == Len(log)
           rev == RoomRevision(log)
           new == UNION {{[partition |-> p, sequence |-> s, roomRevision |-> m[s].roomRevision] :
                            p \in m[s].copies} : s \in (N + 1)..(N + n)}
<1>2. /\ m \in Seq(LogEntry) /\ DOMAIN m = 1..(N + n) /\ DOMAIN log = 1..N /\ N \in Nat
      /\ \A s \in 1..N : m[s] = log[s]
      /\ \A i \in 1..n : m[N + i].roomRevision = rev + 1
  BY <1>1, CommittedIs, CommitAppends
<1> HIDE DEF m, N, rev
<1>3. \A s \in (N + 1)..(N + n) : m[s].roomRevision = rev + 1 /\ m[s].copies \subseteq Readable
  <2> SUFFICES ASSUME NEW s \in (N + 1)..(N + n)
               PROVE  m[s].roomRevision = rev + 1 /\ m[s].copies \subseteq Readable
    OBVIOUS
  <2>1. s - N \in 1..n /\ N + (s - N) = s /\ s \in DOMAIN m
    BY <1>2
  <2>2. m[s] \in LogEntry
    BY <1>2, <2>1
  <2>3. m[N + (s - N)].roomRevision = rev + 1
    BY <1>2, <2>1
  <2> QED
    BY <2>1, <2>2, <2>3 DEF LogEntry
<1>4. Len(m) = N + n /\ Len(m) \in Nat /\ N < Len(m)
  BY <1>1, <1>2
<1>5. RoomRevision(m) = rev + 1
  <2>1. m # <<>> /\ Len(m) \in (N + 1)..(N + n)
    BY <1>1, <1>2, <1>4
  <2> QED
    BY <1>3, <2>1 DEF RoomRevision
<1>6. CopiesOf(m) = CopiesOf(log) \cup new
  <2>1. DOMAIN m = DOMAIN log \cup (N + 1)..(N + n)
    BY <1>1, <1>2
  <2> QED
    BY <1>2, <2>1 DEF CopiesOf
<1>7. new \in SUBSET Room!Numbered(N + 1, Len(m), rev + 1)
  BY <1>3, <1>4 DEF Room!Numbered
<1>8. CopiesOf(log)' = CopiesOf(m) /\ Len(log)' = Len(m) /\ RoomRevision(log)' = rev + 1
  BY <1>5 DEF CopiesOf, RoomRevision, m
<1> QED
  BY <1>4, <1>6, <1>7, <1>8 DEF Room!Commit, CopiesOf, N, rev

\* Refinement: for any number of tabs, the room they follow is such a log as RoomAuthority
\* shows every viewer, whose command it ever is and however it reaches the room.
THEOREM FollowsALog == Spec => RefinesRoomLog
<1>1. Init => Room!Init
  <2> SUFFICES ASSUME Init PROVE Room!Init
    OBVIOUS
  <2>1. log = <<>> /\ DOMAIN log = {} /\ Len(log) = 0
    BY DEF Init
  <2> QED
    BY <2>1 DEF Room!Init, RoomRevision
<1>2. SyncInv /\ [Next]_vars => [Room!Commit]_(Room!logVars)
  <2> SUFFICES ASSUME SyncInv, [Next]_vars PROVE [Room!Commit]_(Room!logVars)
    OBVIOUS
  <2>1. log \in Seq(LogEntry)
    BY DEF SyncInv
  <2>2. CASE UNCHANGED log
    BY <2>2 DEF Room!logVars, RoomRevision
  <2> QED
    BY <2>1, <2>2, LogMoves, CommitIsLogged
<1> QED
  BY <1>1, <1>2, SyncInvHolds, PTL DEF Spec, RefinesRoomLog, Room!Spec
=============================================================================
