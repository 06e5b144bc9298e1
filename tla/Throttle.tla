------------------------------- MODULE Throttle -------------------------------
(***************************************************************************)
(* The fixed-window throttles that run before the authorities: attempts    *)
(* of concurrent calls, each with the clock it read before its             *)
(* transaction, over the buckets of the three throttle trees.              *)
(*                                                                         *)
(* A step of the clock is a fraction of a window.  The clock a call read   *)
(* may be late when its transaction commits, by waiting, by retries of the *)
(* transaction or by the clock of its instance.                            *)
(***************************************************************************)
EXTENDS Integers, Bags, FiniteSetsExt

CONSTANTS
    Calls,     \* concurrent calls of the throttled callables
    Trees,     \* the throttle trees in use: "admission", "createRoom", "recovery"
    Codes,     \* submitted room codes
    Ips,       \* callers' addresses
    Uids,      \* callers' identities
    Limits,    \* per tree and bucket: attempts per window
    Window,    \* length of a window
    MaxLag,    \* how late a call's clock may be when it commits
    MaxTime,   \* bound of the clock
    None       \* no such document or call

-----------------------------------------------------------------------------
\* The buckets, by what their paths are made of.

AdmissionKeys(code, ip, uid) ==
    {<<"admission", "code", code, ip>>, <<"admission", "ip", ip>>, <<"admission", "uid", uid>>}

CreateRoomKeys(uid, ip) == {<<"createRoom", "uid", uid>>, <<"createRoom", "ip", ip>>}

RecoveryKeys(code, ip) == {<<"recovery", "roomIp", code, ip>>, <<"recovery", "ip", ip>>}

\* What one attempt consumes.
Subjects ==
    LET all == {AdmissionKeys(code, ip, uid) : code \in Codes, ip \in Ips, uid \in Uids}
               \cup {CreateRoomKeys(uid, ip) : uid \in Uids, ip \in Ips}
               \cup {RecoveryKeys(code, ip) : code \in Codes, ip \in Ips}
    IN  {keys \in all : \A k \in keys : k[1] \in Trees}

Keys == UNION Subjects

Limit(key) == Limits[key[1]][key[2]]

ASSUME ThrottleAssumption ==
    /\ Window \in Nat \ {0} /\ MaxLag \in 0..Window /\ MaxTime \in Nat
    /\ \A k \in Keys : Limit(k) \in Nat \ {0}

VARIABLES
    clock,
    buckets,   \* the throttle documents
    calls,     \* per call: the attempt under way and the clock it read
    admitted,  \* history: a bag of admitted attempts, with the time of commit
    denied     \* history: what the latest step denied

vars == <<clock, buckets, calls, admitted, denied>>

Counter == [windowStart : 0..MaxTime, count : Nat \ {0}]
Attempt == [keys : Subjects, now : 0..MaxTime]
Admission == [keys : Subjects, now : 0..MaxTime, at : 0..MaxTime]

ASSUME NoCounterAssumption == None \notin Counter \cup Attempt \cup Subjects

Init ==
    /\ clock = 0
    /\ buckets = [k \in Keys |-> None]
    /\ calls = [i \in Calls |-> None]
    /\ admitted = EmptyBag
    /\ denied = None

-----------------------------------------------------------------------------
\* Mutant: a window ends one step late.
ExpiredLate(counter, now) ==
    counter = None \/ now - counter.windowStart > Window

Expired(counter, now) ==
    counter = None \/ now - counter.windowStart >= Window

\* Mutant: the cap is passed by one.
FullAboveCap(counter, limit) == counter.count > limit

Full(counter, limit) == counter.count >= limit

\* Mutant: the attempt that opens a window is not counted.
DecideThrottleUncounted(counter, now, limit) ==
    IF Expired(counter, now) THEN [windowStart |-> now, count |-> 0]
    ELSE IF Full(counter, limit) THEN None
    ELSE [counter EXCEPT !.count = @ + 1]

\* The counter to write, or None for a denial.
DecideThrottle(counter, now, limit) ==
    IF Expired(counter, now) THEN [windowStart |-> now, count |-> 1]
    ELSE IF Full(counter, limit) THEN None
    ELSE [counter EXCEPT !.count = @ + 1]

\* requireThrottle and its two siblings: the clock is read, then the transaction
\* is asked for.
Arrive(i, keys) ==
    /\ calls[i] = None
    /\ calls' = [calls EXCEPT ![i] = [keys |-> keys, now |-> clock]]
    /\ denied' = None
    /\ UNCHANGED <<clock, buckets, admitted>>

\* Mutant: the buckets that allow an attempt count it, whatever the others say.
ConsumePartly(i) ==
    /\ calls[i] # None
    /\ calls' = [calls EXCEPT ![i] = None]
    /\ LET call == calls[i]
           next == [k \in call.keys |-> DecideThrottle(buckets[k], call.now, Limit(k))]
       IN  /\ buckets' = [k \in Keys |-> IF k \in call.keys /\ next[k] # None
                                         THEN next[k] ELSE buckets[k]]
           /\ IF \E k \in call.keys : next[k] = None
              THEN /\ denied' = call.keys
                   /\ UNCHANGED admitted
              ELSE /\ admitted' = admitted (+) SetToBag({[keys |-> call.keys,
                                                          now |-> call.now, at |-> clock]})
                   /\ denied' = None
    /\ UNCHANGED clock

\* The transaction: all buckets count the attempt, or none does.
Consume(i) ==
    /\ calls[i] # None
    /\ calls' = [calls EXCEPT ![i] = None]
    /\ LET call == calls[i]
           next == [k \in call.keys |-> DecideThrottle(buckets[k], call.now, Limit(k))]
       IN  \/ /\ \E k \in call.keys : next[k] = None
              /\ denied' = call.keys
              /\ UNCHANGED <<buckets, admitted>>
           \/ /\ \A k \in call.keys : next[k] # None
              /\ buckets' = [k \in Keys |-> IF k \in call.keys THEN next[k] ELSE buckets[k]]
              /\ admitted' = admitted (+) SetToBag({[keys |-> call.keys, now |-> call.now,
                                                     at |-> clock]})
              /\ denied' = None
    /\ UNCHANGED clock

\* The instance stops, or the call times out, before its transaction commits.
Drop(i) ==
    /\ calls[i] # None
    /\ calls' = [calls EXCEPT ![i] = None]
    /\ denied' = None
    /\ UNCHANGED <<clock, buckets, admitted>>

\* Firestore's TTL policy removes a document, one window after its own is over.
Reclaim(k) ==
    /\ buckets[k] # None
    /\ clock >= buckets[k].windowStart + 2 * Window
    /\ buckets' = [buckets EXCEPT ![k] = None]
    /\ denied' = None
    /\ UNCHANGED <<clock, calls, admitted>>

Tick ==
    /\ clock < MaxTime
    /\ \A i \in Calls : calls[i] # None => clock - calls[i].now < MaxLag
    /\ clock' = clock + 1
    /\ denied' = None
    /\ UNCHANGED <<buckets, calls, admitted>>

Next ==
    \/ Tick
    \/ \E i \in Calls :
          \/ \E keys \in Subjects : Arrive(i, keys)
          \/ Consume(i)
          \/ Drop(i)
    \/ \E k \in Keys : Reclaim(k)

Spec == Init /\ [][Next]_vars

-----------------------------------------------------------------------------
\* Properties.

\* Every variable has its type, and no counter passes its cap.
TypeOK ==
    /\ clock \in 0..MaxTime
    /\ buckets \in [Keys -> Counter \cup {None}]
    /\ calls \in [Calls -> Attempt \cup {None}]
    /\ IsABag(admitted) /\ BagToSet(admitted) \subseteq Admission
    /\ denied \in Subjects \cup {None}
    /\ \A k \in Keys : buckets[k] # None =>
          buckets[k].count <= Limit(k) /\ buckets[k].windowStart <= clock

\* How many admitted attempts of a set there are.
Count(attempts) == MapThenSumSet(LAMBDA a : admitted[a], attempts)

AdmittedOn(k) == {a \in BagToSet(admitted) : k \in a.keys}

\* A counter tells how often its window was used: denied attempts count nowhere,
\* and concurrent ones are never lost, however late their clocks.
CountsAdmissions ==
    \A k \in Keys : buckets[k] # None =>
        LET start == buckets[k].windowStart
        IN  /\ buckets[k].count >= Count({a \in AdmittedOn(k) : a.now >= start})
            /\ buckets[k].count <= Count({a \in AdmittedOn(k) : a.at >= start})

\* No window-long span of time, wherever it begins, admits two full caps of
\* attempts on a bucket if clocks are never late, or three if they are.
BurstBounded ==
    \A k \in Keys, from \in 0..MaxTime :
        Count({a \in AdmittedOn(k) : a.at \in from..(from + Window - 1)})
            < (IF MaxLag = 0 THEN 2 ELSE 3) * Limit(k)

\* A denied attempt had a bucket whose cap was used up within the last window:
\* denials never prolong a lockout.
LockoutBrief ==
    denied # None =>
        \E k \in denied :
            Count({a \in AdmittedOn(k) : a.at > clock - Window - MaxLag}) >= Limit(k)
=============================================================================
