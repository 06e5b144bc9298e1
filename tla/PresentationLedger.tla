-------------------------- MODULE PresentationLedger --------------------------
(***************************************************************************)
(* The presentation ledger of one viewer: which events of the tail were    *)
(* already presented (apps/web/src/session/presentationLedger.ts).  The    *)
(* ledger's data, a cursor and a bounded list of acknowledged events, is   *)
(* kept in localStorage; a session is the ledger opened by one tab.  Roll  *)
(* contexts, which only decorate what is presented, are left out.          *)
(***************************************************************************)
EXTENDS EventTail, Sequences, FiniteSetsExt

CONSTANTS MaxAcknowledged, MaxPending, MaxSequenceLag

\* What the ledger's comment builds on: 300 is less than 512.
ASSUME LimitsAssumption ==
    /\ MaxAcknowledged \in Nat \ {0} /\ MaxPending \in Nat \ {0} /\ MaxSequenceLag \in Nat
    /\ MaxSequenceLag < MaxAcknowledged

\* An unacknowledged event with the copies seen of it.
Entry == [eventId : EventIds, sequence : Nat, copies : SUBSET Record]

Ledger == [cursor : Cursor, acknowledged : Seq(EventIds)]

\* pending in the order of arrival; highest and newest are what was read in all.
Session == [cursor : Cursor, acknowledged : Seq(EventIds), pending : Seq(Entry),
            highest : Cursor, newest : Nat]

\* Selecting and sorting, by ranks: of SelectSeq and SortSeq nothing can be proved.
Nth(numbers, n) == CHOOSE x \in numbers : Cardinality({y \in numbers : y < x}) = n - 1

\* The elements of a sequence that lie in a set, in their order.
Only(s, S) ==
    LET at == {i \in DOMAIN s : s[i] \in S}
    IN  [n \in 1..Cardinality(at) |-> s[Nth(at, n)]]

\* Entries in the order of the log.
InOrder(entries) ==
    LET at == {e.sequence : e \in entries}
    IN  [n \in 1..Cardinality(at) |-> CHOOSE e \in entries : e.sequence = Nth(at, n)]

NewestOf(s, n) == SubSeq(s, IF Len(s) > n THEN Len(s) - n + 1 ELSE 1, Len(s))

Greater(m, n) == IF m > n THEN m ELSE n

EmptyLedgerData(baseline) == [cursor |-> baseline, acknowledged |-> <<>>]

\* Mutant: what both know is kept twice.
MergeAcknowledgedIdsTwice(stored, incoming) ==
    NewestOf(stored \o incoming, MaxAcknowledged)

MergeAcknowledgedIds(stored, incoming) ==
    NewestOf(stored \o Only(incoming, Range(incoming) \ Range(stored)), MaxAcknowledged)

\* Saving merges with what the other tabs of this viewer saved.
MergeLedgerData(stored, incoming) ==
    [cursor |-> [p \in Partitions |-> Greater(stored.cursor[p], incoming.cursor[p])],
     acknowledged |-> MergeAcknowledgedIds(stored.acknowledged, incoming.acknowledged)]

\* A session opened on saved data.  What was read before is not known.
OpenSession(data) ==
    [cursor |-> data.cursor, acknowledged |-> data.acknowledged, pending |-> <<>>,
     highest |-> EmptyCursor, newest |-> 0]

LedgerData(session) ==
    [cursor |-> session.cursor, acknowledged |-> session.acknowledged]

\* Mutant: reading resumes at the newest event read from any partition.
FetchCursorShared(session) ==
    [p \in Partitions |-> Greater(session.cursor[p], session.newest)]

FetchCursor(session) ==
    [p \in Partitions |-> Greater(session.cursor[p], session.highest[p])]

Acknowledged(session) == Range(session.acknowledged)

\* acknowledgeInternal, for events in this order.
Acknowledge(session, ids) ==
    [session EXCEPT
        !.pending = Only(@, {e \in Range(@) : e.eventId \notin Range(ids)}),
        !.acknowledged =
            NewestOf(@ \o Only(ids, Range(ids) \ Acknowledged(session)), MaxAcknowledged)]

Ids(entries) == [i \in DOMAIN entries |-> entries[i].eventId]

-----------------------------------------------------------------------------
\* Ingesting one page of the tail.

NoteIngested(session, records) ==
    LET Upto(n, rs) == Max({n} \cup {r.sequence : r \in rs})
    IN  [session EXCEPT
            !.highest = [p \in Partitions |->
                            Upto(@[p], {r \in records : r.partition = p})],
            !.newest = Upto(@, records)]

\* Neither acknowledged, nor below the cursor, nor held already: one copy per
\* partition and event.
Wanted(session, r) ==
    /\ r.eventId \notin Acknowledged(session)
    /\ r.sequence > session.cursor[r.partition]
    /\ \A e \in Range(session.pending) : \A c \in e.copies :
          c.partition = r.partition => c.eventId # r.eventId /\ c.sequence # r.sequence

\* An identifier used again within the page is taken at its first record.
Added(session, records) ==
    {r \in records :
        /\ Wanted(session, r)
        /\ \A q \in records :
              q.partition = r.partition /\ q.eventId = r.eventId /\ Wanted(session, q)
                => r.sequence <= q.sequence}

AddCopies(session, copies) ==
    LET Of(id) == {r \in copies : r.eventId = id}
        held == {e.eventId : e \in Range(session.pending)}
        fresh == {[eventId |-> id, sequence |-> Min({r.sequence : r \in Of(id)}), copies |-> Of(id)] :
                     id \in {r.eventId : r \in copies} \ held}
        Grown(e) == [e EXCEPT !.copies = @ \cup Of(e.eventId)]
    IN  [session EXCEPT !.pending = [i \in DOMAIN @ |-> Grown(@[i])] \o InOrder(fresh)]

\* An event this far behind the newest one read is given up.
Lagging(session, e) == e.sequence + MaxSequenceLag < session.newest

\* The oldest of the events beyond the limit.
Overflow(session) ==
    LET oldest == InOrder(Range(session.pending))
    IN  Ids(SubSeq(oldest, 1, IF Len(oldest) > MaxPending THEN Len(oldest) - MaxPending ELSE 0))

Expire(session) ==
    LET lagging == {e \in Range(session.pending) : Lagging(session, e)}
        caughtUp == Acknowledge(session, Ids(Only(session.pending, lagging)))
    IN  Acknowledge(caughtUp, Overflow(caughtUp))

\* Mutant: the cursor runs past what is still waiting.
RecomputeCursorPastPending(session) ==
    [session EXCEPT !.cursor = [p \in Partitions |-> Greater(@[p], session.highest[p])]]

\* The cursor of a partition stops before its first unacknowledged copy.
RecomputeCursor(session) ==
    LET waiting(p) == {c.sequence : c \in {d \in UNION {e.copies : e \in Range(session.pending)} :
                                              d.partition = p}}
    IN  [session EXCEPT !.cursor =
            [p \in Partitions |->
                Greater(@[p], IF waiting(p) = {} THEN session.highest[p]
                                                ELSE Min(waiting(p)) - 1)]]

Ingest(session, records) ==
    LET noted == NoteIngested(session, records)
    IN  RecomputeCursor(Expire(AddCopies(noted, Added(noted, records))))

\* What a viewer acknowledges, if it still waits.
AcknowledgeEvents(session, ids) ==
    LET waiting == Only(ids, {e.eventId : e \in Range(session.pending)})
    IN  IF waiting = <<>> THEN session ELSE RecomputeCursor(Acknowledge(session, waiting))
=============================================================================
