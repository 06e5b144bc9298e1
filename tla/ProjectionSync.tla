---------------------------- MODULE ProjectionSync ----------------------------
(***************************************************************************)
(* How a viewer's tabs follow a room: projections arrive by reads and      *)
(* snapshots, the event tail is paged into the presentation ledger, and    *)
(* what the ledger holds is shown once the projection has caught up        *)
(* (apps/web/src/session/useRoomProjection.ts, the reads of                *)
(* FirebaseRoomRepository, and the player dashboard's queue).              *)
(*                                                                         *)
(* The room is the log of its committed events.  The reads of the          *)
(* partitions of one page are separate requests, the ledger is shared by   *)
(* the tabs, a refresh of a tab loses everything but the ledger.  What     *)
(* dispatching does is CommandClient's: here one saved command may wait    *)
(* for its outcome when the first tab opens.                               *)
(***************************************************************************)
EXTENDS PresentationLedger

CONSTANTS
    Tabs,
    Capability,     \* of the viewer
    Events,         \* what may be committed: an identifier and its copies
    Unique,         \* the identifiers the template never uses twice
    Resolutions,    \* the viewer's own ActionResolved events
    ChoiceOf,       \* own InjuryCategoryChosen events, to the resolution they finish
    PagesPerSync,   \* pages read by one pass of the sync loop
    MaxBatch,       \* events of one command (a bound)
    MaxSequence,    \* events of the room (a bound)
    MaxFaults,      \* refreshes and failed reads (a bound)
    None

Readable == AuthorizedPartitions(Capability)

Event == [eventId : EventIds, copies : SUBSET Readable]

ASSUME ViewerAssumption == Capability \in {"player", "gm", "table"}

ASSUME EventsAssumption ==
    /\ Events \subseteq Event
    /\ DOMAIN ChoiceOf \subseteq EventIds \ Resolutions
    /\ \A id \in DOMAIN ChoiceOf : ChoiceOf[id] \in Resolutions

VARIABLES
    log,            \* the committed events, by sequence
    saved,          \* the command the outbox holds, and where it was applied
    ledger,         \* the saved ledger of this viewer
    phase,          \* per tab: what the sync loop is doing
    page,           \* per tab: the cursor and results of the reads under way
    session,        \* per tab: the open ledger
    recovered,      \* per tab: sequences reconciled before a ledger was opened
    projection,     \* per tab: the revision of the rendered projection
    published,      \* per tab: the events last published
    base,           \* history: where the ledger started
    learnt,         \* history: the commands recovered, and how
    handled,        \* history: what left the ledger, and through whom
    paged,          \* history: per tab, how far the last page reached
    faults          \* refreshes and failed reads so far (for the bound)

\* An absent ledger or session is none.
ASSUME NoneAssumption == None \notin Session \cup Ledger \cup Cursor

tabVars == <<phase, page, session, recovered, projection, published, paged>>
vars == <<log, saved, ledger, phase, page, session, recovered, projection,
          published, base, learnt, handled, paged, faults>>

RoomRevision(l) == IF l = <<>> THEN 0 ELSE l[Len(l)].roomRevision

Stored(p) ==
    {[partition |-> p, sequence |-> s, eventId |-> log[s].eventId,
      roomRevision |-> log[s].roomRevision] : s \in {n \in DOMAIN log : p \in log[n].copies}}

NoPage == [after |-> EmptyCursor, began |-> 0, got |-> [p \in {} |-> {}], left |-> 0]

NoCommand == [state |-> "none", first |-> 0]

Init ==
    /\ log = <<>>
    /\ saved \in {NoCommand, [state |-> "unanswered", first |-> 0]}
    /\ ledger = None
    /\ phase = [t \in Tabs |-> "idle"]
    /\ page = [t \in Tabs |-> NoPage]
    /\ session = [t \in Tabs |-> None]
    /\ recovered = [t \in Tabs |-> {}]
    /\ projection = [t \in Tabs |-> 0]
    /\ published = [t \in Tabs |-> <<>>]
    /\ base = None
    /\ learnt = {}
    /\ handled = {}
    /\ paged = [t \in Tabs |-> 0]
    /\ faults = 0

-----------------------------------------------------------------------------
\* The room.

\* Commands end in one new revision and one or more events.
Batches ==
    {b \in UNION {[1..n -> Events] : n \in 1..MaxBatch} :
        /\ Len(log) + Len(b) <= MaxSequence
        /\ \A i \in DOMAIN b :
             LET before == {log[j].eventId : j \in DOMAIN log} \cup {b[j].eventId : j \in 1..(i - 1)}
             IN  /\ b[i].eventId \in Unique => b[i].eventId \notin before
                 /\ b[i].eventId \in DOMAIN ChoiceOf => ChoiceOf[b[i].eventId] \in before}

Committed(b) ==
    log \o [i \in DOMAIN b |-> [eventId |-> b[i].eventId, copies |-> b[i].copies,
                                roomRevision |-> RoomRevision(log) + 1]]

Commit ==
    /\ \E b \in Batches : log' = Committed(b)
    /\ UNCHANGED <<saved, ledger, base, learnt, handled, faults, tabVars>>

\* The saved command was delivered after all; its reply is lost.
ApplySaved ==
    /\ saved.state = "unanswered"
    /\ \E b \in Batches : log' = Committed(b)
    /\ saved' = [state |-> "applied", first |-> Len(log) + 1]
    /\ UNCHANGED <<ledger, base, learnt, handled, faults, tabVars>>

-----------------------------------------------------------------------------
\* Projections.

\* Mutant: the last projection to arrive is the one rendered.
LaterRevisionArrived(shown, next) == next

LaterRevision(shown, next) == Greater(shown, next)

\* A snapshot or a read delivers the room as it was at some time.
Receive(t) ==
    /\ \E r \in 0..RoomRevision(log) :
         projection' = [projection EXCEPT ![t] = LaterRevision(@, r)]
    /\ UNCHANGED <<log, saved, ledger, phase, page, session, recovered, published,
                   base, learnt, handled, paged, faults>>

-----------------------------------------------------------------------------
\* The sync loop.

\* Mutant: a later pass starts from what it recovered itself.
RecoveredSoFarAnew(t, firsts) == firsts

\* Kept until a ledger is open, whatever fails in between.
RecoveredSoFar(t, firsts) ==
    IF session[t] = None /\ ledger = None THEN recovered[t] \cup firsts ELSE {}

PageAfter(cursor, left) ==
    [after |-> cursor, began |-> Len(log), got |-> [p \in {} |-> {}], left |-> left]

\* The outbox is reconciled.  A command with a receipt is answered with its first
\* sequence.  One without is sent again and accepted or rejected: that answer carries
\* no sequence.
Reconcile(t) ==
    \/ /\ saved.state = "none"
       /\ recovered' = [recovered EXCEPT ![t] = RecoveredSoFar(t, {})]
       /\ UNCHANGED <<log, saved, learnt>>
    \/ /\ saved.state = "applied"
       /\ recovered' = [recovered EXCEPT ![t] = RecoveredSoFar(t, {saved.first})]
       /\ learnt' = learnt \cup {[first |-> saved.first, through |-> "receipt"]}
       /\ saved' = NoCommand
       /\ UNCHANGED log
    \/ /\ saved.state = "unanswered"
       /\ recovered' = [recovered EXCEPT ![t] = RecoveredSoFar(t, {})]
       /\ saved' = NoCommand
       /\ \/ /\ \E b \in Batches : log' = Committed(b)
             /\ learnt' = learnt \cup {[first |-> Len(log) + 1, through |-> "resend"]}
          \/ UNCHANGED <<log, learnt>>

\* A pass reconciles the outbox, reads the projection and begins with the tail: from
\* the open ledger, or the saved one.  Without either, the heads of the partitions
\* are read first.
StartSync(t) ==
    /\ phase[t] = "idle"
    /\ Reconcile(t)
    /\ projection' = [projection EXCEPT ![t] = LaterRevision(@, RoomRevision(log'))]
    /\ IF session[t] = None /\ ledger = None
       THEN /\ phase' = [phase EXCEPT ![t] = "head"]
            /\ UNCHANGED <<page, session>>
       ELSE LET opened == IF session[t] = None THEN OpenSession(ledger) ELSE session[t]
            IN  /\ session' = [session EXCEPT ![t] = opened]
                /\ page' = [page EXCEPT ![t] =
                       [PageAfter(FetchCursor(opened), PagesPerSync) EXCEPT !.began = Len(log')]]
                /\ phase' = [phase EXCEPT ![t] = "page"]
    /\ UNCHANGED <<ledger, published, base, handled, paged, faults>>

\* One more partition has answered.
Answered(got, p, records) ==
    [q \in DOMAIN got \cup {p} |-> IF q = p THEN records ELSE got[q]]

\* A partition answers with the room as it is now.
ReadHead(t, p) ==
    /\ phase[t] = "head" /\ p \notin DOMAIN page[t].got
    /\ page' = [page EXCEPT ![t].got =
           Answered(@, p, {r \in Stored(p) : \A q \in Stored(p) : q.sequence <= r.sequence})]
    /\ UNCHANGED <<log, saved, ledger, phase, session, recovered, projection, published,
                   base, learnt, handled, paged, faults>>

\* Mutant: the ledger starts at the heads, whatever was recovered.
BaselineAtHeads(heads, firsts) == heads

\* The ledger starts at the heads, but before any recovered command.
Baseline(heads, firsts) ==
    [p \in Partitions |-> IF firsts = {} THEN heads[p] ELSE Min({heads[p], Min(firsts) - 1})]

StartLedger(t) ==
    /\ phase[t] = "head" /\ DOMAIN page[t].got = Readable
    /\ LET heads == [p \in Partitions |->
                        IF p \in Readable THEN Max({0} \cup {r.sequence : r \in page[t].got[p]})
                                          ELSE 0]
           initial == EmptyLedgerData(Baseline(heads, recovered[t]))
           opened == OpenSession(initial)
       IN  /\ ledger' = MergeLedgerData(IF ledger = None THEN EmptyLedgerData(EmptyCursor)
                                                         ELSE ledger, initial)
           /\ base' = IF base = None THEN initial.cursor ELSE base
           /\ session' = [session EXCEPT ![t] = opened]
           /\ page' = [page EXCEPT ![t] = PageAfter(FetchCursor(opened), PagesPerSync)]
    /\ recovered' = [recovered EXCEPT ![t] = {}]
    /\ phase' = [phase EXCEPT ![t] = "page"]
    /\ UNCHANGED <<log, saved, projection, published, learnt, handled, paged,
                   faults>>

ReadPartition(t, p) ==
    /\ phase[t] = "page" /\ p \notin DOMAIN page[t].got
    /\ page' = [page EXCEPT ![t].got = Answered(@, p, Query(Stored(p), page[t].after[p]))]
    /\ UNCHANGED <<log, saved, ledger, phase, session, recovered, projection, published,
                   base, learnt, handled, paged, faults>>

Waiting(sn) == {e.eventId : e \in Range(sn.pending)}
Copies(sn) == UNION {e.copies : e \in Range(sn.pending)}

\* The copies that stopped waiting, and through whom.
Gone(copies, sn, through) ==
    {[eventId |-> c.eventId, sequence |-> c.sequence, through |-> through] :
        c \in {d \in copies : d.eventId \notin Waiting(sn)}}

\* The session is saved when anything it keeps has changed.
Persist(old, new) ==
    IF new.pending = old.pending /\ LedgerData(new) = LedgerData(old) THEN ledger
    ELSE MergeLedgerData(IF ledger = None THEN EmptyLedgerData(EmptyCursor) ELSE ledger,
                         LedgerData(new))

\* Unacknowledged events, in the order of the log.
Pending(sn) == InOrder(Range(sn.pending))

\* All partitions have answered: the page is ingested, and the next one is read or
\* what waits is published.
PageArrives(t) ==
    /\ phase[t] = "page" /\ DOMAIN page[t].got = Readable
    /\ LET tail == AssembleTailPage(page[t].got, page[t].after)
           old == session[t]
           new == Ingest(old, tail.records)
       IN  /\ session' = [session EXCEPT ![t] = new]
           /\ ledger' = Persist(old, new)
           /\ handled' = handled \cup
                  Gone(Copies(old) \cup Added(NoteIngested(old, tail.records), tail.records),
                       new, "expiry")
           /\ paged' = [paged EXCEPT ![t] =
                  Min({page[t].began, Max({0} \cup {r.sequence : r \in tail.records})})]
           /\ IF tail.hasMore /\ page[t].left > 1
              THEN /\ page' = [page EXCEPT ![t] = PageAfter(FetchCursor(new), @.left - 1)]
                   /\ UNCHANGED <<phase, published>>
              ELSE /\ page' = [page EXCEPT ![t] = NoPage]
                   /\ phase' = [phase EXCEPT ![t] = "idle"]
                   /\ published' = [published EXCEPT ![t] = Pending(new)]
    /\ UNCHANGED <<log, saved, recovered, projection, base, learnt, faults>>

\* A read fails: the pass ends, to be tried again later.
ReadFails(t) ==
    /\ phase[t] \in {"head", "page"} /\ faults < MaxFaults
    /\ faults' = faults + 1
    /\ phase' = [phase EXCEPT ![t] = "idle"]
    /\ page' = [page EXCEPT ![t] = NoPage]
    /\ UNCHANGED <<log, saved, ledger, session, recovered, projection, published,
                   base, learnt, handled, paged>>

\* The tab is reloaded: the ledger is all that stays.
Refresh(t) ==
    /\ faults < MaxFaults
    /\ faults' = faults + 1
    /\ phase' = [phase EXCEPT ![t] = "idle"]
    /\ page' = [page EXCEPT ![t] = NoPage]
    /\ session' = [session EXCEPT ![t] = None]
    /\ recovered' = [recovered EXCEPT ![t] = {}]
    /\ projection' = [projection EXCEPT ![t] = 0]
    /\ published' = [published EXCEPT ![t] = <<>>]
    /\ paged' = [paged EXCEPT ![t] = 0]
    /\ learnt' = IF session[t] = None THEN {[l EXCEPT !.through = "reload"] : l \in learnt}
                                      ELSE learnt
    /\ UNCHANGED <<log, saved, ledger, base, handled>>

-----------------------------------------------------------------------------
\* What is shown, and acknowledged.

\* The copy an event is shown from: the most private one held.
Shown(e) ==
    LET rank == [p \in Partitions |-> CASE p = "gm" -> 1 [] p = "member" -> 2 [] p = "shared" -> 3]
    IN  CHOOSE c \in e.copies : \A d \in e.copies : rank[c.partition] <= rank[d.partition]

\* No event is shown before the projection it was committed with.
Presentation(t) ==
    Only(published[t],
         {e \in Range(published[t]) : Shown(e).roomRevision <= projection[t]})

\* Mutant: an own injury choice is never held.
HeldResolutionsOnly(queue, e) == e.eventId \in Resolutions

\* An own resolution waits for the player, and so does the injury choice that
\* finishes one still queued.
IsHeldForResolution(queue, e) ==
    \/ e.eventId \in Resolutions
    \/ /\ e.eventId \in DOMAIN ChoiceOf
       /\ \E o \in Range(queue) : o.eventId = ChoiceOf[e.eventId]

\* The first own resolution of the queue, with the later choice that finishes it.
SelectOwnResolution(queue) ==
    LET own == {i \in DOMAIN queue : queue[i].eventId \in Resolutions}
        first == Min(own)
    IN  IF own = {} THEN <<>>
        ELSE Ids(Only(SubSeq(queue, first, Len(queue)), {e \in Range(queue) :
                    \/ e = queue[first]
                    \/ /\ e.eventId \in DOMAIN ChoiceOf
                       /\ ChoiceOf[e.eventId] = queue[first].eventId}))

AcknowledgePresentation(t, ids, through) ==
    LET old == session[t]
        new == AcknowledgeEvents(old, ids)
    IN  /\ session' = [session EXCEPT ![t] = new]
        /\ ledger' = Persist(old, new)
        /\ handled' = handled \cup Gone(Copies(old), new, through)
        /\ published' = [published EXCEPT ![t] = Pending(new)]
        /\ UNCHANGED <<log, saved, phase, page, recovered, projection, base, learnt,
                       paged, faults>>

\* The dashboard acknowledges at once what it has nothing to show for.
AcknowledgeNeutral(t) ==
    LET queue == Presentation(t)
        neutral == Only(queue, {e \in Range(queue) : ~IsHeldForResolution(queue, e)})
    IN  /\ session[t] # None /\ neutral # <<>>
        /\ AcknowledgePresentation(t, Ids(neutral), "dashboard")

\* The player continues past the summary of a resolution.
Continue(t) ==
    /\ session[t] # None /\ SelectOwnResolution(Presentation(t)) # <<>>
    /\ AcknowledgePresentation(t, SelectOwnResolution(Presentation(t)), "player")

SyncStep(t) ==
    \/ StartSync(t) \/ StartLedger(t) \/ PageArrives(t)
    \/ \E p \in Readable : ReadHead(t, p) \/ ReadPartition(t, p)

Next ==
    \/ Commit
    \/ ApplySaved
    \/ \E t \in Tabs :
         \/ Receive(t) \/ SyncStep(t)
         \/ ReadFails(t) \/ Refresh(t)
         \/ AcknowledgeNeutral(t) \/ Continue(t)

Spec == Init /\ [][Next]_vars

\* A pass is started again by its timer, and the reads it awaits return or fail.  A
\* step of the loop is always enabled, so its weak fairness is that it is taken again
\* and again.
Fairness == \A t \in Tabs : []<><<SyncStep(t)>>_vars

FairSpec == Spec /\ Fairness

-----------------------------------------------------------------------------
\* Properties.

\* Types, and the limits the ledger promises its storage.
TypeOK ==
    /\ \A s \in DOMAIN log : log[s].eventId \in EventIds /\ log[s].copies \subseteq Readable
    /\ ledger # None => /\ ledger.cursor \in Cursor
                        /\ Len(ledger.acknowledged) <= MaxAcknowledged
                        /\ IsInjective(ledger.acknowledged)
    /\ \A t \in Tabs :
         /\ phase[t] \in {"idle", "head", "page"}
         /\ phase[t] = "page" => session[t] # None
         /\ session[t] # None =>
              /\ DOMAIN session[t] = DOMAIN OpenSession(EmptyLedgerData(EmptyCursor))
              /\ session[t].cursor \in Cursor /\ session[t].highest \in Cursor
              /\ IsInjective(session[t].acknowledged) /\ IsInjective(Ids(session[t].pending))
              /\ Len(session[t].acknowledged) <= MaxAcknowledged
              /\ Len(session[t].pending) <= MaxPending
              /\ \A e \in Range(session[t].pending) : e \in Entry /\ e.copies # {}

\* What the next page of a tab will not read again is waiting in its session or
\* was handled: no copy of an event is skipped between partitions, pages, passes,
\* failures and refreshes.
NothingSkipped ==
    \A t \in Tabs : session[t] # None =>
        \A s \in DOMAIN log : \A p \in log[s].copies :
            base[p] < s /\ s <= FetchCursor(session[t])[p] =>
                \/ log[s].eventId \in Waiting(session[t])
                \/ \E h \in handled : h.eventId = log[s].eventId

\* presentationLedger.ts: any event still re-readable above the cursor is still in the
\* acknowledged list, so that an event that was acknowledged or given up never waits
\* to be shown again.
NeverReplayed ==
    \A t \in Tabs : session[t] # None =>
        \A c \in Copies(session[t]) : \A h \in handled : h.sequence # c.sequence

\* A page never runs ahead of a partition: of the events that were committed when
\* its reads began, all up to the last one it released have been read in every
\* partition.
PagesLeaveNoGap ==
    \A t \in Tabs : session[t] # None =>
        \A s \in DOMAIN log : \A p \in log[s].copies :
            s <= paged[t] => s <= FetchCursor(session[t])[p]

\* The events of a command recovered from its receipt before there was a ledger lie
\* beyond the ledger's start, however often the first reads fail, if only the tab is
\* not reloaded in between.
ReceiptsOutliveFailures ==
    base # None => \A l \in learnt : l.through = "receipt" =>
                      \A p \in Readable : base[p] < l.first

\* The same of every recovered command, as the comment of syncTail has it: "Never
\* baseline away a just-recovered command's own events."
RecoveredNeverBaselined ==
    base # None => \A l \in learnt : \A p \in Readable : base[p] < l.first

\* The dashboard lets go of an injury choice by itself only when the resolution it
\* finishes has been dismissed or given up before.
ChoicesWaitForSummaries ==
    \A h \in handled :
        h.through = "dashboard" /\ h.eventId \in DOMAIN ChoiceOf =>
            \A s \in DOMAIN log :
                log[s].eventId = ChoiceOf[h.eventId] /\ (\A p \in log[s].copies : base[p] < s) =>
                    \E g \in handled : g.eventId = log[s].eventId

VisibleIds(t) == {e.eventId : e \in Range(Presentation(t))}

\* What is shown stays shown until it is handled or the tab is refreshed: no late
\* snapshot takes it away.
ShownUntilHandled ==
    [][\A t \in Tabs : \A id \in VisibleIds(t) :
          \/ id \in VisibleIds(t)'
          \/ \E h \in handled' : h.eventId = id
          \/ session'[t] = None]_vars

\* An event the viewer may read, beyond the ledger's start.
Due(s) ==
    /\ base # None
    /\ log[s].copies # {} /\ \A p \in log[s].copies : base[p] < s

ShownOrHandled(s) ==
    \/ \E t \in Tabs : log[s].eventId \in VisibleIds(t)
    \/ \E h \in handled : h.eventId = log[s].eventId

\* Every event the viewer may read, committed after the ledger's start, is at last
\* shown or handled: failed reads, refreshes and bounded pages only delay it.
EventsGetShown ==
    []<>(\A s \in DOMAIN log : Due(s) => ShownOrHandled(s))

Room == INSTANCE RoomLog WITH
    Partitions <- Readable,
    last <- Len(log),
    revision <- RoomRevision(log),
    copies <- UNION {{[partition |-> p, sequence |-> s, roomRevision |-> log[s].roomRevision] :
                         p \in log[s].copies} : s \in DOMAIN log}

\* The room these tabs follow is a log of events as RoomAuthority is one, whether
\* commands come from others or from this viewer's outbox, answered or not.
RefinesRoomLog == Room!Spec
=============================================================================
