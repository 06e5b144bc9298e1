------------------------------ MODULE EventTail ------------------------------
(***************************************************************************)
(* Reading the authorized event tail page by page                          *)
(* (apps/web/src/repository/eventTail.ts and the queries of                *)
(* FirebaseRoomRepository.readEventTail).  A record is one stored copy of  *)
(* an event: the partition it lies in, the event's sequence and identifier *)
(* and the room revision it was committed at.  Payloads are left out.      *)
(***************************************************************************)
EXTENDS Naturals, FiniteSets

CONSTANTS EventIds, PageLimit

ASSUME PageLimitAssumption == PageLimit \in Nat \ {0}

Partitions == {"gm", "member", "shared"}

Cursor == [Partitions -> Nat]
EmptyCursor == [p \in Partitions |-> 0]

AuthorizedPartitions(capability) ==
    CASE capability = "player" -> {"shared", "member"}
      [] capability = "gm"     -> {"shared", "gm", "member"}
      [] capability = "table"  -> {"shared"}

Record == [partition : Partitions, sequence : Nat, eventId : EventIds, roomRevision : Nat]

\* The range query of one partition: its first PageLimit records after a sequence.
Query(stored, after) ==
    LET above == {r \in stored : r.sequence > after}
    IN  {r \in above : Cardinality({q \in above : q.sequence < r.sequence}) < PageLimit}

Full(records) == Cardinality(records) = PageLimit

\* Mutant: the merge releases whatever was read.
BelowWatermarkOff(read, r) == TRUE

\* Nothing beyond the last record of a full partition may be released: that
\* partition has not been read so far.
BelowWatermark(read, r) ==
    \A p \in DOMAIN read :
        Full(read[p]) => \E last \in read[p] : r.sequence <= last.sequence

\* The page assembled from what each partition returned.
AssembleTailPage(read, after) ==
    [records |-> {r \in UNION {read[p] : p \in DOMAIN read} :
                     r.sequence > after[r.partition] /\ BelowWatermark(read, r)},
     hasMore |-> \E p \in DOMAIN read : Full(read[p])]
=============================================================================
