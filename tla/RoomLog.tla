------------------------------- MODULE RoomLog -------------------------------
(***************************************************************************)
(* What a room promises the readers of its events, of whom each may read   *)
(* some partitions: the events of a command appear all at once, numbered   *)
(* behind all earlier events and under the next revision, and what is      *)
(* stored once stays as it is.                                             *)
(***************************************************************************)
EXTENDS Naturals

CONSTANT Partitions    \* the ones read

VARIABLES
    last,        \* the number of the last event, readable or not
    revision,    \* of the room
    copies       \* what is stored in the partitions read

logVars == <<last, revision, copies>>

\* Copies of the events numbered from first to latest, committed as revision r.
Numbered(first, latest, r) ==
    [partition : Partitions, sequence : first..latest, roomRevision : {r}]

Init ==
    /\ last = 0
    /\ revision = 0
    /\ copies = {}

Commit ==
    /\ last' \in Nat /\ last < last'
    /\ revision' = revision + 1
    /\ \E new \in SUBSET Numbered(last + 1, last', revision + 1) : copies' = copies \cup new

Spec == Init /\ [][Commit]_logVars
=============================================================================
