---------------------------- MODULE CommandService ----------------------------
(***************************************************************************)
(* What a room promises the senders of commands, with every document left  *)
(* out: each request is decided once, either applied at the next position  *)
(* of one totally ordered log or refused, and whoever asks about it, once  *)
(* or again, is told that one outcome.                                     *)
(***************************************************************************)
EXTENDS Naturals, Sequences

CONSTANT Requests

VARIABLES
    log,      \* the requests applied, in order
    outcome,  \* what was decided of each request
    told      \* the outcomes senders were told

serviceVars == <<log, outcome, told>>

Open == [status |-> "open", position |-> 0]
Refused == [status |-> "rejected", position |-> 0]
AppliedAt(n) == [status |-> "accepted", position |-> n]

Init ==
    /\ log = <<>>
    /\ outcome = [r \in Requests |-> Open]
    /\ told = {}

Settle(r, result) ==
    /\ outcome[r] = Open
    /\ outcome' = [outcome EXCEPT ![r] = result]
    /\ told' = told \cup {<<r, result>>}

Apply(r) ==
    /\ Settle(r, AppliedAt(Len(log) + 1))
    /\ log' = Append(log, r)

Refuse(r) ==
    /\ Settle(r, Refused)
    /\ UNCHANGED log

Next == \E r \in Requests : Apply(r) \/ Refuse(r)

Spec == Init /\ [][Next]_serviceVars
=============================================================================
