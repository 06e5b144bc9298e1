--------------------------- MODULE MCProjectionSync ---------------------------
(***************************************************************************)
(* Small instances of ProjectionSync for TLC.                              *)
(***************************************************************************)
EXTENDS ProjectionSync, TLC, SequencesExt

CONSTANTS Actions, choice, declared, Notes

MCEventIds == Actions \cup {choice, declared} \cup Notes

Public(id) == [eventId |-> id, copies |-> {"shared"}]

MCChoiceOf == choice :> CHOOSE action \in Actions : TRUE

\* Actions of the player, declared with a private copy, resolved and finished by an
\* injury choice, and notices.
MCEvents ==
    {Public(id) : id \in Actions \cup {choice} \cup Notes}
        \cup {[eventId |-> declared, copies |-> {"shared", "member"}]}

\* Resolutions that wait for the player, and notices after them.
MCLog == SetToSeq(Actions) \o SetToSeq(Notes)

MCNotices == {Public(id) : id \in Range(MCLog)}

\* The room's events come in that order (a bound).
MCNext == Next /\ \A s \in DOMAIN log' : log'[s].eventId = MCLog[s]

MCSpec == Init /\ [][MCNext]_vars
=============================================================================
