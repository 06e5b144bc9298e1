---------------------------- MODULE RoundOfTurns ----------------------------
(***************************************************************************)
(* What the round procedure promises the table: in a round each character  *)
(* takes at most one turn, a turn goes through its stages one at a time    *)
(* (declared, its dice rolled, perhaps hurt), the GM can take a turn back  *)
(* until its dice are spent, and the next round waits for every open turn. *)
(***************************************************************************)
CONSTANTS Characters

VARIABLE turn   \* the stage of each character's turn in this round

TurnsOK == turn \in [Characters -> {"ready", "declared", "rolled", "hurt", "done"}]

Init == turn = [c \in Characters |-> "ready"]

Move(c, from, to) == turn[c] = from /\ turn' = [turn EXCEPT ![c] = to]

Declare(c) == Move(c, "ready", "declared")
Roll(c) == Move(c, "declared", "rolled")
Finish(c) == Move(c, "rolled", "done")
Suffer(c) == Move(c, "rolled", "hurt")
Answer(c) == Move(c, "hurt", "done")

\* Taken back before its dice are spent the turn may be taken again.
Void(c) == turn[c] \in {"declared", "rolled"} /\ turn' = [turn EXCEPT ![c] = "ready"]

\* Taken back while its injury waits the turn is lost: nobody is hurt, and it
\* counts all the same.  The code's own comment has it that a voided turn never
\* counts (engine.ts, 1863-1864).
Forfeit(c) == Move(c, "hurt", "done")

NewRound ==
    /\ \A c \in Characters : turn[c] \in {"ready", "done"}
    /\ turn' = [c \in Characters |-> "ready"]

Next ==
    \/ \E c \in Characters : Declare(c) \/ Roll(c) \/ Finish(c) \/ Suffer(c) \/ Answer(c)
    \/ \E c \in Characters : Void(c) \/ Forfeit(c)
    \/ NewRound

Spec == Init /\ [][Next]_turn
=============================================================================
