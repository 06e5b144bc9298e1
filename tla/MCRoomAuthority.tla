--------------------------- MODULE MCRoomAuthority ---------------------------
(***************************************************************************)
(* Small instances of RoomAuthority for TLC.                               *)
(***************************************************************************)
EXTENDS RoomAuthority, TLC

CONSTANTS c1, c2

MCNoCommands == [c \in {} |-> "action"]

\* One ordinary command and one Pause.
MCActionAndPause == c1 :> "action" @@ c2 :> "pause"

\* A command of another build.
MCForeign == c1 :> "otherBuild"

\* A shared event alone, and an action redacted per destination with an
\* automatic consequence after it.
MCBatches == {<<{"shared"}>>, <<{"gm", "actor", "shared"}, {"shared"}>>}

MCSharedOnly == {<<{"shared"}>>}

\* Identities, members and codes are interchangeable.
MCSymmetry == Permutations(Uids) \cup Permutations(Members) \cup Permutations(Codes)
=============================================================================
