---------------------------- MODULE MCRoomCreation ----------------------------
(***************************************************************************)
(* Small instances of RoomCreation for TLC.                                *)
(***************************************************************************)
EXTENDS RoomCreation, TLC

\* Tabs are interchangeable, and so are the values of every minted kind.
MCSymmetry ==
    UNION {Permutations(S) : S \in {Tabs, Identities, Requests, Codes, Rooms, Passphrases}}
=============================================================================
