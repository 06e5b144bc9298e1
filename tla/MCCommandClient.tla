--------------------------- MODULE MCCommandClient ---------------------------
(***************************************************************************)
(* Small instances of CommandClient for TLC.                               *)
(***************************************************************************)
EXTENDS CommandClient, TLC

\* Tabs are interchangeable, and so are commands of one kind.
MCSymmetry == Permutations(Tabs) \cup Permutations(Ordinary) \cup Permutations(Pauses)
=============================================================================
