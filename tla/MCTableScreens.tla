--------------------------- MODULE MCTableScreens ---------------------------
(***************************************************************************)
(* Small instances of TableScreens for TLC: the characters and equipment   *)
(* of MCEatTheReich at a console that offers two scenes.                   *)
(***************************************************************************)
EXTENDS MCEatTheReich, TableScreens

CONSTANT flask

\* iryna has a pool item with a bonus, the hat, a flask of Blood, a SPECIAL and a
\* passive ability.
MCScreenKit ==
    iryna :> [items |-> {rifle, hat, flask}, abilities |-> {shot, corpseEater},
              stats |-> [SHOOT |-> 0], blood |-> 0, penalty |-> MCKit[iryna].penalty]

MCScreenGear ==
    [MCGear EXCEPT ![rifle].maxUses = 1]
        @@ flask :> [maxUses |-> 1, plus |-> 0, use |-> "blood", amount |-> 1]

\* The crash first, with the hidden elite Threat, then the bridge.
MCMission ==
    <<[id |-> "crash", objectives |-> {bridge}, threats |-> {colonel}, mode |-> "book"],
      [id |-> "bridge", objectives |-> {}, threats |-> {patrol}, mode |-> "simplified"]>>

MCMissionScenes == {MCMission[i] : i \in DOMAIN MCMission}

\* One scene with both Threats.
MCCrash == <<[MCMission[1] EXCEPT !.threats = {patrol, colonel}]>>

MCCrashScenes == {MCCrash[1]}

\* Boxes of the category whose penalty forbids SPECIALs.
MCCorrected ==
    [blood |-> -1..1, uses |-> {rifle}, marked |-> {3} \X {1, 2}, status |-> {"downed"}]

MCBloodSteps == [blood |-> -1..1, uses |-> {}, marked |-> {}, status |-> {}]
=============================================================================
