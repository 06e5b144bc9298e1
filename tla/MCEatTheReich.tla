--------------------------- MODULE MCEatTheReich ---------------------------
(***************************************************************************)
(* Small instances of EatTheReich for TLC: a character with every kind of  *)
(* equipment and ability for short sessions, two with little more than the *)
(* hat for long ones; a scene with an ordinary Threat and a hidden elite   *)
(* one, and a scene with the hidden one alone.                             *)
(***************************************************************************)
EXTENDS EatTheReich, TLC

CONSTANTS iryna, chuck, rifle, hat, loot, shot, servants, corpseEater,
          patrol, colonel, bridge

\* iryna has a pool item, a SPECIAL, an ability that costs Blood and a passive
\* one; chuck only the hat, and throws a single die.
MCKit ==
    iryna :> [items |-> {rifle}, abilities |-> {shot, servants, corpseEater},
              stats |-> [SHOOT |-> 1], blood |-> 1,
              penalty |-> <<[kind |-> "noBonusDice"],
                            [kind |-> "statDelta", deltas |-> [SHOOT |-> -1]],
                            [kind |-> "noSpecials"]>>]
    @@ chuck :> [items |-> {hat}, abilities |-> {}, stats |-> [SHOOT |-> 1], blood |-> 0,
                 penalty |-> <<[kind |-> "noBloodSpend"],
                               [kind |-> "allStatsDelta", amount |-> -1],
                               [kind |-> "oneItemPerTurn"]>>]

MCGear ==
    rifle :> [maxUses |-> 2, plus |-> 1, use |-> "pool", amount |-> 0]
    @@ hat :> [maxUses |-> 1, plus |-> 0, use |-> "hat", amount |-> 0]
    @@ loot :> [maxUses |-> 1, plus |-> 0, use |-> "pool", amount |-> 0]

Power(trigger, cost, effect, amount) ==
    [trigger |-> trigger, bloodCost |-> cost, plus |-> 0, effect |-> effect,
     amount |-> amount, item |-> rifle]

MCPowers ==
    shot :> Power("special", 0, "reduceThreatAttack", 1)
    @@ servants :> Power("blood", 1, "none", 0)
    @@ corpseEater :> Power("passive", 0, "onOnesGainBlood", 1)

Card(rating, attack, elite, revealed) ==
    [rating |-> rating, startingAttack |-> attack, attack |-> attack, challenge |-> 0,
     solo |-> FALSE, elite |-> elite, discardBelow |-> 4, noFeeding |-> elite,
     critOnSix |-> ~elite, wholeCategory |-> FALSE, status |-> "active",
     revealed |-> revealed]

MCThreatCard == patrol :> Card(1, 1, FALSE, TRUE) @@ colonel :> Card(2, 1, TRUE, FALSE)

\* Below every number a scene presents.
MCEditValues == {-1}

MCObjectiveCard == bridge :> [kind |-> "primary", rating |-> 1, challenge |-> 0]

\* The long sessions: alike characters, one Threat.
MCPlainKit == [c \in Characters |-> MCKit[chuck]]

MCOneCard == colonel :> [Card(1, 1, FALSE, FALSE) EXCEPT !.elite = TRUE]

MCOneScene == {[id |-> "crash", objectives |-> {bridge}, threats |-> {colonel}, mode |-> "book"]}

\* Nothing tells the characters of MCPlainKit apart, and no run with it is about
\* liveness.
MCSymmetry == Permutations({iryna, chuck})

MCScenes == {[id |-> "crash", objectives |-> {bridge}, threats |-> {patrol, colonel},
              mode |-> "book"]}
=============================================================================
