-------------------------- MODULE EatTheReichRules --------------------------
(***************************************************************************)
(* The pure rules of the Eat the Reich template: the dice pool of an       *)
(* action, the dice's results, the opposition, and what an allocation of   *)
(* kept dice does (templates/eat-the-reich/src/pool.ts, resolution.ts and  *)
(* the arithmetic of engine.ts).  Names, texts and labels are left out.    *)
(*                                                                         *)
(* Dice of one throw are exchangeable: every rule counts results, none     *)
(* looks at a die's place, so a throw is its faces in ascending order and  *)
(* a kept die is its place among the kept ones.                            *)
(***************************************************************************)
EXTENDS Integers, Sequences, FiniteSets, FiniteSetsExt

CONSTANTS
    Characters,     \* the roster
    Items,          \* every piece of equipment, loot included
    Abilities,      \* every ability
    ThreatIds,      \* the Threats a scene may present
    ObjectiveIds,   \* the Objectives a scene may present
    Kit,            \* a character's fixed sheet: items, abilities, stats, blood, penalties
    Gear,           \* an item's maxUses, bonusPlus and kind of use
    Powers,         \* an ability's trigger, bloodCost, bonusPlus and typed effect
    Faces,          \* the faces a d6 shows (all six in the code: a bound)
    MaxBlood,       \* 10 in the code
    HealCost        \* 3 in the code

ASSUME RulesAssumption ==
    /\ IsFiniteSet(Items) /\ IsFiniteSet(Abilities) /\ IsFiniteSet(ThreatIds)
    /\ Faces \subseteq 1..6 /\ MaxBlood \in Nat /\ HealCost \in Nat

Categories == 1..3
Boxes == Categories \X {1, 2}

Floor0(n) == IF n < 0 THEN 0 ELSE n
AtMost(bound, n) == IF n > bound THEN bound ELSE n

\* The weights of the elements of S added up.
SumOf(weight, S) == MapThenSumSet(LAMBDA x : weight[x], S)

(***************************************************************************)
(* The sheet.                                                              *)
(***************************************************************************)
\* The categories whose second, penalty-bearing box is marked.
ActivePenalties(marked) == {k \in Categories : <<k, 2>> \in marked}

HasTag(c, marked, kind) ==
    \E k \in ActivePenalties(marked) : Kit[c].penalty[k].kind = kind

\* The marked boxes a count of cleared injuries removes: in sheet order.
FirstMarked(marked, count) ==
    {b \in marked :
        Cardinality({x \in marked : 2 * x[1] + x[2] < 2 * b[1] + b[2]}) < count}

OpenBoxes(marked, k) == {b \in Boxes \ marked : b[1] = k}

\* One box of an open category, or all of them.
BoxesToMark(marked, k, whole) ==
    IF whole THEN OpenBoxes(marked, k)
             ELSE FirstMarked(OpenBoxes(marked, k), 1)

(***************************************************************************)
(* The pool.                                                               *)
(***************************************************************************)
StatDelta(tag, stat) ==
    IF tag.kind = "statDelta" /\ stat # "none" THEN tag.deltas[stat]
    ELSE IF tag.kind = "allStatsDelta" THEN tag.amount
    ELSE 0

StatBase(c, marked, stat) ==
    LET raw == IF stat = "none" THEN 2 ELSE Kit[c].stats[stat]
        delta == [k \in Categories |-> StatDelta(Kit[c].penalty[k], stat)]
    IN  Floor0(raw + SumOf(delta, ActivePenalties(marked)))

BloodCost(powers) ==
    LET cost == [a \in powers |->
                   IF Powers[a].trigger = "blood" THEN Powers[a].bloodCost ELSE 0]
    IN  SumOf(cost, powers)

\* The selection buildPool accepts for the sheet s of c.
PoolAllowed(c, s, items, powers) ==
    /\ HasTag(c, s.marked, "oneItemPerTurn") => Cardinality(items) <= 1
    /\ \A i \in items : i \in s.items /\ Gear[i].use = "pool" /\ s.uses[i] > 0
    /\ \A a \in powers : a \in Kit[c].abilities /\ Powers[a].trigger \in {"blood", "other"}
    /\ HasTag(c, s.marked, "noBloodSpend") =>
        \A a \in powers : Powers[a].trigger = "blood" => Powers[a].bloodCost = 0
    /\ BloodCost(powers) <= s.blood

LastUses(s, items) == {i \in items : Gear[i].maxUses > 1 /\ s.uses[i] = 1}

BonusDice(c, s, approved) ==
    LET plus == [x \in approved |-> IF x \in s.items THEN Gear[x].plus
                   ELSE IF x \in Kit[c].abilities THEN Powers[x].plus ELSE 0]
    IN  IF HasTag(c, s.marked, "noBonusDice") THEN 0 ELSE SumOf(plus, approved)

PoolSize(c, s, stat, items, powers, approved) ==
    StatBase(c, s.marked, stat) + Cardinality(items) + Cardinality(powers)
        + BonusDice(c, s, approved) + Cardinality(LastUses(s, items))

(***************************************************************************)
(* Throws.                                                                 *)
(***************************************************************************)
\* rollDice throws nothing for a count below one.
Throws(count) ==
    {f \in [1..count -> Faces] : \A i, j \in 1..count : i <= j => f[i] <= f[j]}

InterpretDie(face, discardBelow) ==
    IF face >= 6 THEN "critical"
    ELSE IF face >= discardBelow THEN "success" ELSE "discard"

Points(result) == IF result = "critical" THEN 2 ELSE 1

\* The dice that are kept, the last of a throw in ascending order.
KeptDice(throw, discardBelow) ==
    LET kept == {i \in DOMAIN throw : InterpretDie(throw[i], discardBelow) # "discard"}
        discarded == Len(throw) - Cardinality(kept)
    IN  [i \in 1..Cardinality(kept) |-> InterpretDie(throw[discarded + i], discardBelow)]

Ones(throw) == Cardinality({i \in DOMAIN throw : throw[i] = 1})

InterpretAttackDie(face, critOnSix) ==
    IF face < 4 THEN 0 ELSE IF face = 6 /\ critOnSix THEN 2 ELSE 1

AttackSuccesses(throw, critOnSix) ==
    LET worth == [i \in DOMAIN throw |-> InterpretAttackDie(throw[i], critOnSix)]
    IN  SumOf(worth, DOMAIN throw)

\* What c's passive abilities do with the ones of its throw.
PassiveSum(c, kind) ==
    LET passive == {a \in Kit[c].abilities :
                      Powers[a].trigger = "passive" /\ Powers[a].effect = kind}
        amount == [a \in passive |-> Powers[a].amount]
    IN  SumOf(amount, passive)

PassiveBlood(c, throw) == IF Ones(throw) > 0 THEN PassiveSum(c, "onOnesGainBlood") ELSE 0
PassiveDefence(c, throw) == Ones(throw) * PassiveSum(c, "onOnesRemoveAttack")

(***************************************************************************)
(* The opposition, over the Threats of the scene (a function of the        *)
(* present identifiers).                                                   *)
(***************************************************************************)
EffectiveAttack(threat) == IF threat.rating > 0 THEN threat.attack ELSE 0

AttackDice(present, engaged) ==
    LET met == engaged \cap DOMAIN present
        inPlay == {t \in DOMAIN present :
                     present[t].status = "active" /\ present[t].rating > 0}
    IN  IF met = {} THEN 0
        ELSE Max({EffectiveAttack(present[t]) : t \in met})
                + Floor0(Cardinality(inPlay) - 1)

\* The lowest face that is kept: the strictest of the engaged Threats.
DiscardBelow(present, engaged) == Max({4} \cup {present[t].discardBelow : t \in engaged})

RolledCategory(face) == IF face <= 2 THEN 1 ELSE IF face <= 4 THEN 2 ELSE 3

(***************************************************************************)
(* Allocations: a function from the kept dice to targets.                  *)
(***************************************************************************)
OnObjective(o) == [kind |-> "objective", id |-> o]
OnThreat(t) == [kind |-> "threat", id |-> t]
Defend == [kind |-> "defend"]
Feed == [kind |-> "feed"]
Special(a) == [kind |-> "special", id |-> a]

ChallengeDamage(points, challenge) == Floor0(points - challenge)

DiceOn(allocation, target) == {i \in DOMAIN allocation : allocation[i] = target}

PointsOn(kept, allocation, target) ==
    LET points == [i \in DOMAIN kept |-> Points(kept[i])]
    IN  SumOf(points, DiceOn(allocation, target))

\* The sum of the amounts of one typed effect over the dice on a SPECIAL.
SpecialSum(allocation, effect) ==
    LET dice == {i \in DOMAIN allocation :
                   allocation[i].kind = "special" /\ Powers[allocation[i].id].effect = effect}
        amount == [i \in dice |-> Powers[allocation[i].id].amount]
    IN  SumOf(amount, dice)

\* A target's rating after the dice on it.
ObjectiveAfter(objective, points) ==
    LET rating == Floor0(objective.rating - ChallengeDamage(points, objective.challenge))
    IN  [objective EXCEPT !.rating = rating,
                          !.status = IF rating <= 0 THEN "complete" ELSE "active"]

\* struck: dice or a SPECIAL reached the Threat; bumped: its Attack rises
\* because its dice showed no success.  A Threat that is only bumped keeps its
\* rating, one that only dice reached its Attack, whatever the GM set them to.
ThreatAfter(threat, damage, ratingLoss, attackLoss, struck, bumped) ==
    LET rating == IF struck THEN Floor0(threat.rating - damage - ratingLoss)
                            ELSE threat.rating
        held == IF struck /\ rating <= 0 THEN 0
                ELSE IF ratingLoss + attackLoss > 0 THEN Floor0(threat.attack - attackLoss)
                ELSE threat.attack
    IN  [threat EXCEPT !.rating = rating,
                       !.attack = IF bumped THEN held + 1 ELSE held,
                       !.status = IF rating > 0 THEN "active"
                                  ELSE IF threat.elite THEN "removed" ELSE "beaten"]
=============================================================================
