----------------------------- MODULE EatTheReich -----------------------------
(***************************************************************************)
(* The rules engine of the Eat the Reich template: the authoritative game  *)
(* state and one action per command (templates/eat-the-reich/src/engine.ts)*)
(*                                                                         *)
(* The room authority calls the engine once per accepted command: decide   *)
(* checks the command and produces events, reduce applies them, and the    *)
(* result is stored.  The next command starts from what parseState makes   *)
(* of the stored record.  An action below is that whole turn; a rejected   *)
(* command changes nothing.  Whether a member may send a command at all    *)
(* (archived rooms, seats, receipts, revisions) is RoomAuthority's.        *)
(***************************************************************************)
EXTENDS EatTheReichRules

CONSTANTS
    Members,        \* the players
    LootItems,      \* equipment the GM may grant
    Advances,       \* the advances of a sheet
    ThreatCard,     \* a Threat as a scene presents it
    ObjectiveCard,  \* an Objective as a scene presents it
    Scenes,         \* the scenes the GM may load: id, objectives, threats and mode
    EditValues,     \* the numbers a GM edit sets, any integer (a bound)
    StatChoices,    \* the stats players choose, "none" among them (a bound)
    PatchFields,    \* the sheet fields the GM's corrections touch (a bound)
    Reloads,        \* TRUE: the live store parses the record before each command
    MaxRolls,       \* actions declared (a bound)
    MaxDirectives,  \* scene and correction commands of the GM (a bound)
    None

VARIABLES
    sheet,          \* per character: what play changes of its sheet
    scene,          \* the scene wrapper
    objectives,     \* the Objectives in play, by identifier
    threats,        \* the Threats in play, by identifier
    rolls,          \* the rolls not voided, by number
    nextRoll,       \* the next roll's number
    paused,
    missionEnded,
    disclosed,      \* the Threats the last command's shared copies named
    taken,          \* history: what the review of a roll took from its character
    directives      \* how many GM directives were accepted (for the bound)

vars == <<sheet, scene, objectives, threats, rolls, nextRoll, paused,
          missionEnded, disclosed, taken, directives>>

table == <<paused, missionEnded>>
board == <<scene, objectives, threats>>
dice == <<rolls, nextRoll, taken>>

Rescue(c) == <<"rescue", c>>
ObjectiveKeys == ObjectiveIds \cup {Rescue(c) : c \in Characters}

Update(f, changed) == [k \in DOMAIN f \cup DOMAIN changed |->
                         IF k \in DOMAIN changed THEN changed[k] ELSE f[k]]
Without(f, keys) == [k \in DOMAIN f \ keys |-> f[k]]
EmptyMap == [k \in {} |-> None]

-----------------------------------------------------------------------------
(* What parseState accepts: the shape of a record the room can load.       *)

SheetType ==
    [claimedBy : Members \cup {None}, blood : 0..MaxBlood, items : SUBSET Items,
     uses : [Items -> Int], marked : SUBSET Boxes, downed : BOOLEAN,
     retired : BOOLEAN, loot : Items \cup {None}, unlocked : SUBSET Advances]

SceneType ==
    [id : {None} \cup {next.id : next \in Scenes},
     status : {"none", "active", "completed"}, round : Nat, acted : SUBSET Characters,
     mode : {"book", "simplified"}]

ObjectiveType ==
    [kind : {"primary", "secondary", "rescue", "retreat"}, rating : Int,
     challenge : Int, status : {"active", "complete"}]

ThreatType ==
    [rating : Int, startingAttack : Int, attack : Int, challenge : Int,
     solo : BOOLEAN, elite : BOOLEAN, discardBelow : 4..6, noFeeding : BOOLEAN,
     critOnSix : BOOLEAN, wholeCategory : BOOLEAN,
     status : {"active", "beaten", "removed"}, revealed : BOOLEAN]

ASSUME NobodyAssumption == None \notin Members \cup Characters

\* The roster (roster.ts) is well formed.  What the GM grants and edits is any
\* number the parser takes, negative ones too; granted equipment is for the pool,
\* the command cannot carry another use.
ASSUME RosterAssumption ==
    /\ \A c \in Characters :
          /\ Kit[c].items \subseteq Items /\ Kit[c].abilities \subseteq Abilities
          /\ Kit[c].blood \in Nat
          /\ \A stat \in StatChoices \cup {"none"} :
                /\ stat # "none" => Kit[c].stats[stat] \in Int
                /\ \A k \in Categories : StatDelta(Kit[c].penalty[k], stat) \in Int
    /\ \A i \in Items :
          Gear[i].maxUses \in Int /\ Gear[i].plus \in Int /\ Gear[i].amount \in Nat
    /\ \A a \in Abilities :
          Powers[a].bloodCost \in Nat /\ Powers[a].plus \in Nat /\ Powers[a].amount \in Nat
    /\ LootItems \subseteq {i \in Items : Gear[i].use = "pool"} /\ EditValues \subseteq Int
    /\ PatchFields \subseteq {"blood", "downed", "retired", "loot", "uses", "marked"}

\* A scene presents well-formed Threats and Objectives (parseSceneThreatInput,
\* parseSceneObjectiveInput), and none under the identifier of a rescue.
ASSUME ScenesAssumption ==
    /\ \A t \in ThreatIds : ThreatCard[t] \in ThreatType
    /\ \A o \in ObjectiveIds : ObjectiveCard[o] \in
          [kind : {"primary", "secondary", "retreat"}, rating : Int, challenge : Int]
    /\ \A c \in Characters : Rescue(c) \notin ObjectiveIds
    /\ \A next \in Scenes : /\ next.threats \subseteq ThreatIds
                            /\ next.objectives \subseteq ObjectiveIds
                            /\ next.mode \in {"book", "simplified"}

RollType ==
    [character : Characters, actor : Members,
     status : {"declared", "awaiting_allocation", "awaiting_injury_choice", "resolved"},
     stat : StatChoices \cup {"none"}, items : SUBSET Items, powers : SUBSET Abilities,
     claims : SUBSET (Items \cup Abilities), proposed : SUBSET ThreatIds,
     engaged : SUBSET ThreatIds, primary : ThreatIds \cup {None}, kept : Seq({"success", "critical"}),
     attackDice : Nat, attack : Nat, spent : Nat, charged : SUBSET Items,
     mode : {"single", "downed", None}, category : Categories \cup {None}]

\* The uses left of an item: none is charged below zero, none restored above its
\* maximum, which a granted item may have below zero.
UsesLeft(i) == {Gear[i].maxUses} \cup 0..Gear[i].maxUses

TypeOK ==
    /\ sheet \in [Characters -> SheetType]
    /\ \A c \in Characters, i \in Items : sheet[c].uses[i] \in UsesLeft(i)
    /\ scene \in SceneType
    /\ DOMAIN objectives \subseteq ObjectiveKeys
    /\ \A o \in DOMAIN objectives : objectives[o] \in ObjectiveType
    /\ DOMAIN threats \subseteq ThreatIds
    /\ \A t \in DOMAIN threats : threats[t] \in ThreatType
    /\ nextRoll \in Nat \ {0}
    /\ DOMAIN rolls \subseteq 1..nextRoll - 1
    /\ \A n \in DOMAIN rolls : rolls[n] \in RollType
    /\ paused \in BOOLEAN /\ missionEnded \in BOOLEAN
    /\ disclosed \subseteq ThreatIds

-----------------------------------------------------------------------------
InitialSheet(c) ==
    [claimedBy |-> None, blood |-> AtMost(MaxBlood, Kit[c].blood),
     items |-> Kit[c].items, uses |-> [i \in Items |-> Gear[i].maxUses],
     marked |-> {}, downed |-> FALSE, retired |-> FALSE, loot |-> None,
     unlocked |-> {}]

Init ==
    /\ sheet = [c \in Characters |-> InitialSheet(c)]
    /\ scene = [id |-> None, status |-> "none", round |-> 0, acted |-> {}, mode |-> "book"]
    /\ objectives = EmptyMap
    /\ threats = EmptyMap
    /\ rolls = EmptyMap
    /\ nextRoll = 1
    /\ paused = FALSE
    /\ missionEnded = FALSE
    /\ disclosed = {}
    /\ taken = EmptyMap
    /\ directives = 0

Unresolved == {n \in DOMAIN rolls : rolls[n].status # "resolved"}

\* Mutants: a roll counts as open only until its review; a pending injury does
\* not hold the round or the scene back.
HasDeclaredRoll(c) == \E n \in Unresolved : rolls[n].character = c /\ rolls[n].status = "declared"
HasUnspentRolls == \E n \in Unresolved : rolls[n].status # "awaiting_injury_choice"

HasUnresolvedRoll(c) == \E n \in Unresolved : rolls[n].character = c
HasOpenRolls == Unresolved # {}

\* What a player's or the table's projection shows of the Threats.
Revealed(present) == {t \in DOMAIN present : present[t].revealed}

\* Mutant: the shared copy of an event is the GM's.
SharedDeltasUnfiltered(changed) == changed

\* The entries of an event's Threat lists that its shared copy keeps.
SharedDeltas(changed) == changed \cap Revealed(threats)

ActiveRevealed == {t \in Revealed(threats) : threats[t].status = "active"}

\* The stored record of a roll as the next command finds it: parseRoll copies
\* every field but bloodSpent and itemIdsCharged.
Stored(roll) ==
    IF Reloads THEN [roll EXCEPT !.spent = 0, !.charged = {}] ELSE roll

\* A roll nothing reads any more but its number, character and actor; the code
\* keeps the details for the log.
Closed(roll) ==
    [roll EXCEPT !.status = "resolved", !.stat = "none", !.items = {}, !.powers = {},
                 !.claims = {}, !.proposed = {}, !.engaged = {}, !.primary = None,
                 !.kept = <<>>, !.attackDice = 0, !.attack = 0, !.spent = 0, !.charged = {},
                 !.mode = None, !.category = None]

-----------------------------------------------------------------------------
(* Characters: claim, release, heal.                                       *)

CharacterClaimed(c, m) == sheet' = [sheet EXCEPT ![c].claimedBy = m]

ClaimCharacter(m, c) ==
    /\ sheet[c].claimedBy = None
    /\ \A d \in Characters : sheet[d].claimedBy # m
    /\ CharacterClaimed(c, m)
    /\ disclosed' = {}
    /\ UNCHANGED <<board, dice, table, directives>>

CharacterReleased(c) == sheet' = [sheet EXCEPT ![c].claimedBy = None]

ReleaseCharacter(m, c) ==
    /\ sheet[c].claimedBy = m
    /\ CharacterReleased(c)
    /\ disclosed' = {}
    /\ UNCHANGED <<board, dice, table, directives>>

InjuryHealed(c, box) ==
    sheet' = [sheet EXCEPT ![c].marked = @ \ {box}, ![c].blood = Floor0(@ - HealCost)]

HealInjury(m, c, box) ==
    /\ sheet[c].claimedBy = m
    /\ ~sheet[c].retired
    /\ box \in sheet[c].marked
    /\ ~HasTag(c, sheet[c].marked, "noBloodSpend")
    /\ sheet[c].blood >= HealCost
    /\ InjuryHealed(c, box)
    /\ disclosed' = {}
    /\ UNCHANGED <<board, dice, table, directives>>

-----------------------------------------------------------------------------
(* Declare, review, allocate.                                              *)

\* Mutant: a character that acted this round may act again.
ReadyToActAgain(c) == scene.status = "active" /\ ~HasUnresolvedRoll(c)

ReadyToAct(c) ==
    scene.status = "active" /\ c \notin scene.acted /\ ~HasUnresolvedRoll(c)

ActionDeclared(c, m, stat, items, powers, claims, engaging) ==
    /\ rolls' = Update(rolls, [n \in {nextRoll} |->
         [character |-> c, actor |-> m, status |-> "declared", stat |-> stat,
          items |-> items, powers |-> powers, claims |-> claims, proposed |-> engaging,
          engaged |-> {}, primary |-> None, kept |-> <<>>, attackDice |-> 0,
          attack |-> 0, spent |-> 0, charged |-> {}, mode |-> None, category |-> None]])
    /\ nextRoll' = nextRoll + 1

\* engaging is the player's proposal: the Threats that count are the GM's list
\* at review.
BeginAction(m, c, stat, items, powers, claims, engaging) ==
    /\ ~paused /\ ~missionEnded
    /\ sheet[c].claimedBy = m
    /\ ~sheet[c].downed /\ ~sheet[c].retired
    /\ ReadyToAct(c)
    /\ PoolAllowed(c, sheet[c], items, powers)
    /\ claims \subseteq items \cup powers
    /\ engaging \subseteq ActiveRevealed
    /\ nextRoll <= MaxRolls
    /\ ActionDeclared(c, m, stat, items, powers, claims, engaging)
    /\ disclosed' = {}
    /\ UNCHANGED <<sheet, board, table, taken, directives>>

\* Mutants: a roll whose dice were thrown is reviewed again; the pool that was
\* affordable when it was declared is not looked at again.
ReviewableAgain(roll) ==
    /\ roll.status \in {"declared", "awaiting_allocation"}
    /\ PoolAllowed(roll.character, sheet[roll.character], roll.items, roll.powers)
ReviewableUnchecked(roll) == roll.status = "declared"

Reviewable(roll) ==
    /\ roll.status = "declared"
    /\ PoolAllowed(roll.character, sheet[roll.character], roll.items, roll.powers)

\* The rolled record replaces the declared one and its character is charged.
\* The proposal stays in the code's record, but nothing reads it any more.
ActionRolled(n, rolled, gained) ==
    LET c == rolled.character
        blood == Floor0(sheet[c].blood - rolled.spent + gained)
    IN  /\ rolls' = [rolls EXCEPT ![n] = Stored(rolled)]
        /\ sheet' = [sheet EXCEPT
             ![c].uses = [i \in Items |-> IF i \in rolled.charged THEN Floor0(@[i] - 1) ELSE @[i]],
             ![c].blood = AtMost(MaxBlood, blood)]

\* The GM's review throws the dice and charges the character.
ReviewAction(n, approved, engaged, primary, throw, attackThrow) ==
    LET roll == rolls[n]
        c == roll.character
        s == sheet[c]
        critOnSix == primary # None /\ threats[primary].critOnSix
        raw == AttackSuccesses(attackThrow, critOnSix)
        cost == BloodCost(roll.powers)
    IN  /\ ~paused
        /\ Reviewable(roll)
        /\ approved \subseteq roll.claims
        /\ engaged \subseteq ActiveRevealed
        /\ primary \in (IF engaged = {} THEN {None} ELSE engaged)
        /\ throw \in Throws(PoolSize(c, s, roll.stat, roll.items, roll.powers, approved))
        /\ attackThrow \in Throws(AttackDice(threats, engaged))
        /\ ActionRolled(n,
             [roll EXCEPT !.status = "awaiting_allocation", !.proposed = {},
                !.engaged = engaged, !.primary = primary, !.kept = KeptDice(throw, DiscardBelow(threats, engaged)),
                !.attackDice = Len(attackThrow),
                !.attack = Floor0(raw - PassiveDefence(c, throw)),
                !.spent = cost, !.charged = roll.items],
             PassiveBlood(c, throw))
        /\ taken' = Update(taken, [k \in {n} |->
             [blood |-> cost, items |-> roll.items]])
        /\ disclosed' = engaged
        /\ UNCHANGED <<board, table, nextRoll, directives>>

\* The target a kept die may be spent on by the roll's character.
LegalTarget(roll, result, target) ==
    LET c == roll.character
    IN  \/ /\ target.kind = "objective"
           /\ target.id \in DOMAIN objectives /\ objectives[target.id].status = "active"
        \/ /\ target.kind = "threat"
           /\ target.id \in DOMAIN threats /\ threats[target.id].status = "active"
        \/ target.kind = "defend"
        \/ /\ target.kind = "feed"
           /\ \A t \in DOMAIN threats : roll.engaged = {t} => ~threats[t].noFeeding
        \/ /\ target.kind = "special"
           /\ target.id \in Kit[c].abilities /\ Powers[target.id].trigger = "special"
           /\ result = "critical"
           /\ ~HasTag(c, sheet[c].marked, "noSpecials")

Targets ==
    {OnObjective(o) : o \in DOMAIN objectives} \cup {OnThreat(t) : t \in DOMAIN threats}
        \cup {Defend, Feed} \cup {Special(a) : a \in Abilities}

\* Every kept die on exactly one legal target.
Allocations(roll) ==
    {allocation \in [DOMAIN roll.kept -> Targets] :
        \A i \in DOMAIN roll.kept : LegalTarget(roll, roll.kept[i], allocation[i])}

\* The Threat whose dice showed nothing: its Attack rises, if it still exists.
BumpedThreat(roll) ==
    IF roll.attackDice > 0 /\ roll.attack = 0 /\ roll.primary \in DOMAIN threats
    THEN roll.primary ELSE None

EliteLoss(roll, allocation) ==
    IF threats[roll.primary].elite THEN SpecialSum(allocation, "damageElite") ELSE 0

\* The Threats an allocation touches, with their new records.  SPECIALs act on
\* the primary engaged Threat, if it still exists.
ThreatsAfter(roll, allocation) ==
    LET aimed == {t \in DOMAIN threats : DiceOn(allocation, OnThreat(t)) # {}}
        special(t) == t = roll.primary
        ratingLoss(t) == IF special(t)
            THEN SpecialSum(allocation, "reduceRating") + EliteLoss(roll, allocation) ELSE 0
        attackLoss(t) == IF special(t) THEN SpecialSum(allocation, "reduceThreatAttack") ELSE 0
        struck == aimed \cup {t \in DOMAIN threats : ratingLoss(t) > 0 \/ attackLoss(t) > 0}
        touched == struck \cup ({BumpedThreat(roll)} \ {None})
    IN  [t \in touched |->
            ThreatAfter(threats[t],
                IF t \in aimed
                THEN ChallengeDamage(PointsOn(roll.kept, allocation, OnThreat(t)),
                                     threats[t].challenge) ELSE 0,
                ratingLoss(t), attackLoss(t), t \in struck, t = BumpedThreat(roll))]

ObjectivesAfter(roll, allocation) ==
    [o \in {o \in DOMAIN objectives : DiceOn(allocation, OnObjective(o)) # {}} |->
        ObjectiveAfter(objectives[o], PointsOn(roll.kept, allocation, OnObjective(o)))]

\* Mutant: Blood gained is not held to the cap.
SheetAfterUncapped(roll, allocation) ==
    LET s == sheet[roll.character]
        fed == PointsOn(roll.kept, allocation, Feed) + SpecialSum(allocation, "gainBlood")
    IN  [s EXCEPT !.blood = @ + fed,
                  !.marked = @ \ FirstMarked(@, SpecialSum(allocation, "clearInjury"))]

\* The sheet once the dice are spent and before any injury is marked.
SheetAfter(roll, allocation) ==
    LET s == sheet[roll.character]
        fed == PointsOn(roll.kept, allocation, Feed) + SpecialSum(allocation, "gainBlood")
        restoring(i) == {d \in DOMAIN allocation :
                           /\ allocation[d].kind = "special"
                           /\ Powers[allocation[d].id].effect = "restoreItemUse"
                           /\ Powers[allocation[d].id].item = i}
        restored(i) == SumOf([d \in restoring(i) |-> Powers[allocation[d].id].amount],
                             restoring(i))
    IN  [s EXCEPT !.blood = AtMost(MaxBlood, @ + fed),
                  !.uses = [i \in Items |-> IF i \in s.items
                              THEN AtMost(Gear[i].maxUses, @[i] + restored(i)) ELSE @[i]],
                  !.marked = @ \ FirstMarked(@, SpecialSum(allocation, "clearInjury"))]

RescueObjective == [kind |-> "rescue", rating |-> 3, challenge |-> 0, status |-> "active"]

\* What a marked injury adds to the Objectives: a Downed character is to be rescued.
RescueIf(downed, c) == [o \in (IF downed THEN {Rescue(c)} ELSE {}) |-> RescueObjective]

\* The hat: equipment that cancels an injury or Downed result.
HasShield(c) ==
    \E i \in sheet[c].items : Gear[i].use = "hat" /\ sheet[c].uses[i] > 0

\* The character has acted this round: recorded with the result, not before.
ActsThisRound(c) == scene' = [scene EXCEPT !.acted = @ \cup {c}]

AllocateResults(m, n, allocation, face) ==
    LET roll == rolls[n]
        c == roll.character
        s == SheetAfter(roll, allocation)
        remaining == Floor0(roll.attack - PointsOn(roll.kept, allocation, Defend)
                              - SpecialSum(allocation, "removeAttackSuccesses"))
        k == RolledCategory(face)
        open == OpenBoxes(sheet[c].marked, k)
        injured == remaining > 0
        downed == remaining >= 3
        \* a Threat's rule can widen the injury; Downed always fills the category
        whole == downed \/ (roll.primary \in DOMAIN threats /\ threats[roll.primary].wholeCategory)
        pending == injured /\ (open = {} \/ HasShield(c))
        \* the boxes are chosen on the sheet as it was before the dice were spent
        marks == IF injured /\ ~pending THEN BoxesToMark(sheet[c].marked, k, whole) ELSE {}
        fallen == injured /\ ~pending /\ downed
        after == ThreatsAfter(roll, allocation)
    IN  /\ ~paused
        /\ roll.actor = m
        /\ roll.status = "awaiting_allocation"
        /\ allocation \in Allocations(roll)
        /\ face \in (IF injured THEN Faces ELSE {1})
        /\ objectives' = Update(Update(objectives, ObjectivesAfter(roll, allocation)),
                                RescueIf(fallen, c))
        /\ threats' = Update(threats, after)
        /\ sheet' = [sheet EXCEPT ![c] = [s EXCEPT !.marked = @ \cup marks,
                                                   !.downed = @ \/ fallen]]
        /\ rolls' = [rolls EXCEPT ![n] =
             IF pending
             THEN [roll EXCEPT !.status = "awaiting_injury_choice",
                               !.mode = IF downed THEN "downed" ELSE "single",
                               !.category = IF open = {} THEN None ELSE k]
             ELSE Closed(roll)]
        /\ ActsThisRound(c)
        /\ disclosed' = SharedDeltas(DOMAIN after) \cup ({BumpedThreat(roll)} \ {None})
        /\ UNCHANGED <<table, nextRoll, taken, directives>>

InjuryCategoryChosen(n, k) ==
    LET c == rolls[n].character
        downed == rolls[n].mode = "downed"
    IN  /\ sheet' = [sheet EXCEPT
             ![c].marked = @ \cup BoxesToMark(@, k, downed), ![c].downed = @ \/ downed]
        /\ objectives' = Update(objectives, RescueIf(downed, c))
        /\ rolls' = [rolls EXCEPT ![n] = Closed(@)]

\* The categories a pending injury may go to: the rolled one, or any with an
\* open box if that was full.
EligibleCategories(n) ==
    {k \in Categories : /\ rolls[n].category \in {None, k}
                        /\ OpenBoxes(sheet[rolls[n].character].marked, k) # {}}

ChooseInjuryCategory(m, n, k) ==
    /\ rolls[n].actor = m
    /\ rolls[n].status = "awaiting_injury_choice"
    /\ k \in EligibleCategories(n)
    /\ InjuryCategoryChosen(n, k)
    /\ disclosed' = {}
    /\ UNCHANGED <<scene, threats, table, nextRoll, taken, directives>>

\* A use of utility equipment: blood at any time, the hat on a pending injury.
UseUtilityItem(m, c, i, n) ==
    LET asHat == Gear[i].use = "hat"
    IN  /\ sheet[c].claimedBy = m
        /\ i \in sheet[c].items /\ Gear[i].use \in {"blood", "hat"} /\ sheet[c].uses[i] > 0
        /\ IF asHat
           THEN /\ n \in DOMAIN rolls
                /\ rolls[n].actor = m /\ rolls[n].character = c
                /\ rolls[n].status = "awaiting_injury_choice"
           ELSE n = None
        /\ sheet' = [sheet EXCEPT ![c].uses[i] = @ - 1,
             ![c].blood = IF asHat THEN @ ELSE AtMost(MaxBlood, @ + Gear[i].amount)]
        /\ rolls' = IF asHat THEN [rolls EXCEPT ![n] = Closed(@)] ELSE rolls
        /\ disclosed' = {}
        /\ UNCHANGED <<board, table, nextRoll, taken, directives>>

RollVoided(n) ==
    LET c == rolls[n].character
        restored == rolls[n].charged \cap sheet[c].items
    IN  /\ sheet' = [sheet EXCEPT
             ![c].blood = AtMost(MaxBlood, @ + rolls[n].spent),
             ![c].uses = [i \in Items |-> IF i \in restored
                            THEN AtMost(Gear[i].maxUses, @[i] + 1) ELSE @[i]]]
        /\ rolls' = Without(rolls, {n})

\* The GM takes back a roll that is not resolved.
VoidRoll(n) ==
    /\ rolls[n].status # "resolved"
    /\ RollVoided(n)
    /\ disclosed' = {}
    /\ UNCHANGED <<board, table, nextRoll, taken, directives>>

-----------------------------------------------------------------------------
(* The GM's direction: scenes, rounds, corrections.                        *)

Directive == directives < MaxDirectives /\ directives' = directives + 1

\* The engine looks at the first primary Objective; a scene has one.
PrimaryComplete ==
    \E o \in DOMAIN objectives :
        objectives[o].kind = "primary" /\ objectives[o].status = "complete"

NewObjective(o) == [kind |-> ObjectiveCard[o].kind, rating |-> ObjectiveCard[o].rating,
                    challenge |-> ObjectiveCard[o].challenge, status |-> "active"]
NewThreat(t) == [ThreatCard[t] EXCEPT !.startingAttack = ThreatCard[t].attack,
                                      !.status = "active"]

\* Mutant: the rescues that are done are carried over, the open ones dropped.
CarriedWhenComplete ==
    {o \in DOMAIN objectives : objectives[o].kind = "rescue" /\ objectives[o].status = "complete"}

CarriedRescues ==
    {o \in DOMAIN objectives : objectives[o].kind = "rescue" /\ objectives[o].status = "active"}

\* Threats never outlive their scene; an open rescue does.
SceneTransition(next) ==
    LET present == [t \in next.threats |-> NewThreat(t)]
    IN  /\ scene' = [id |-> next.id, status |-> "active", round |-> 1, acted |-> {},
                     mode |-> next.mode]
        /\ objectives' = [o \in next.objectives \cup CarriedRescues |->
             IF o \in CarriedRescues THEN objectives[o] ELSE NewObjective(o)]
        /\ threats' = present
        /\ disclosed' = Revealed(present)
        /\ UNCHANGED <<sheet, dice, table>>

LoadScene(next) ==
    /\ scene.status # "active"
    /\ ~HasOpenRolls
    /\ Directive
    /\ SceneTransition(next)

\* Before the primary Objective is complete a reason must be given.
NextScene(next, reason) ==
    /\ scene.status # "none"
    /\ ~HasOpenRolls
    /\ PrimaryComplete \/ reason
    /\ Directive
    /\ SceneTransition(next)

MissionEnded == missionEnded' = TRUE /\ scene' = [scene EXCEPT !.status = "completed"]

EndMission(reason) ==
    /\ scene.status # "none"
    /\ ~HasOpenRolls
    /\ PrimaryComplete \/ reason
    /\ Directive
    /\ MissionEnded
    /\ disclosed' = {}
    /\ UNCHANGED <<sheet, objectives, threats, dice, paused>>

\* Solo and elite Threats take no reinforcements; removed ones are gone.
Reinforced == {t \in DOMAIN threats :
    /\ ~threats[t].solo /\ ~threats[t].elite
    /\ threats[t].status # "removed"
    /\ threats[t].rating <= 0 \/ threats[t].status = "active"}

Reinforcement(threat, mode, face) ==
    IF mode = "book"
    THEN IF threat.rating <= 0
         THEN [threat EXCEPT !.rating = face, !.attack = threat.startingAttack \div 2,
                             !.status = "active"]
         ELSE [threat EXCEPT !.attack = @ + 1]
    ELSE IF threat.rating <= 0
         THEN [threat EXCEPT !.rating = 0, !.attack = 0, !.status = "removed"]
         ELSE [threat EXCEPT !.rating = @ + face]

\* The dice the reinforcements throw: a d6 in the book's rules, else a d3.
ReinforcementFaces == IF scene.mode = "book" THEN Faces ELSE Faces \cap 1..3

RoundEnded(reinforced) ==
    /\ threats' = Update(threats, reinforced)
    /\ scene' = [scene EXCEPT !.round = @ + 1, !.acted = {}]

EndRound(faces) ==
    /\ scene.status # "none"
    /\ ~HasOpenRolls
    /\ faces \in [Reinforced -> ReinforcementFaces]
    /\ Directive
    /\ RoundEnded([t \in Reinforced |-> Reinforcement(threats[t], scene.mode, faces[t])])
    /\ disclosed' = SharedDeltas(Reinforced)
    /\ UNCHANGED <<sheet, objectives, dice, table>>

ThreatRevealed(t) == threats' = [threats EXCEPT ![t].revealed = TRUE]

RevealThreat(t) ==
    /\ t \in DOMAIN threats
    /\ Directive
    /\ ThreatRevealed(t)
    /\ disclosed' = {t}
    /\ UNCHANGED <<sheet, scene, objectives, dice, table>>

\* What an edit may set a number to: anything, or what it is.
Edits(now) == EditValues \cup {now}

\* One change per EditScene (a bound).
EditObjective(o, rating, challenge) ==
    /\ o \in DOMAIN objectives
    /\ objectives' = [objectives EXCEPT ![o].rating = rating, ![o].challenge = challenge]
    /\ disclosed' = {} /\ UNCHANGED threats

EditThreat(t, rating, attack, challenge) ==
    /\ t \in DOMAIN threats
    /\ threats' = [threats EXCEPT ![t].rating = rating, ![t].attack = attack,
                                  ![t].challenge = challenge]
    /\ disclosed' = SharedDeltas({t}) /\ UNCHANGED objectives

EditNumbers ==
    \/ \E o \in DOMAIN objectives : \E r \in Edits(objectives[o].rating),
          k \in Edits(objectives[o].challenge) : EditObjective(o, r, k)
    \/ \E t \in DOMAIN threats : \E r \in Edits(threats[t].rating),
          a \in Edits(threats[t].attack), k \in Edits(threats[t].challenge) :
             EditThreat(t, r, a, k)

\* An identifier that is taken names the added one from now on.
AddToScene(os, ts) ==
    LET added == [t \in ts |-> NewThreat(t)]
    IN  /\ os # {} \/ ts # {}
        /\ objectives' = Update(objectives, [o \in os |-> NewObjective(o)])
        /\ threats' = Update(threats, added)
        /\ disclosed' = Revealed(added)

RemoveFromScene(os, ts) ==
    /\ os \subseteq DOMAIN objectives /\ ts \subseteq DOMAIN threats
    /\ os # {} \/ ts # {}
    /\ objectives' = Without(objectives, os)
    /\ threats' = Without(threats, ts)
    /\ disclosed' = SharedDeltas(ts)

EditScene ==
    /\ Directive
    /\ \/ EditNumbers
       \/ \E o \in ObjectiveIds : AddToScene({o}, {})
       \/ \E t \in ThreatIds : AddToScene({}, {t})
       \/ \E o \in DOMAIN objectives : RemoveFromScene({o}, {})
       \/ \E t \in DOMAIN threats : RemoveFromScene({}, {t})
    /\ UNCHANGED <<sheet, scene, dice, table>>

SceneRulesChanged(mode) == scene' = [scene EXCEPT !.mode = mode]

SetSceneRules(mode) ==
    /\ scene.status # "none"
    /\ Directive
    /\ SceneRulesChanged(mode)
    /\ disclosed' = {}
    /\ UNCHANGED <<sheet, objectives, threats, dice, table>>

\* The patches a correction may carry, one field at a time (a bound).
PatchesOf(c, field) ==
    CASE field = "blood" -> {[blood |-> b] : b \in 0..MaxBlood}
      [] field = "downed" -> {[downed |-> d] : d \in BOOLEAN}
      [] field = "retired" -> {[retired |-> r] : r \in BOOLEAN}
      [] field = "loot" -> {[loot |-> i] : i \in Items \cup {None}}
      [] field = "uses" -> UNION {{[uses |-> [sheet[c].uses EXCEPT ![i] = u]] :
                                      u \in 0..Gear[i].maxUses} : i \in sheet[c].items}
      [] field = "marked" -> {[marked |-> sheet[c].marked \cup {b}] : b \in Boxes}
                                \cup {[marked |-> sheet[c].marked \ {b}] : b \in Boxes}

Patches(c) == UNION {PatchesOf(c, field) : field \in PatchFields}

\* Only the fields the patch carries change.
CharacterCorrected(c, patch) == sheet' = [sheet EXCEPT ![c] = Update(@, patch)]

CorrectCharacter(c, patch) ==
    /\ Directive
    /\ CharacterCorrected(c, patch)
    /\ disclosed' = {}
    /\ UNCHANGED <<board, dice, table>>

\* Granted loot takes the place of the active loot.  Under an identifier the
\* character still carries the code adds a second record behind the first: what
\* is looked up by identifier is the first, what changes or goes is both, so the
\* second never counts.
ItemGranted(c, i) ==
    LET kept == sheet[c].items \ {sheet[c].loot}
    IN  sheet' = [sheet EXCEPT
          ![c].items = kept \cup {i}, ![c].loot = i,
          ![c].uses[i] = IF i \in kept THEN @ ELSE Gear[i].maxUses]

GrantItem(c, i) ==
    /\ Directive
    /\ ItemGranted(c, i)
    /\ disclosed' = {}
    /\ UNCHANGED <<board, dice, table>>

AdvanceUnlocked(c, a) == sheet' = [sheet EXCEPT ![c].unlocked = @ \cup {a}]

UnlockAdvance(c, a) ==
    /\ Directive
    /\ AdvanceUnlocked(c, a)
    /\ disclosed' = {}
    /\ UNCHANGED <<board, dice, table>>

CharacterReassigned(c, m) == sheet' = [sheet EXCEPT ![c].claimedBy = m]

\* Unlike a claim, a reassignment asks neither who plays c nor what m plays.
ReassignCharacter(c, m) ==
    /\ Directive
    /\ CharacterReassigned(c, m)
    /\ disclosed' = {}
    /\ UNCHANGED <<board, dice, table>>

PausedOrResumed(value) == paused' = value

\* Pause and Resume say what they say whatever the room already is.
SetPaused(value) ==
    /\ PausedOrResumed(value)
    /\ disclosed' = {}
    /\ UNCHANGED <<sheet, board, dice, missionEnded, directives>>

-----------------------------------------------------------------------------
\* The commands authorizeGameAction grants a player...
PlayerCommand(m) ==
    \/ \E c \in Characters : ClaimCharacter(m, c) \/ ReleaseCharacter(m, c)
    \/ \E c \in Characters, b \in Boxes : HealInjury(m, c, b)
    \/ \E c \in Characters : \E stat \in StatChoices,
          items \in SUBSET sheet[c].items, powers \in SUBSET Kit[c].abilities :
          \E claims \in SUBSET (items \cup powers), engaging \in SUBSET ActiveRevealed :
             BeginAction(m, c, stat, items, powers, claims, engaging)
    \/ \E n \in DOMAIN rolls : \E allocation \in Allocations(rolls[n]), face \in Faces :
          AllocateResults(m, n, allocation, face)
    \/ \E n \in DOMAIN rolls, k \in Categories : ChooseInjuryCategory(m, n, k)
    \/ \E c \in Characters, i \in Items, n \in DOMAIN rolls \cup {None} :
          UseUtilityItem(m, c, i, n)

\* ... and the GM.  Anyone at the table may pause, the GM resumes.
GmCommand ==
    \/ \E n \in Unresolved : \E approved \in SUBSET rolls[n].claims,
          engaged \in SUBSET ActiveRevealed : \E primary \in engaged \cup {None} :
          \E attackThrow \in Throws(AttackDice(threats, engaged)),
             throw \in Throws(PoolSize(rolls[n].character, sheet[rolls[n].character],
                rolls[n].stat, rolls[n].items, rolls[n].powers, approved)) :
             ReviewAction(n, approved, engaged, primary, throw, attackThrow)
    \/ \E n \in DOMAIN rolls : VoidRoll(n)
    \/ \E next \in Scenes : LoadScene(next)
    \/ \E next \in Scenes, reason \in BOOLEAN : NextScene(next, reason)
    \/ \E reason \in BOOLEAN : EndMission(reason)
    \/ \E faces \in [Reinforced -> ReinforcementFaces] : EndRound(faces)
    \/ \E t \in ThreatIds : RevealThreat(t)
    \/ EditScene
    \/ \E mode \in {"book", "simplified"} : SetSceneRules(mode)
    \/ \E c \in Characters : \E patch \in Patches(c) : CorrectCharacter(c, patch)
    \/ \E c \in Characters, i \in LootItems : GrantItem(c, i)
    \/ \E c \in Characters, a \in Advances : UnlockAdvance(c, a)
    \/ \E c \in Characters, m \in Members \cup {None} : ReassignCharacter(c, m)

Next ==
    \/ \E m \in Members : PlayerCommand(m)
    \/ GmCommand
    \/ \E value \in BOOLEAN : SetPaused(value)

Spec == Init /\ [][Next]_vars

-----------------------------------------------------------------------------
(* Safety.                                                                 *)

\* hasUnresolvedRoll guards only the declaration, while rolls are reviewed,
\* allocated, voided and left behind by a reassigned or released character:
\* still no character ever has two rolls open, so no result is applied twice.
OneOpenRoll ==
    \A n, k \in Unresolved : rolls[n].character = rolls[k].character => n = k

\* actedThisRound is written by the allocation, cleared by rounds and scenes and
\* consulted by the declaration: an open roll always belongs to the round and
\* the scene under way.  Before its dice are spent its character has not acted;
\* while its injury waits the character has; the mission has not ended.
OpenRollsFitTheRound ==
    \A n \in Unresolved :
        /\ scene.status = "active" /\ ~missionEnded
        /\ rolls[n].character \in scene.acted
               <=> rolls[n].status = "awaiting_injury_choice"

\* Dice are thrown once: from the review on, whatever the GM directs, corrects or
\* reassigns meanwhile, an open roll keeps its character, its actor, its dice,
\* the opposition it met and the Threats it engages; a number never comes back.
RolledDiceStand ==
    [][/\ \A n \in Unresolved : rolls[n].status # "declared" /\ n \in Unresolved' =>
            /\ rolls'[n].character = rolls[n].character
            /\ rolls'[n].actor = rolls[n].actor
            /\ rolls'[n].kept = rolls[n].kept
            /\ rolls'[n].attack = rolls[n].attack
            /\ rolls'[n].engaged = rolls[n].engaged
       /\ \A n \in DOMAIN rolls' \ DOMAIN rolls : n \notin 1..nextRoll - 1]_vars

\* The copies of events every player reads name no Threat the GM keeps hidden:
\* only those revealed before or after the command, or engaged by an open roll,
\* whose review has already named them.
SharedCopiesKeepSecrets ==
    [][disclosed' \subseteq Revealed(threats) \cup Revealed(threats')
                               \cup UNION {rolls[n].engaged : n \in Unresolved}]_vars

\* A Downed character is brought back through its rescue Objective only, so no
\* change of scene or round and no end of a mission may lose one that is still
\* open or start it over; only dice are spent on it, and only the GM edits it.
RescuesOutliveScenes ==
    [][scene' # scene /\ scene'.acted \subseteq scene.acted => \A c \in Characters :
            Rescue(c) \in DOMAIN objectives /\ objectives[Rescue(c)].status = "active"
                => /\ Rescue(c) \in DOMAIN objectives'
                   /\ objectives'[Rescue(c)] = objectives[Rescue(c)]]_vars

\* The pool is checked when it is declared and charged when it is reviewed, and
\* heals, utility uses, corrections and loot fall in between: a review never
\* charges Blood, a use or a piece of equipment the character no longer has.
ChargesAreCovered ==
    [][\A n \in DOMAIN taken' \ DOMAIN taken :
         LET s == sheet[rolls[n].character]
         IN  /\ taken'[n].blood <= s.blood
             /\ \A i \in taken'[n].items : i \in s.items /\ s.uses[i] > 0]_vars

\* docs and state.ts: a void gives back exactly what the review charged, up to
\* the caps.
VoidRefundsCharges ==
    [][\A n \in DOMAIN rolls \ DOMAIN rolls' : n \in DOMAIN taken =>
         LET c == rolls[n].character
             s == sheet[c]
         IN  /\ sheet'[c].blood = AtMost(MaxBlood, s.blood + taken[n].blood)
             /\ \A i \in taken[n].items \cap s.items :
                    sheet'[c].uses[i] = AtMost(Gear[i].maxUses, s.uses[i] + 1)]_vars

\* engine.ts, 1863-1864: a voided roll never counts as having acted.  One that is
\* voided while its injury waits does.
VoidedNeverActs ==
    [][\A n \in DOMAIN rolls \ DOMAIN rolls' : rolls[n].character \notin scene'.acted]_vars

-----------------------------------------------------------------------------
(* Refinement: rolls and actedThisRound together implement turns.          *)

InStage(c, status) == \E n \in Unresolved : rolls[n].character = c /\ rolls[n].status = status

Stage(c) ==
    IF InStage(c, "declared") THEN "declared"
    ELSE IF InStage(c, "awaiting_allocation") THEN "rolled"
    ELSE IF InStage(c, "awaiting_injury_choice") THEN "hurt"
    ELSE IF c \in scene.acted THEN "done" ELSE "ready"

Round == INSTANCE RoundOfTurns WITH turn <- [c \in Characters |-> Stage(c)]

\* Whatever is corrected, reassigned, edited or voided in between, the engine's
\* rounds are rounds of turns: no character gets a second turn in a round, skips
\* a stage or is left behind by the next round.  A turn voided while its injury
\* waits is RoundOfTurns' Forfeit, and breaks VoidedNeverActs.
RefinesRoundOfTurns == Round!Spec
=============================================================================
