-------------------------- MODULE EatTheReichProofs --------------------------
(***************************************************************************)
(* Proofs about EatTheReich: for every roster, kit, scene and number of    *)
(* commands an open roll fits its round, dice stand, the engine's rounds   *)
(* are rounds of turns, secrets are kept, rescues are carried over, the    *)
(* stored record keeps its shape and reviews charge what is there.         *)
(*                                                                         *)
(* The twenty-two commands change the rolls and the round in six ways; the *)
(* first part shows that, and what concerns rolls and rounds reasons about *)
(* the six ways only.  The types follow the data instead: what each rule   *)
(* computes, then each sheet, board and roll a command stores.             *)
(***************************************************************************)
EXTENDS EatTheReich, SumFacts

RollFields ==
    {"character", "actor", "status", "stat", "items", "powers", "claims", "proposed",
     "engaged", "primary", "kept", "attackDice", "attack", "spent", "charged", "mode", "category"}

Statuses == {"declared", "awaiting_allocation", "awaiting_injury_choice", "resolved"}

RollOK(r) ==
    /\ DOMAIN r = RollFields
    /\ r.character \in Characters
    /\ r.status \in Statuses
    /\ r.primary \in r.engaged \cup {None}

RoundOK ==
    /\ DOMAIN scene = {"id", "status", "round", "acted", "mode"}
    /\ scene.acted \subseteq Characters

RollsOK ==
    /\ nextRoll \in Nat \ {0}
    /\ DOMAIN rolls \subseteq 1..nextRoll - 1
    /\ \A n \in DOMAIN rolls : RollOK(rolls[n])

Inv == RollsOK /\ RoundOK /\ OneOpenRoll /\ OpenRollsFitTheRound

-----------------------------------------------------------------------------
(* The six ways.                                                           *)

SameRound == scene'.status = scene.status /\ scene'.acted = scene.acted /\ RoundOK'
                /\ missionEnded' = missionEnded

\* A new roll of a character that may act.
Declares(c, r) ==
    /\ ReadyToAct(c) /\ ~missionEnded
    /\ c \in Characters /\ RollOK(r) /\ r.character = c /\ r.status = "declared"
    /\ rolls' = Update(rolls, [n \in {nextRoll} |-> r])
    /\ nextRoll' = nextRoll + 1
    /\ SameRound

\* An open roll becomes the record r.
Becomes(n, r) ==
    /\ n \in Unresolved
    /\ RollOK(r) /\ r.character = rolls[n].character
    /\ rolls' = [rolls EXCEPT ![n] = r]
    /\ nextRoll' = nextRoll

Reviews(n, r) ==
    /\ Becomes(n, r) /\ SameRound
    /\ rolls[n].status = "declared" /\ r.status = "awaiting_allocation"

Allocates(n, r) ==
    /\ Becomes(n, r)
    /\ rolls[n].status = "awaiting_allocation"
    /\ r.status \in {"awaiting_injury_choice", "resolved"}
    /\ r.status # "resolved" =>
          r.actor = rolls[n].actor /\ r.kept = rolls[n].kept /\ r.attack = rolls[n].attack
             /\ r.engaged = rolls[n].engaged
    /\ scene' = [scene EXCEPT !.acted = @ \cup {rolls[n].character}]
    /\ missionEnded' = missionEnded

Answers(n, r) ==
    /\ Becomes(n, r) /\ SameRound
    /\ rolls[n].status = "awaiting_injury_choice" /\ r.status = "resolved"

Voids(n) ==
    /\ n \in Unresolved
    /\ rolls' = Without(rolls, {n})
    /\ nextRoll' = nextRoll
    /\ SameRound

\* With no roll open the round or the scene ends.
MovesOn ==
    /\ ~HasOpenRolls
    /\ RoundOK' /\ scene'.acted \in {{}, scene.acted}
    /\ UNCHANGED <<rolls, nextRoll>>

\* Everything else leaves rolls and round alone.
Elsewhere == SameRound /\ UNCHANGED <<rolls, nextRoll>>

OneOfSix ==
    \/ \E c, r : Declares(c, r)
    \/ \E n, r : Reviews(n, r) \/ Allocates(n, r) \/ Answers(n, r)
    \/ \E n : Voids(n)
    \/ MovesOn
    \/ Elsewhere

-----------------------------------------------------------------------------
(* Records.                                                                *)

LEMMA ClosedOK ==
    ASSUME NEW r, RollOK(r)
    PROVE  /\ RollOK(Closed(r)) /\ Closed(r).status = "resolved"
           /\ Closed(r).character = r.character
  BY DEF RollOK, Closed, RollFields, Statuses

LEMMA StoredOK ==
    ASSUME NEW r, RollOK(r)
    PROVE  /\ RollOK(Stored(r))
           /\ Stored(r).status = r.status /\ Stored(r).character = r.character
  BY DEF RollOK, Stored, RollFields, Statuses

\* An action that leaves the scene alone leaves the round alone.
LEMMA SceneKept ==
    ASSUME RoundOK, scene' = scene, missionEnded' = missionEnded
    PROVE  SameRound
  BY DEF SameRound, RoundOK

-----------------------------------------------------------------------------
(* Each command is one of the six.                                         *)

LEMMA BeginDeclares ==
    ASSUME Inv, NEW m \in Members, NEW c \in Characters, NEW stat, NEW items, NEW powers,
           NEW claims, NEW engaging,
           BeginAction(m, c, stat, items, powers, claims, engaging)
    PROVE  \E r : Declares(c, r)
<1> DEFINE r == [character |-> c, actor |-> m, status |-> "declared", stat |-> stat,
          items |-> items, powers |-> powers, claims |-> claims, proposed |-> engaging,
          engaged |-> {}, primary |-> None, kept |-> <<>>, attackDice |-> 0,
          attack |-> 0, spent |-> 0, charged |-> {}, mode |-> None, category |-> None]
<1>1. RollOK(r) /\ r.character = c /\ r.status = "declared"
  BY DEF RollOK, RollFields, Statuses
<1>2. /\ rolls' = Update(rolls, [n \in {nextRoll} |-> r])
      /\ nextRoll' = nextRoll + 1 /\ ReadyToAct(c) /\ ~missionEnded
      /\ scene' = scene /\ missionEnded' = missionEnded
  BY DEF BeginAction, ActionDeclared, board, table
<1>3. SameRound
  BY <1>2, SceneKept DEF Inv
<1> HIDE DEF r
<1> QED
  BY <1>1, <1>2, <1>3 DEF Declares

LEMMA ReviewReviews ==
    ASSUME Inv, NEW n \in Unresolved, NEW approved, NEW engaged, NEW primary, NEW throw,
           NEW attackThrow, ReviewAction(n, approved, engaged, primary, throw, attackThrow)
    PROVE  \E r : Reviews(n, r)
<1>1. RollOK(rolls[n]) /\ n \in DOMAIN rolls
  BY DEF Inv, RollsOK, Unresolved
<1>2. PICK kept, dice1, attack, cost, charged :
        rolls' = [rolls EXCEPT ![n] = Stored(
             [rolls[n] EXCEPT !.status = "awaiting_allocation", !.proposed = {},
                !.engaged = engaged, !.primary = primary, !.kept = kept, !.attackDice = dice1,
                !.attack = attack, !.spent = cost, !.charged = charged])]
  BY DEF ReviewAction, ActionRolled
<1>3. /\ rolls[n].status = "declared" /\ nextRoll' = nextRoll
      /\ primary \in engaged \cup {None}
      /\ scene' = scene /\ missionEnded' = missionEnded
  BY DEF ReviewAction, Reviewable, board, table
<1> DEFINE r == [rolls[n] EXCEPT !.status = "awaiting_allocation", !.proposed = {},
                !.engaged = engaged, !.primary = primary, !.kept = kept, !.attackDice = dice1,
                !.attack = attack, !.spent = cost, !.charged = charged]
<1>4. RollOK(r) /\ r.status = "awaiting_allocation" /\ r.character = rolls[n].character
  BY <1>1, <1>3 DEF RollOK, RollFields, Statuses
<1>5. rolls' = [rolls EXCEPT ![n] = Stored(r)]
  BY <1>2
<1>6. SameRound
  BY <1>3, SceneKept DEF Inv
<1> HIDE DEF r
<1> QED
  BY <1>3, <1>4, <1>5, <1>6, StoredOK DEF Reviews, Becomes

LEMMA AllocateAllocates ==
    ASSUME Inv, NEW m \in Members, NEW n \in DOMAIN rolls, NEW allocation, NEW face,
           AllocateResults(m, n, allocation, face)
    PROVE  \E r : Allocates(n, r)
<1>1. /\ RollOK(rolls[n]) /\ rolls[n].status = "awaiting_allocation" /\ n \in Unresolved
      /\ scene' = [scene EXCEPT !.acted = @ \cup {rolls[n].character}]
      /\ missionEnded' = missionEnded /\ nextRoll' = nextRoll
  BY DEF Inv, RollsOK, Unresolved, AllocateResults, ActsThisRound, table
<1>2. PICK pending, mode, category : rolls' = [rolls EXCEPT ![n] =
             IF pending
             THEN [rolls[n] EXCEPT !.status = "awaiting_injury_choice",
                                   !.mode = mode, !.category = category]
             ELSE Closed(rolls[n])]
  BY DEF AllocateResults
<1> DEFINE hurt == [rolls[n] EXCEPT !.status = "awaiting_injury_choice",
                                    !.mode = mode, !.category = category]
<1>3. RollOK(hurt) /\ hurt.status = "awaiting_injury_choice"
      /\ hurt.character = rolls[n].character /\ hurt.actor = rolls[n].actor
      /\ hurt.kept = rolls[n].kept /\ hurt.attack = rolls[n].attack
      /\ hurt.engaged = rolls[n].engaged
  BY <1>1 DEF RollOK, RollFields, Statuses
<1>4. rolls' = [rolls EXCEPT ![n] = IF pending THEN hurt ELSE Closed(rolls[n])]
  BY <1>2
<1> HIDE DEF hurt
<1>5. CASE pending
  BY <1>1, <1>3, <1>4, <1>5 DEF Allocates, Becomes
<1>6. CASE ~pending
  <2>1. rolls' = [rolls EXCEPT ![n] = Closed(rolls[n])]
    BY <1>4, <1>6
  <2> QED
    BY <1>1, <2>1, ClosedOK DEF Allocates, Becomes
<1> QED
  BY <1>5, <1>6

LEMMA CloseAnswers ==
    ASSUME Inv, NEW n \in DOMAIN rolls, rolls[n].status = "awaiting_injury_choice",
           rolls' = [rolls EXCEPT ![n] = Closed(rolls[n])], nextRoll' = nextRoll,
           scene' = scene, missionEnded' = missionEnded
    PROVE  \E r : Answers(n, r)
<1>1. RollOK(rolls[n]) /\ n \in Unresolved
  BY DEF Inv, RollsOK, Unresolved
<1>2. SameRound
  BY SceneKept DEF Inv
<1> QED
  BY <1>1, <1>2, ClosedOK DEF Answers, Becomes

LEMMA UnchangedElsewhere ==
    ASSUME Inv, rolls' = rolls, nextRoll' = nextRoll, scene' = scene,
           missionEnded' = missionEnded
    PROVE  OneOfSix
  BY SceneKept DEF Inv, OneOfSix, Elsewhere

LEMMA UtilityIsOneOfSix ==
    ASSUME Inv, NEW m \in Members, NEW c \in Characters, NEW i \in Items, NEW n,
           UseUtilityItem(m, c, i, n)
    PROVE  OneOfSix
<1>1. /\ nextRoll' = nextRoll /\ scene' = scene /\ missionEnded' = missionEnded
  BY DEF UseUtilityItem, board, table
<1>2. CASE Gear[i].use = "hat"
  <2>1. /\ n \in DOMAIN rolls /\ rolls[n].status = "awaiting_injury_choice"
        /\ rolls' = [rolls EXCEPT ![n] = Closed(rolls[n])]
    BY <1>2 DEF UseUtilityItem
  <2> QED
    BY <1>1, <2>1, CloseAnswers DEF OneOfSix
<1>3. CASE Gear[i].use # "hat"
  <2>1. rolls' = rolls
    BY <1>3 DEF UseUtilityItem
  <2> QED
    BY <1>1, <2>1, UnchangedElsewhere
<1> QED
  BY <1>2, <1>3

LEMMA PlayerIsOneOfSix ==
    ASSUME Inv, NEW m \in Members, PlayerCommand(m)
    PROVE  OneOfSix
<1>1. CASE \E c \in Characters : ClaimCharacter(m, c) \/ ReleaseCharacter(m, c)
  BY <1>1, UnchangedElsewhere DEF ClaimCharacter, ReleaseCharacter, board, dice, table
<1>2. CASE \E c \in Characters, b \in Boxes : HealInjury(m, c, b)
  BY <1>2, UnchangedElsewhere DEF HealInjury, board, dice, table
<1>3. CASE \E c \in Characters : \E stat \in StatChoices,
          items \in SUBSET sheet[c].items, powers \in SUBSET Kit[c].abilities :
          \E claims \in SUBSET (items \cup powers), engaging \in SUBSET ActiveRevealed :
             BeginAction(m, c, stat, items, powers, claims, engaging)
  BY <1>3, BeginDeclares DEF OneOfSix
<1>4. CASE \E n \in DOMAIN rolls : \E allocation \in Allocations(rolls[n]), face \in Faces :
          AllocateResults(m, n, allocation, face)
  BY <1>4, AllocateAllocates DEF OneOfSix
<1>5. CASE \E n \in DOMAIN rolls, k \in Categories : ChooseInjuryCategory(m, n, k)
  <2>1. PICK n \in DOMAIN rolls, k \in Categories : ChooseInjuryCategory(m, n, k)
    BY <1>5
  <2>2. /\ rolls[n].status = "awaiting_injury_choice" /\ nextRoll' = nextRoll
        /\ rolls' = [rolls EXCEPT ![n] = Closed(rolls[n])]
        /\ scene' = scene /\ missionEnded' = missionEnded
    BY <2>1 DEF ChooseInjuryCategory, InjuryCategoryChosen, table
  <2> QED
    BY <2>2, CloseAnswers DEF OneOfSix
<1>6. CASE \E c \in Characters, i \in Items, n \in DOMAIN rolls \cup {None} :
          UseUtilityItem(m, c, i, n)
  BY <1>6, UtilityIsOneOfSix
<1> QED
  BY <1>1, <1>2, <1>3, <1>4, <1>5, <1>6 DEF PlayerCommand

LEMMA TransitionMovesOn ==
    ASSUME Inv, ~HasOpenRolls, NEW next, SceneTransition(next)
    PROVE  MovesOn
<1>1. scene' = [id |-> next.id, status |-> "active", round |-> 1, acted |-> {},
                mode |-> next.mode]
      /\ rolls' = rolls /\ nextRoll' = nextRoll
  BY DEF SceneTransition, dice
<1>2. RoundOK' /\ scene'.acted = {}
  BY <1>1 DEF RoundOK
<1> QED
  BY <1>1, <1>2 DEF MovesOn

LEMMA DirectionIsOneOfSix ==
    ASSUME Inv,
           \/ \E next \in Scenes : LoadScene(next)
           \/ \E next \in Scenes, reason \in BOOLEAN : NextScene(next, reason)
           \/ \E reason \in BOOLEAN : EndMission(reason)
           \/ \E faces \in [Reinforced -> ReinforcementFaces] : EndRound(faces)
           \/ \E mode \in {"book", "simplified"} : SetSceneRules(mode)
    PROVE  OneOfSix
<1>1. CASE \E next \in Scenes : LoadScene(next)
  BY <1>1, TransitionMovesOn DEF LoadScene, OneOfSix
<1>2. CASE \E next \in Scenes, reason \in BOOLEAN : NextScene(next, reason)
  BY <1>2, TransitionMovesOn DEF NextScene, OneOfSix
<1>3. CASE \E reason \in BOOLEAN : EndMission(reason)
  <2>1. /\ ~HasOpenRolls /\ rolls' = rolls /\ nextRoll' = nextRoll
        /\ scene' = [scene EXCEPT !.status = "completed"]
    BY <1>3 DEF EndMission, MissionEnded, dice
  <2>2. RoundOK' /\ scene'.acted = scene.acted
    BY <2>1 DEF Inv, RoundOK
  <2> QED
    BY <2>1, <2>2 DEF MovesOn, OneOfSix
<1>4. CASE \E faces \in [Reinforced -> ReinforcementFaces] : EndRound(faces)
  <2>1. /\ ~HasOpenRolls /\ rolls' = rolls /\ nextRoll' = nextRoll
        /\ scene' = [scene EXCEPT !.round = @ + 1, !.acted = {}]
    BY <1>4 DEF EndRound, RoundEnded, dice
  <2>2. RoundOK' /\ scene'.acted = {}
    BY <2>1 DEF Inv, RoundOK
  <2> QED
    BY <2>1, <2>2 DEF MovesOn, OneOfSix
<1>5. CASE \E mode \in {"book", "simplified"} : SetSceneRules(mode)
  <2>1. PICK mode : /\ rolls' = rolls /\ nextRoll' = nextRoll /\ missionEnded' = missionEnded
                    /\ scene' = [scene EXCEPT !.mode = mode]
    BY <1>5 DEF SetSceneRules, SceneRulesChanged, dice, table
  <2>2. SameRound
    BY <2>1 DEF Inv, RoundOK, SameRound
  <2> QED
    BY <2>1, <2>2 DEF Elsewhere, OneOfSix
<1> QED
  BY <1>1, <1>2, <1>3, <1>4, <1>5

LEMMA GmIsOneOfSix ==
    ASSUME Inv, GmCommand
    PROVE  OneOfSix
<1>1. CASE \E n \in Unresolved : \E approved, engaged, primary, throw, attackThrow :
             ReviewAction(n, approved, engaged, primary, throw, attackThrow)
  BY <1>1, ReviewReviews DEF OneOfSix
<1>2. CASE \E n \in DOMAIN rolls : VoidRoll(n)
  <2>1. PICK n \in DOMAIN rolls : VoidRoll(n)
    BY <1>2
  <2>2. /\ n \in Unresolved /\ rolls' = Without(rolls, {n}) /\ nextRoll' = nextRoll
        /\ scene' = scene /\ missionEnded' = missionEnded
    BY <2>1 DEF VoidRoll, RollVoided, Unresolved, board, table
  <2>3. SameRound
    BY <2>2, SceneKept DEF Inv
  <2> QED
    BY <2>2, <2>3 DEF Voids, OneOfSix
<1>3. CASE \/ \E t \in ThreatIds : RevealThreat(t)
           \/ EditScene
           \/ \E c \in Characters : \E patch \in Patches(c) : CorrectCharacter(c, patch)
           \/ \E c \in Characters, i \in LootItems : GrantItem(c, i)
           \/ \E c \in Characters, a \in Advances : UnlockAdvance(c, a)
           \/ \E c \in Characters, m \in Members \cup {None} : ReassignCharacter(c, m)
  BY <1>3, UnchangedElsewhere
     DEF RevealThreat, EditScene, CorrectCharacter, GrantItem, UnlockAdvance,
         ReassignCharacter, board, dice, table
<1> QED
  BY <1>1, <1>2, <1>3, DirectionIsOneOfSix DEF GmCommand

LEMMA NextIsOneOfSix ==
    ASSUME Inv, [Next]_vars
    PROVE  OneOfSix
<1>1. CASE \E value \in BOOLEAN : SetPaused(value)
  BY <1>1, UnchangedElsewhere DEF SetPaused, board, dice
<1>2. CASE UNCHANGED vars
  BY <1>2, UnchangedElsewhere DEF vars
<1> QED
  BY <1>1, <1>2, PlayerIsOneOfSix, GmIsOneOfSix DEF Next

-----------------------------------------------------------------------------
(* The invariant.                                                          *)

LEMMA InitInv == Init => Inv
  BY DEF Init, Inv, RollsOK, RoundOK, OneOpenRoll, OpenRollsFitTheRound, Unresolved, EmptyMap

\* What Becomes does to the open rolls.
LEMMA BecomesInv ==
    ASSUME Inv, NEW n, NEW r, Becomes(n, r)
    PROVE  /\ RollsOK' /\ OneOpenRoll'
           /\ n \in DOMAIN rolls /\ DOMAIN rolls' = DOMAIN rolls /\ rolls'[n] = r
           /\ \A k \in DOMAIN rolls \ {n} : rolls'[k] = rolls[k]
           /\ \A k \in DOMAIN rolls : k \in Unresolved' <=>
                 IF k = n THEN r.status # "resolved" ELSE k \in Unresolved
           /\ Unresolved' \subseteq DOMAIN rolls
<1>1. /\ n \in DOMAIN rolls /\ DOMAIN rolls' = DOMAIN rolls /\ rolls'[n] = r
      /\ \A k \in DOMAIN rolls \ {n} : rolls'[k] = rolls[k]
      /\ n \in Unresolved /\ RollOK(r) /\ r.character = rolls[n].character
      /\ nextRoll' = nextRoll
  BY DEF Becomes, Unresolved
<1>2. RollsOK'
  BY <1>1 DEF Inv, RollsOK
<1>3. /\ \A k \in DOMAIN rolls : k \in Unresolved' <=>
             IF k = n THEN r.status # "resolved" ELSE k \in Unresolved
      /\ Unresolved' \subseteq DOMAIN rolls
  BY <1>1 DEF Unresolved
<1>4. \A k \in DOMAIN rolls : rolls'[k].character = rolls[k].character
  BY <1>1
<1>5. Unresolved' \subseteq Unresolved
  BY <1>1, <1>3
<1>6. OneOpenRoll'
  BY <1>3, <1>4, <1>5 DEF Inv, OneOpenRoll
<1> QED
  BY <1>1, <1>2, <1>3, <1>6

LEMMA DeclaresInv ==
    ASSUME Inv, NEW c, NEW r, Declares(c, r)
    PROVE  Inv'
<1>1. /\ nextRoll \notin DOMAIN rolls /\ nextRoll \in Nat \ {0} /\ nextRoll' = nextRoll + 1
      /\ DOMAIN rolls' = DOMAIN rolls \cup {nextRoll} /\ rolls'[nextRoll] = r
      /\ \A k \in DOMAIN rolls : rolls'[k] = rolls[k]
      /\ DOMAIN rolls \subseteq 1..nextRoll - 1
  BY DEF Inv, RollsOK, Declares, Update
<1>2. /\ SameRound /\ RollOK(r) /\ r.character = c /\ r.status = "declared"
      /\ ~missionEnded /\ scene.status = "active" /\ c \notin scene.acted
      /\ \A k \in Unresolved : rolls[k].character # c
  BY DEF Declares, ReadyToAct, HasUnresolvedRoll
<1>3. Unresolved' = Unresolved \cup {nextRoll} /\ Unresolved \subseteq DOMAIN rolls
  BY <1>1, <1>2 DEF Unresolved
<1>4. RollsOK'
  <2>1. nextRoll + 1 \in Nat \ {0} /\ 1..nextRoll - 1 \cup {nextRoll} \subseteq 1..nextRoll
    BY DEF Inv, RollsOK
  <2> QED
    BY <1>1, <1>2, <2>1 DEF Inv, RollsOK
<1>5. OneOpenRoll'
  <2>1. \A k \in Unresolved : rolls'[k].character = rolls[k].character
    BY <1>1, <1>3
  <2> QED
    BY <1>1, <1>2, <1>3, <2>1 DEF Inv, OneOpenRoll
<1>6. OpenRollsFitTheRound'
  <2>1. \A k \in Unresolved : rolls'[k] = rolls[k]
    BY <1>1, <1>3
  <2>2. scene'.status = scene.status /\ scene'.acted = scene.acted /\ missionEnded' = missionEnded
    BY <1>2 DEF SameRound
  <2> QED
    BY <1>1, <1>2, <1>3, <2>1, <2>2 DEF Inv, OpenRollsFitTheRound
<1> QED
  BY <1>2, <1>4, <1>5, <1>6 DEF Inv, SameRound

LEMMA ReviewsInv ==
    ASSUME Inv, NEW n, NEW r, Reviews(n, r)
    PROVE  Inv'
<1>1. /\ Becomes(n, r) /\ SameRound /\ r.character = rolls[n].character
      /\ n \in Unresolved /\ rolls[n].status = "declared" /\ r.status = "awaiting_allocation"
  BY DEF Reviews, Becomes
<1>2. /\ scene'.status = scene.status /\ scene'.acted = scene.acted
      /\ missionEnded' = missionEnded /\ RoundOK'
  BY <1>1 DEF SameRound
<1>3. OpenRollsFitTheRound'
  BY <1>1, <1>2, BecomesInv DEF Inv, OpenRollsFitTheRound
<1> QED
  BY <1>1, <1>2, <1>3, BecomesInv DEF Inv

LEMMA AnswersInv ==
    ASSUME Inv, NEW n, NEW r, Answers(n, r)
    PROVE  Inv'
<1>1. /\ Becomes(n, r) /\ SameRound /\ r.status = "resolved"
  BY DEF Answers
<1>2. /\ scene'.status = scene.status /\ scene'.acted = scene.acted
      /\ missionEnded' = missionEnded /\ RoundOK'
  BY <1>1 DEF SameRound
<1>3. OpenRollsFitTheRound'
  BY <1>1, <1>2, BecomesInv DEF Inv, OpenRollsFitTheRound
<1> QED
  BY <1>1, <1>2, <1>3, BecomesInv DEF Inv

\* No other open roll has the character whose dice are spent: the round's list
\* stays right for the others.
LEMMA AllocatesInv ==
    ASSUME Inv, NEW n, NEW r, Allocates(n, r)
    PROVE  Inv'
<1>1. /\ Becomes(n, r) /\ r.status \in {"awaiting_injury_choice", "resolved"}
      /\ n \in Unresolved /\ RollOK(r) /\ r.character = rolls[n].character
      /\ scene' = [scene EXCEPT !.acted = @ \cup {rolls[n].character}]
      /\ missionEnded' = missionEnded
  BY DEF Allocates, Becomes
<1>2. /\ scene'.status = scene.status /\ scene'.acted = scene.acted \cup {rolls[n].character}
      /\ RoundOK'
  BY <1>1 DEF Inv, RoundOK, RollOK
<1>3. \A k \in Unresolved \ {n} : rolls[k].character # rolls[n].character
  BY <1>1 DEF Inv, OneOpenRoll
<1>4. OpenRollsFitTheRound'
  BY <1>1, <1>2, <1>3, BecomesInv DEF Inv, OpenRollsFitTheRound
<1> QED
  BY <1>1, <1>2, <1>4, BecomesInv DEF Inv

LEMMA VoidsInv ==
    ASSUME Inv, NEW n, Voids(n)
    PROVE  Inv'
<1>1. /\ DOMAIN rolls' = DOMAIN rolls \ {n} /\ nextRoll' = nextRoll
      /\ \A k \in DOMAIN rolls \ {n} : rolls'[k] = rolls[k]
  BY DEF Voids, Without
<1>2. Unresolved' = Unresolved \ {n} /\ Unresolved \subseteq DOMAIN rolls
  BY <1>1 DEF Unresolved
<1>3. /\ scene'.status = scene.status /\ scene'.acted = scene.acted
      /\ missionEnded' = missionEnded /\ RoundOK'
  BY DEF Voids, SameRound
<1>4. RollsOK' /\ OneOpenRoll'
  BY <1>1, <1>2 DEF Inv, RollsOK, OneOpenRoll
<1>5. OpenRollsFitTheRound'
  BY <1>1, <1>2, <1>3 DEF Inv, OpenRollsFitTheRound
<1> QED
  BY <1>3, <1>4, <1>5 DEF Inv

LEMMA MovesOnInv ==
    ASSUME Inv, MovesOn
    PROVE  Inv'
  BY DEF Inv, MovesOn, HasOpenRolls, Unresolved, RollsOK, OneOpenRoll, OpenRollsFitTheRound

LEMMA ElsewhereInv ==
    ASSUME Inv, Elsewhere
    PROVE  Inv'
  BY DEF Inv, Elsewhere, SameRound, Unresolved, RollsOK, OneOpenRoll, OpenRollsFitTheRound

LEMMA StepInv ==
    ASSUME Inv, OneOfSix
    PROVE  Inv'
  BY DeclaresInv, ReviewsInv, AnswersInv, AllocatesInv, VoidsInv, MovesOnInv, ElsewhereInv
     DEF OneOfSix

THEOREM Invariance == Spec => []Inv
<1>1. Inv /\ [Next]_vars => Inv'
  BY NextIsOneOfSix, StepInv
<1> QED
  BY <1>1, InitInv, PTL DEF Spec

\* For every roster, kit, scene and number of commands no character has two rolls
\* open (hasUnresolvedRoll).
THEOREM RollsOneAtATime == Spec => []OneOpenRoll
<1>1. Inv => OneOpenRoll
  BY DEF Inv
<1> QED
  BY <1>1, Invariance, PTL

\* An open roll belongs to the round and the scene under way (actedThisRound,
\* hasOpenRolls).
THEOREM RollsFitTheRound == Spec => []OpenRollsFitTheRound
<1>1. Inv => OpenRollsFitTheRound
  BY DEF Inv
<1> QED
  BY <1>1, Invariance, PTL

-----------------------------------------------------------------------------
(* The dice stand.                                                         *)

RollStands(n) ==
    rolls[n].status # "declared" /\ n \in Unresolved' =>
        /\ rolls'[n].character = rolls[n].character
        /\ rolls'[n].actor = rolls[n].actor
        /\ rolls'[n].kept = rolls[n].kept
        /\ rolls'[n].attack = rolls[n].attack
        /\ rolls'[n].engaged = rolls[n].engaged

LEMMA StepKeepsDice ==
    ASSUME Inv, OneOfSix
    PROVE  /\ \A n \in Unresolved : RollStands(n)
           /\ \A n \in DOMAIN rolls' \ DOMAIN rolls : n \notin 1..nextRoll - 1
<1>1. Unresolved \subseteq DOMAIN rolls /\ nextRoll \in Nat
  BY DEF Unresolved, Inv, RollsOK
<1>2. ASSUME NEW c, NEW r, Declares(c, r)
      PROVE  /\ \A n \in Unresolved : RollStands(n)
             /\ \A n \in DOMAIN rolls' \ DOMAIN rolls : n \notin 1..nextRoll - 1
  <2>1. /\ DOMAIN rolls' = DOMAIN rolls \cup {nextRoll}
        /\ \A k \in DOMAIN rolls \ {nextRoll} : rolls'[k] = rolls[k]
        /\ nextRoll \notin DOMAIN rolls
    BY <1>2 DEF Declares, Update, Inv, RollsOK
  <2> QED
    BY <1>1, <2>1 DEF RollStands
<1>3. ASSUME NEW n, NEW r, Reviews(n, r) \/ Allocates(n, r) \/ Answers(n, r)
      PROVE  /\ \A k \in Unresolved : RollStands(k)
             /\ DOMAIN rolls' = DOMAIN rolls
  <2>1. Becomes(n, r) /\ r.character = rolls[n].character
    BY <1>3 DEF Reviews, Allocates, Answers, Becomes
  <2>2. /\ DOMAIN rolls' = DOMAIN rolls /\ rolls'[n] = r
        /\ \A k \in DOMAIN rolls \ {n} : rolls'[k] = rolls[k]
        /\ n \in Unresolved' <=> r.status # "resolved"
    BY <2>1, BecomesInv
  <2>3. \A k \in Unresolved \ {n} : RollStands(k)
    BY <1>1, <2>2 DEF RollStands
  <2>4. RollStands(n)
    BY <1>3, <2>1, <2>2 DEF RollStands, Reviews, Allocates, Answers
  <2> QED
    BY <2>2, <2>3, <2>4
<1>4. ASSUME NEW n, Voids(n)
      PROVE  /\ \A k \in Unresolved : RollStands(k)
             /\ DOMAIN rolls' \subseteq DOMAIN rolls
  <2>1. /\ DOMAIN rolls' = DOMAIN rolls \ {n}
        /\ \A k \in DOMAIN rolls \ {n} : rolls'[k] = rolls[k]
    BY <1>4 DEF Voids, Without
  <2> QED
    BY <2>1 DEF RollStands, Unresolved
<1>5. ASSUME MovesOn \/ Elsewhere
      PROVE  rolls' = rolls
  BY <1>5 DEF MovesOn, Elsewhere
<1> QED
  BY <1>2, <1>3, <1>4, <1>5 DEF OneOfSix, RollStands

\* Dice are thrown once, and roll numbers never come back (decideReviewAction,
\* nextRollSequence).
THEOREM DiceStand == Spec => RolledDiceStand
<1>1. Inv /\ [Next]_vars =>
        [/\ \A n \in Unresolved : rolls[n].status # "declared" /\ n \in Unresolved' =>
            /\ rolls'[n].character = rolls[n].character
            /\ rolls'[n].actor = rolls[n].actor
            /\ rolls'[n].kept = rolls[n].kept
            /\ rolls'[n].attack = rolls[n].attack
            /\ rolls'[n].engaged = rolls[n].engaged
         /\ \A n \in DOMAIN rolls' \ DOMAIN rolls : n \notin 1..nextRoll - 1]_vars
  BY NextIsOneOfSix, StepKeepsDice DEF RollStands
<1> QED
  BY <1>1, Invariance, PTL DEF Spec, RolledDiceStand

-----------------------------------------------------------------------------
(* Rounds of turns.                                                        *)

Turn == [c \in Characters |-> Stage(c)]

\* Open, InStage and Stage over any rolls and any list of who has acted.
OpenIn(rs) == {n \in DOMAIN rs : rs[n].status # "resolved"}
StageAmong(c, status, rs) ==
    \E n \in OpenIn(rs) : rs[n].character = c /\ rs[n].status = status
StageIn(c, rs, acted) ==
    IF StageAmong(c, "declared", rs) THEN "declared"
    ELSE IF StageAmong(c, "awaiting_allocation", rs) THEN "rolled"
    ELSE IF StageAmong(c, "awaiting_injury_choice", rs) THEN "hurt"
    ELSE IF c \in acted THEN "done" ELSE "ready"

LEMMA StageIs ==
    /\ Unresolved = OpenIn(rolls) /\ Unresolved' = OpenIn(rolls')
    /\ \A c : Stage(c) = StageIn(c, rolls, scene.acted)
    /\ \A c : Stage(c)' = StageIn(c, rolls', scene'.acted)
  BY DEF Stage, StageIn, InStage, StageAmong, OpenIn, Unresolved

\* The stage an open roll's status stands for.
StageOf(status) ==
    IF status = "declared" THEN "declared"
    ELSE IF status = "awaiting_allocation" THEN "rolled" ELSE "hurt"

LEMMA StageOfRoll ==
    ASSUME NEW rs, NEW acted, NEW n \in OpenIn(rs), rs[n].status \in Statuses,
           \A k \in OpenIn(rs) : rs[k].character = rs[n].character => k = n
    PROVE  StageIn(rs[n].character, rs, acted) = StageOf(rs[n].status)
<1>1. \A status : StageAmong(rs[n].character, status, rs) <=> rs[n].status = status
  BY DEF StageAmong
<1> QED
  BY <1>1 DEF StageIn, StageOf, OpenIn, Statuses

LEMMA StageWithoutRoll ==
    ASSUME NEW rs, NEW acted, NEW c, \A k \in OpenIn(rs) : rs[k].character # c
    PROVE  StageIn(c, rs, acted) = IF c \in acted THEN "done" ELSE "ready"
  BY DEF StageIn, StageAmong

OpenOf(d, rs) == {k \in OpenIn(rs) : rs[k].character = d}

LEMMA StageOfOthers ==
    ASSUME NEW rs, NEW rs2, NEW acted, NEW acted2, NEW d, d \in acted <=> d \in acted2,
           OpenOf(d, rs) = OpenOf(d, rs2),
           \A k \in OpenOf(d, rs) : rs2[k].status = rs[k].status
    PROVE  StageIn(d, rs2, acted2) = StageIn(d, rs, acted)
<1>1. \A status : StageAmong(d, status, rs) <=> \E k \in OpenOf(d, rs) : rs[k].status = status
  BY DEF StageAmong, OpenOf
<1>2. \A status : StageAmong(d, status, rs2) <=> \E k \in OpenOf(d, rs) : rs2[k].status = status
  BY DEF StageAmong, OpenOf
<1>3. \A status : StageAmong(d, status, rs) <=> StageAmong(d, status, rs2)
  BY <1>1, <1>2
<1> QED
  BY <1>3 DEF StageIn

\* Only the turn of c moves, to the stage s.
OnlyTurn(c, s) == Turn' = [Turn EXCEPT ![c] = s]

LEMMA OneTurnMoves ==
    ASSUME NEW c \in Characters, NEW s, StageIn(c, rolls', scene'.acted) = s,
           \A d \in Characters \ {c} :
              StageIn(d, rolls', scene'.acted) = StageIn(d, rolls, scene.acted)
    PROVE  OnlyTurn(c, s)
  BY StageIs DEF OnlyTurn, Turn

LEMMA BecomesTurn ==
    ASSUME Inv, NEW n, NEW r, NEW c, Becomes(n, r), c = rolls[n].character, Inv',
           scene'.acted \in {scene.acted, scene.acted \cup {c}}
    PROVE  /\ c \in Characters /\ Turn[c] = StageOf(rolls[n].status)
           /\ OnlyTurn(c, IF r.status # "resolved" THEN StageOf(r.status)
                          ELSE IF c \in scene'.acted THEN "done" ELSE "ready")
<1>1. /\ n \in OpenIn(rolls) /\ RollOK(rolls[n]) /\ RollOK(r) /\ r.character = c
      /\ \A k \in OpenIn(rolls) : rolls[k].character = c => k = n
  BY StageIs DEF Becomes, Inv, RollsOK, OneOpenRoll, Unresolved
<1>2. /\ n \in DOMAIN rolls /\ DOMAIN rolls' = DOMAIN rolls /\ rolls'[n] = r
      /\ \A k \in DOMAIN rolls \ {n} : rolls'[k] = rolls[k]
  BY BecomesInv
<1>3. \A k : k \in OpenIn(rolls') <=>
          IF k = n THEN r.status # "resolved" ELSE k \in OpenIn(rolls)
  BY <1>2 DEF OpenIn
<1>4. c \in Characters /\ Turn[c] = StageOf(rolls[n].status)
  BY <1>1, StageIs, StageOfRoll DEF Turn, RollOK
<1>5. \A d \in Characters \ {c} :
          StageIn(d, rolls', scene'.acted) = StageIn(d, rolls, scene.acted)
  <2> SUFFICES ASSUME NEW d \in Characters \ {c}
               PROVE  StageIn(d, rolls', scene'.acted) = StageIn(d, rolls, scene.acted)
    OBVIOUS
  <2>1. d \in scene.acted <=> d \in scene'.acted
    OBVIOUS
  <2>2. OpenOf(d, rolls) = OpenOf(d, rolls')
    BY <1>1, <1>2, <1>3 DEF OpenOf, OpenIn
  <2>3. \A k \in OpenOf(d, rolls) : rolls'[k].status = rolls[k].status
    BY <1>1, <1>2 DEF OpenOf, OpenIn
  <2> QED
    BY <2>1, <2>2, <2>3, StageOfOthers
<1>6. CASE r.status # "resolved"
  <2>1. StageIn(c, rolls', scene'.acted) = StageOf(r.status)
    BY <1>1, <1>2, <1>3, <1>6, StageOfRoll DEF RollOK
  <2> QED
    BY <1>4, <1>5, <1>6, <2>1, OneTurnMoves
<1>7. CASE r.status = "resolved"
  <2>1. \A k \in OpenIn(rolls') : rolls'[k].character # c
    BY <1>1, <1>2, <1>3, <1>7 DEF OpenIn
  <2>2. StageIn(c, rolls', scene'.acted) = IF c \in scene'.acted THEN "done" ELSE "ready"
    BY <2>1, StageWithoutRoll
  <2> QED
    BY <1>4, <1>5, <1>7, <2>2, OneTurnMoves
<1> QED
  BY <1>4, <1>6, <1>7

LEMMA DeclaresTurn ==
    ASSUME Inv, NEW c, NEW r, Declares(c, r)
    PROVE  c \in Characters /\ Turn[c] = "ready" /\ OnlyTurn(c, "declared")
<1>1. /\ c \in Characters /\ r.character = c /\ r.status = "declared"
      /\ c \notin scene.acted /\ scene'.acted = scene.acted
      /\ \A k \in OpenIn(rolls) : rolls[k].character # c
  BY StageIs DEF Declares, ReadyToAct, HasUnresolvedRoll, SameRound
<1>2. /\ nextRoll \notin DOMAIN rolls
      /\ DOMAIN rolls' = DOMAIN rolls \cup {nextRoll} /\ rolls'[nextRoll] = r
      /\ \A k \in DOMAIN rolls : rolls'[k] = rolls[k]
  BY DEF Inv, RollsOK, Declares, Update
<1>3. OpenIn(rolls') = OpenIn(rolls) \cup {nextRoll} /\ OpenIn(rolls) \subseteq DOMAIN rolls
  BY <1>1, <1>2 DEF OpenIn
<1>4. Turn[c] = "ready"
  BY <1>1, StageIs, StageWithoutRoll DEF Turn
<1>5. StageIn(c, rolls', scene'.acted) = "declared"
  <2>1. \A k \in OpenIn(rolls') : rolls'[k].character = rolls'[nextRoll].character => k = nextRoll
    BY <1>1, <1>2, <1>3
  <2>2. StageIn(rolls'[nextRoll].character, rolls', scene'.acted) = StageOf(rolls'[nextRoll].status)
    BY <1>1, <1>2, <1>3, <2>1, StageOfRoll DEF Statuses
  <2> QED
    BY <1>1, <1>2, <2>2 DEF StageOf
<1>6. \A d \in Characters \ {c} :
          StageIn(d, rolls', scene'.acted) = StageIn(d, rolls, scene.acted)
  <2> SUFFICES ASSUME NEW d \in Characters \ {c}
               PROVE  StageIn(d, rolls', scene'.acted) = StageIn(d, rolls, scene.acted)
    OBVIOUS
  <2>1. OpenOf(d, rolls) = OpenOf(d, rolls')
    BY <1>1, <1>2, <1>3 DEF OpenOf
  <2>2. \A k \in OpenOf(d, rolls) : rolls'[k].status = rolls[k].status
    BY <1>2, <1>3 DEF OpenOf
  <2> QED
    BY <1>1, <2>1, <2>2, StageOfOthers
<1> QED
  BY <1>1, <1>4, <1>5, <1>6, OneTurnMoves

LEMMA VoidsTurn ==
    ASSUME Inv, NEW n, NEW c, Voids(n), c = rolls[n].character
    PROVE  /\ c \in Characters /\ Turn[c] = StageOf(rolls[n].status)
           /\ OnlyTurn(c, IF rolls[n].status = "awaiting_injury_choice" THEN "done" ELSE "ready")
<1>1. /\ n \in OpenIn(rolls) /\ RollOK(rolls[n])
      /\ \A k \in OpenIn(rolls) : rolls[k].character = c => k = n
      /\ c \in scene.acted <=> rolls[n].status = "awaiting_injury_choice"
      /\ scene'.acted = scene.acted
  BY StageIs DEF Voids, Inv, RollsOK, OneOpenRoll, OpenRollsFitTheRound, Unresolved, SameRound
<1>2. /\ DOMAIN rolls' = DOMAIN rolls \ {n}
      /\ \A k \in DOMAIN rolls \ {n} : rolls'[k] = rolls[k]
  BY DEF Voids, Without
<1>3. OpenIn(rolls') = OpenIn(rolls) \ {n} /\ OpenIn(rolls) \subseteq DOMAIN rolls
  BY <1>2 DEF OpenIn
<1>4. c \in Characters /\ Turn[c] = StageOf(rolls[n].status)
  BY <1>1, StageIs, StageOfRoll DEF Turn, RollOK
<1>5. StageIn(c, rolls', scene'.acted) = IF c \in scene'.acted THEN "done" ELSE "ready"
  <2>1. \A k \in OpenIn(rolls') : rolls'[k].character # c
    BY <1>1, <1>2, <1>3
  <2> QED
    BY <2>1, StageWithoutRoll
<1>6. \A d \in Characters \ {c} :
          StageIn(d, rolls', scene'.acted) = StageIn(d, rolls, scene.acted)
  <2> SUFFICES ASSUME NEW d \in Characters \ {c}
               PROVE  StageIn(d, rolls', scene'.acted) = StageIn(d, rolls, scene.acted)
    OBVIOUS
  <2>1. OpenOf(d, rolls) = OpenOf(d, rolls')
    BY <1>1, <1>2, <1>3 DEF OpenOf
  <2>2. \A k \in OpenOf(d, rolls) : rolls'[k].status = rolls[k].status
    BY <1>2, <1>3, <2>1 DEF OpenOf
  <2> QED
    BY <1>1, <2>1, <2>2, StageOfOthers
<1> QED
  BY <1>1, <1>4, <1>5, <1>6, OneTurnMoves

LEMMA MovesOnTurn ==
    ASSUME Inv, MovesOn
    PROVE  /\ \A c \in Characters : Turn[c] \in {"ready", "done"}
           /\ Turn' = Turn \/ Turn' = [c \in Characters |-> "ready"]
<1>1. /\ OpenIn(rolls) = {} /\ rolls' = rolls /\ scene'.acted \in {{}, scene.acted}
  BY StageIs DEF MovesOn, HasOpenRolls
<1>2. \A c : StageIn(c, rolls, scene.acted) = IF c \in scene.acted THEN "done" ELSE "ready"
  BY <1>1, StageWithoutRoll
<1>3. \A c : StageIn(c, rolls', scene'.acted) = IF c \in scene'.acted THEN "done" ELSE "ready"
  BY <1>1, StageWithoutRoll
<1> QED
  BY <1>1, <1>2, <1>3, StageIs DEF Turn

LEMMA ElsewhereTurn ==
    ASSUME Elsewhere
    PROVE  Turn' = Turn
  BY StageIs DEF Elsewhere, SameRound, Turn

LEMMA StepRefines ==
    ASSUME Inv, OneOfSix, Inv'
    PROVE  [Round!Next]_Turn
<1>1. ASSUME NEW c, NEW r, Declares(c, r)
      PROVE  Round!Next
  <2>1. c \in Characters /\ Round!Declare(c)
    BY <1>1, DeclaresTurn DEF Round!Declare, Round!Move, Turn, OnlyTurn
  <2> QED
    BY <2>1 DEF Round!Next
<1>2. ASSUME NEW n, NEW r, Reviews(n, r)
      PROVE  Round!Next
  <2>1. PICK c : c = rolls[n].character
    OBVIOUS
  <2>2. /\ Becomes(n, r) /\ scene'.acted = scene.acted
        /\ rolls[n].status = "declared" /\ r.status = "awaiting_allocation"
    BY <1>2 DEF Reviews, SameRound
  <2>3. c \in Characters /\ Turn[c] = "declared" /\ OnlyTurn(c, "rolled")
    BY <2>1, <2>2, BecomesTurn DEF StageOf
  <2>4. Round!Roll(c)
    BY <2>3 DEF Round!Roll, Round!Move, Turn, OnlyTurn
  <2> QED
    BY <2>3, <2>4 DEF Round!Next
<1>3. ASSUME NEW n, NEW r, Allocates(n, r)
      PROVE  Round!Next
  <2>1. PICK c : c = rolls[n].character
    OBVIOUS
  <2>2. /\ Becomes(n, r) /\ scene'.acted = scene.acted \cup {c}
        /\ rolls[n].status = "awaiting_allocation"
        /\ r.status \in {"awaiting_injury_choice", "resolved"}
    BY <1>3, <2>1 DEF Allocates, Inv, RoundOK
  <2>3. /\ c \in Characters /\ Turn[c] = "rolled"
        /\ OnlyTurn(c, IF r.status # "resolved" THEN "hurt" ELSE "done")
    BY <2>1, <2>2, BecomesTurn DEF StageOf
  <2>4. Round!Finish(c) \/ Round!Suffer(c)
    BY <2>3 DEF Round!Finish, Round!Suffer, Round!Move, Turn, OnlyTurn
  <2> QED
    BY <2>3, <2>4 DEF Round!Next
<1>4. ASSUME NEW n, NEW r, Answers(n, r)
      PROVE  Round!Next
  <2>1. PICK c : c = rolls[n].character
    OBVIOUS
  <2>2. /\ Becomes(n, r) /\ scene'.acted = scene.acted
        /\ rolls[n].status = "awaiting_injury_choice" /\ r.status = "resolved"
    BY <1>4 DEF Answers, SameRound
  <2>3. c \in scene.acted
    BY <2>1, <2>2 DEF Inv, OpenRollsFitTheRound, Becomes
  <2>4. c \in Characters /\ Turn[c] = "hurt" /\ OnlyTurn(c, "done")
    BY <2>1, <2>2, <2>3, BecomesTurn DEF StageOf
  <2>5. Round!Answer(c)
    BY <2>4 DEF Round!Answer, Round!Move, Turn, OnlyTurn
  <2> QED
    BY <2>4, <2>5 DEF Round!Next
<1>5. ASSUME NEW n, Voids(n)
      PROVE  Round!Next
  <2>1. PICK c : c = rolls[n].character
    OBVIOUS
  <2>2. rolls[n].status \in {"declared", "awaiting_allocation", "awaiting_injury_choice"}
    BY <1>5 DEF Voids, Unresolved, Inv, RollsOK, RollOK, Statuses
  <2>3. /\ c \in Characters /\ Turn[c] = StageOf(rolls[n].status)
        /\ OnlyTurn(c, IF rolls[n].status = "awaiting_injury_choice" THEN "done" ELSE "ready")
    BY <1>5, <2>1, VoidsTurn
  <2>4. CASE rolls[n].status = "awaiting_injury_choice"
    BY <2>3, <2>4 DEF Round!Next, Round!Forfeit, Round!Move, Turn, OnlyTurn, StageOf
  <2>5. CASE rolls[n].status # "awaiting_injury_choice"
    BY <2>2, <2>3, <2>5 DEF Round!Next, Round!Void, Round!Move, Turn, OnlyTurn, StageOf
  <2> QED
    BY <2>4, <2>5
<1>6. CASE MovesOn
  <2>1. CASE Turn' = Turn
    BY <2>1
  <2>2. CASE Turn' = [c \in Characters |-> "ready"]
    BY <1>6, <2>2, MovesOnTurn DEF Round!Next, Round!NewRound, Turn
  <2> QED
    BY <1>6, <2>1, <2>2, MovesOnTurn
<1>7. CASE Elsewhere
  BY <1>7, ElsewhereTurn
<1> QED
  BY <1>1, <1>2, <1>3, <1>4, <1>5, <1>6, <1>7 DEF OneOfSix

\* The engine's rolls and its actedThisRound implement rounds of turns.
THEOREM ImplementsRounds == Spec => RefinesRoundOfTurns
<1>1. Init => Round!Init
  BY DEF Init, Round!Init, Stage, InStage, Unresolved, EmptyMap
<1>2. Inv /\ [Next]_vars /\ Inv' => [Round!Next]_Turn
  BY NextIsOneOfSix, StepRefines
<1> QED
  BY <1>1, <1>2, Invariance, PTL DEF Spec, RefinesRoundOfTurns, Round!Spec, Turn

-----------------------------------------------------------------------------
(* Secrets.                                                                *)

Shaped(threat) == "revealed" \in DOMAIN threat
ThreatsShaped == \A t \in DOMAIN threats : Shaped(threats[t])

\* What a command's shared copies may name.
Known == Revealed(threats) \cup Revealed(threats') \cup UNION {rolls[n].engaged : n \in Unresolved}

LEMMA CardsShaped == \A t \in ThreatIds : Shaped(NewThreat(t))
  BY ScenesAssumption DEF Shaped, NewThreat, ThreatType

LEMMA AfterShaped ==
    ASSUME NEW threat, Shaped(threat), NEW damage, NEW ratingLoss, NEW attackLoss, NEW struck,
           NEW bumped
    PROVE  Shaped(ThreatAfter(threat, damage, ratingLoss, attackLoss, struck, bumped))
  BY DEF Shaped, ThreatAfter

LEMMA ReinforcedShaped ==
    ASSUME NEW threat, Shaped(threat), NEW mode, NEW face
    PROVE  Shaped(Reinforcement(threat, mode, face))
  BY DEF Shaped, Reinforcement

LEMMA AllocateShares ==
    ASSUME Inv, ThreatsShaped, NEW m, NEW n \in DOMAIN rolls, NEW allocation, NEW face,
           AllocateResults(m, n, allocation, face)
    PROVE  ThreatsShaped' /\ disclosed' \subseteq Known
<1> DEFINE after == ThreatsAfter(rolls[n], allocation)
<1>1. /\ threats' = Update(threats, after)
      /\ disclosed' = SharedDeltas(DOMAIN after) \cup ({BumpedThreat(rolls[n])} \ {None})
      /\ n \in Unresolved /\ RollOK(rolls[n])
  BY DEF AllocateResults, Unresolved, Inv, RollsOK
<1>2. \A t \in DOMAIN after : t \in DOMAIN threats /\ Shaped(after[t])
  BY AfterShaped DEF ThreatsAfter, ThreatsShaped, BumpedThreat
<1>3. {BumpedThreat(rolls[n])} \ {None} \subseteq rolls[n].engaged
  BY <1>1 DEF BumpedThreat, RollOK
<1> HIDE DEF after
<1>4. ThreatsShaped'
  BY <1>1, <1>2 DEF ThreatsShaped, Update
<1> QED
  BY <1>1, <1>3, <1>4 DEF Known, SharedDeltas

LEMMA EditShares ==
    ASSUME ThreatsShaped, EditScene
    PROVE  ThreatsShaped' /\ disclosed' \subseteq Known
<1>1. CASE \E o, r, k : EditObjective(o, r, k)
  BY <1>1 DEF EditObjective, ThreatsShaped
<1>2. CASE \E t, r, a, k : EditThreat(t, r, a, k)
  BY <1>2 DEF EditThreat, ThreatsShaped, Shaped, SharedDeltas, Known
<1>3. ASSUME NEW os, NEW ts \in SUBSET ThreatIds, AddToScene(os, ts)
      PROVE  ThreatsShaped' /\ disclosed' \subseteq Known
  <2>1. /\ threats' = Update(threats, [t \in ts |-> NewThreat(t)])
        /\ disclosed' = Revealed([t \in ts |-> NewThreat(t)])
    BY <1>3 DEF AddToScene
  <2>2. ThreatsShaped'
    BY <2>1, CardsShaped DEF ThreatsShaped, Update
  <2> QED
    BY <2>1, <2>2 DEF Known, Revealed, Update
<1>4. ASSUME NEW os, NEW ts, RemoveFromScene(os, ts)
      PROVE  ThreatsShaped' /\ disclosed' \subseteq Known
  BY <1>4 DEF RemoveFromScene, ThreatsShaped, Without, SharedDeltas, Known
<1> QED
  BY <1>1, <1>2, <1>3, <1>4 DEF EditScene, EditNumbers

LEMMA TransitionShares ==
    ASSUME NEW next \in Scenes, SceneTransition(next)
    PROVE  ThreatsShaped' /\ disclosed' \subseteq Known
<1>1. /\ threats' = [t \in next.threats |-> NewThreat(t)] /\ disclosed' = Revealed(threats')
      /\ next.threats \subseteq ThreatIds
  BY ScenesAssumption DEF SceneTransition
<1> QED
  BY <1>1, CardsShaped DEF ThreatsShaped, Known

LEMMA PlayerShares ==
    ASSUME Inv, ThreatsShaped, NEW m \in Members, PlayerCommand(m)
    PROVE  ThreatsShaped' /\ disclosed' \subseteq Known
<1>1. CASE \E n \in DOMAIN rolls : \E allocation \in Allocations(rolls[n]), face \in Faces :
          AllocateResults(m, n, allocation, face)
  BY <1>1, AllocateShares
<1>2. CASE threats' = threats /\ disclosed' = {}
  BY <1>2 DEF ThreatsShaped
<1> QED
  BY <1>1, <1>2
     DEF PlayerCommand, ClaimCharacter, ReleaseCharacter, HealInjury, BeginAction,
         ChooseInjuryCategory, UseUtilityItem, board

LEMMA GmShares ==
    ASSUME Inv, ThreatsShaped, GmCommand
    PROVE  ThreatsShaped' /\ disclosed' \subseteq Known
<1>1. CASE threats' = threats /\ disclosed' \subseteq Revealed(threats)
  BY <1>1 DEF ThreatsShaped, Known
<1>2. CASE \E n, approved, engaged, primary, throw, attackThrow :
             ReviewAction(n, approved, engaged, primary, throw, attackThrow)
  BY <1>1, <1>2 DEF ReviewAction, ActiveRevealed, board
<1>3. CASE \E next \in Scenes : SceneTransition(next)
  BY <1>3, TransitionShares
<1>4. CASE \E faces \in [Reinforced -> ReinforcementFaces] : EndRound(faces)
  <2>1. PICK faces : /\ disclosed' = SharedDeltas(Reinforced)
                     /\ threats' = Update(threats, [t \in Reinforced |->
                          Reinforcement(threats[t], scene.mode, faces[t])])
    BY <1>4 DEF EndRound, RoundEnded
  <2>2. ThreatsShaped'
    BY <2>1, ReinforcedShaped DEF ThreatsShaped, Update, Reinforced
  <2> QED
    BY <2>1, <2>2 DEF SharedDeltas, Known
<1>5. CASE \E t \in ThreatIds : RevealThreat(t)
  <2>1. PICK t : /\ t \in DOMAIN threats /\ disclosed' = {t}
                 /\ threats' = [threats EXCEPT ![t].revealed = TRUE]
    BY <1>5 DEF RevealThreat, ThreatRevealed
  <2>2. ThreatsShaped' /\ threats'[t].revealed /\ t \in DOMAIN threats'
    BY <2>1 DEF ThreatsShaped, Shaped
  <2> QED
    BY <2>1, <2>2 DEF Known, Revealed
<1>6. CASE EditScene
  BY <1>6, EditShares
<1> QED
  BY <1>1, <1>2, <1>3, <1>4, <1>5, <1>6
     DEF GmCommand, VoidRoll, LoadScene, NextScene, EndMission, SetSceneRules,
         CorrectCharacter, GrantItem, UnlockAdvance, ReassignCharacter, board

LEMMA StepShares ==
    ASSUME Inv, ThreatsShaped, [Next]_vars
    PROVE  ThreatsShaped' /\ (disclosed' \subseteq Known \/ UNCHANGED vars)
<1>1. CASE UNCHANGED vars
  BY <1>1 DEF ThreatsShaped, vars
<1>2. CASE \E value \in BOOLEAN : SetPaused(value)
  BY <1>2 DEF SetPaused, board, ThreatsShaped
<1> QED
  BY <1>1, <1>2, PlayerShares, GmShares DEF Next

\* No shared copy of an event names a Threat the GM keeps hidden
\* (redactThreatsForShared and the filters beside it).
THEOREM SecretsKept == Spec => SharedCopiesKeepSecrets
<1>1. Init => ThreatsShaped
  BY DEF Init, ThreatsShaped, EmptyMap
<1>2. Inv /\ ThreatsShaped /\ [Next]_vars => ThreatsShaped'
  BY StepShares
<1>3. Inv /\ ThreatsShaped /\ [Next]_vars =>
        [disclosed' \subseteq Revealed(threats) \cup Revealed(threats')
                               \cup UNION {rolls[n].engaged : n \in Unresolved}]_vars
  BY StepShares DEF Known
<1> QED
  BY <1>1, <1>2, <1>3, Invariance, PTL DEF Spec, SharedCopiesKeepSecrets

-----------------------------------------------------------------------------
(* Rescues.                                                                *)

\* What Rescue(c) names is a rescue, and keeps its kind.
RescueKinds ==
    /\ \A o \in DOMAIN objectives : "kind" \in DOMAIN objectives[o]
    /\ \A c \in Characters :
          Rescue(c) \in DOMAIN objectives => objectives[Rescue(c)].kind = "rescue"

OpenRescue(o) == o \in DOMAIN objectives /\ objectives[o].status = "active"

RescueStands(c) ==
    OpenRescue(Rescue(c)) => /\ Rescue(c) \in DOMAIN objectives'
                             /\ objectives'[Rescue(c)] = objectives[Rescue(c)]

LEMMA AfterKeepsKind ==
    ASSUME NEW objective, "kind" \in DOMAIN objective, NEW points
    PROVE  /\ "kind" \in DOMAIN ObjectiveAfter(objective, points)
           /\ ObjectiveAfter(objective, points).kind = objective.kind
  BY DEF ObjectiveAfter

LEMMA RescueIfKinds ==
    ASSUME NEW before, NEW downed, NEW d,
           \A o \in DOMAIN before : "kind" \in DOMAIN before[o],
           \A c \in Characters : Rescue(c) \in DOMAIN before => before[Rescue(c)].kind = "rescue",
           objectives' = Update(before, RescueIf(downed, d))
    PROVE  RescueKinds'
  BY DEF RescueKinds, Update, RescueIf, RescueObjective

LEMMA TransitionRescues ==
    ASSUME RescueKinds, NEW next \in Scenes, SceneTransition(next)
    PROVE  RescueKinds' /\ \A c \in Characters : RescueStands(c)
<1>1. /\ DOMAIN objectives' = next.objectives \cup CarriedRescues
      /\ \A o \in CarriedRescues : objectives'[o] = objectives[o]
      /\ \A o \in next.objectives \ CarriedRescues : objectives'[o] = NewObjective(o)
  BY DEF SceneTransition
<1>2. next.objectives \subseteq ObjectiveIds /\ \A c \in Characters : Rescue(c) \notin ObjectiveIds
  BY ScenesAssumption
<1>3. RescueKinds'
  <2>1. \A o \in CarriedRescues :
           o \in DOMAIN objectives /\ "kind" \in DOMAIN objectives[o] /\ objectives[o].kind = "rescue"
    BY DEF CarriedRescues, RescueKinds
  <2>2. \A o : "kind" \in DOMAIN NewObjective(o)
    BY DEF NewObjective
  <2> QED
    BY <1>1, <1>2, <2>1, <2>2 DEF RescueKinds
<1>4. \A c \in Characters : OpenRescue(Rescue(c)) => Rescue(c) \in CarriedRescues
  BY DEF OpenRescue, CarriedRescues, RescueKinds
<1> QED
  BY <1>1, <1>3, <1>4 DEF RescueStands

LEMMA AllocateKinds ==
    ASSUME RescueKinds, NEW m, NEW n, NEW allocation, NEW face,
           AllocateResults(m, n, allocation, face)
    PROVE  RescueKinds'
<1> DEFINE after == ObjectivesAfter(rolls[n], allocation)
           before == Update(objectives, after)
<1>1. \E downed : objectives' = Update(before, RescueIf(downed, rolls[n].character))
  BY DEF AllocateResults
<1>2. \A o \in DOMAIN after : /\ o \in DOMAIN objectives /\ "kind" \in DOMAIN after[o]
                              /\ after[o].kind = objectives[o].kind
  BY AfterKeepsKind DEF RescueKinds, ObjectivesAfter
<1> HIDE DEF after
<1>3. /\ \A o \in DOMAIN before : "kind" \in DOMAIN before[o]
      /\ \A c \in Characters : Rescue(c) \in DOMAIN before => before[Rescue(c)].kind = "rescue"
  BY <1>2 DEF RescueKinds, Update
<1> HIDE DEF before
<1> QED
  BY <1>1, <1>3, RescueIfKinds

LEMMA EditKinds ==
    ASSUME RescueKinds, EditScene
    PROVE  RescueKinds'
<1>1. CASE \E o, r, k : EditObjective(o, r, k)
  BY <1>1 DEF EditObjective, RescueKinds
<1>2. CASE \E t, r, a, k : EditThreat(t, r, a, k)
  BY <1>2 DEF EditThreat, RescueKinds
<1>3. ASSUME NEW os \in SUBSET ObjectiveIds, NEW ts, AddToScene(os, ts)
      PROVE  RescueKinds'
  <2>1. objectives' = Update(objectives, [o \in os |-> NewObjective(o)])
    BY <1>3 DEF AddToScene
  <2>2. \A o : "kind" \in DOMAIN NewObjective(o)
    BY DEF NewObjective
  <2> QED
    BY <2>1, <2>2, ScenesAssumption DEF RescueKinds, Update
<1>4. ASSUME NEW os, NEW ts, RemoveFromScene(os, ts)
      PROVE  RescueKinds'
  BY <1>4 DEF RemoveFromScene, RescueKinds, Without
<1> QED
  BY <1>1, <1>2, <1>3, <1>4 DEF EditScene, EditNumbers

\* The commands of the GM that leave the Objectives to the scene.
LEMMA GmOnObjectives ==
    ASSUME GmCommand
    PROVE  \/ \E next \in Scenes : ~HasOpenRolls /\ SceneTransition(next)
           \/ EditScene
           \/ objectives' = objectives
<1>1. ASSUME NEW n, NEW approved, NEW engaged, NEW primary, NEW throw, NEW attackThrow,
             ReviewAction(n, approved, engaged, primary, throw, attackThrow)
      PROVE  objectives' = objectives
  BY <1>1 DEF ReviewAction, board
<1>2. ASSUME NEW n, VoidRoll(n)
      PROVE  objectives' = objectives
  BY <1>2 DEF VoidRoll, board
<1>3. ASSUME NEW faces, EndRound(faces)
      PROVE  objectives' = objectives
  BY <1>3 DEF EndRound
<1>4. ASSUME NEW c, NEW patch, CorrectCharacter(c, patch)
      PROVE  objectives' = objectives
  BY <1>4 DEF CorrectCharacter, board
<1>5. ASSUME NEW c, NEW x, GrantItem(c, x) \/ UnlockAdvance(c, x) \/ ReassignCharacter(c, x)
      PROVE  objectives' = objectives
  BY <1>5 DEF GrantItem, UnlockAdvance, ReassignCharacter, board
<1>6. ASSUME NEW x, EndMission(x) \/ RevealThreat(x) \/ SetSceneRules(x)
      PROVE  objectives' = objectives
  BY <1>6 DEF EndMission, RevealThreat, SetSceneRules
<1>7. ASSUME NEW next \in Scenes, NEW reason, LoadScene(next) \/ NextScene(next, reason)
      PROVE  ~HasOpenRolls /\ SceneTransition(next)
  BY <1>7 DEF LoadScene, NextScene
<1> QED
  BY <1>1, <1>2, <1>3, <1>4, <1>5, <1>6, <1>7 DEF GmCommand

\* Only an allocation, a choice of category, an edit and a new scene touch the
\* Objectives.
LEMMA StepKinds ==
    ASSUME RescueKinds, [Next]_vars
    PROVE  RescueKinds'
<1>1. CASE objectives' = objectives
  BY <1>1 DEF RescueKinds
<1>2. ASSUME NEW m \in Members, PlayerCommand(m)
      PROVE  RescueKinds'
  <2>1. CASE \E n \in DOMAIN rolls : \E allocation \in Allocations(rolls[n]), face \in Faces :
               AllocateResults(m, n, allocation, face)
    BY <2>1, AllocateKinds
  <2>2. CASE \E n \in DOMAIN rolls, k \in Categories : ChooseInjuryCategory(m, n, k)
    <3>1. \E d, downed : objectives' = Update(objectives, RescueIf(downed, d))
      BY <2>2 DEF ChooseInjuryCategory, InjuryCategoryChosen
    <3> QED
      BY <3>1, RescueIfKinds DEF RescueKinds
  <2> QED
    BY <1>1, <1>2, <2>1, <2>2
       DEF PlayerCommand, ClaimCharacter, ReleaseCharacter, HealInjury, BeginAction,
           UseUtilityItem, board
<1>3. CASE GmCommand
  <2>1. CASE \E next \in Scenes : SceneTransition(next)
    BY <2>1, TransitionRescues
  <2>2. CASE EditScene
    BY <2>2, EditKinds
  <2> QED
    BY <1>1, <1>3, <2>1, <2>2, GmOnObjectives
<1> QED
  BY <1>1, <1>2, <1>3 DEF Next, SetPaused, board, vars

\* A round's list of who acted only grows by a character who had not acted.
LEMMA AllocateActs ==
    ASSUME Inv, NEW m \in Members, NEW n \in DOMAIN rolls, NEW allocation, NEW face,
           AllocateResults(m, n, allocation, face)
    PROVE  ~(scene'.acted \subseteq scene.acted)
<1>1. PICK r : Allocates(n, r)
  BY AllocateAllocates
<1>2. /\ n \in Unresolved /\ rolls[n].status = "awaiting_allocation"
      /\ scene' = [scene EXCEPT !.acted = @ \cup {rolls[n].character}]
  BY <1>1 DEF Allocates, Becomes
<1>3. rolls[n].character \notin scene.acted
  BY <1>2 DEF Inv, OpenRollsFitTheRound
<1> QED
  BY <1>2, <1>3 DEF Inv, RoundOK

LEMMA StepRescues ==
    ASSUME Inv, RescueKinds, [Next]_vars, scene' # scene, scene'.acted \subseteq scene.acted
    PROVE  \A c \in Characters : RescueStands(c)
<1>1. CASE objectives' = objectives
  BY <1>1 DEF RescueStands, OpenRescue
<1>2. ASSUME NEW m \in Members, PlayerCommand(m)
      PROVE  FALSE
  BY <1>2, AllocateActs
     DEF PlayerCommand, ClaimCharacter, ReleaseCharacter, HealInjury, BeginAction,
         ChooseInjuryCategory, UseUtilityItem, board
<1>3. CASE GmCommand
  <2>1. CASE \E next \in Scenes : SceneTransition(next)
    BY <2>1, TransitionRescues
  <2>2. CASE EditScene
    BY <2>2 DEF EditScene
  <2> QED
    BY <1>1, <1>3, <2>1, <2>2, GmOnObjectives
<1> QED
  BY <1>1, <1>2, <1>3 DEF Next, SetPaused, board, vars

\* However many scenes, rounds and missions end, none loses or restarts the open
\* rescue of a Downed character (carriedRescueObjectives).
THEOREM RescuesStand == Spec => RescuesOutliveScenes
<1>1. Init => RescueKinds
  BY DEF Init, RescueKinds, EmptyMap
<1>2. RescueKinds /\ [Next]_vars => RescueKinds'
  BY StepKinds
<1>3. Inv /\ RescueKinds /\ [Next]_vars =>
        [scene' # scene /\ scene'.acted \subseteq scene.acted => \A c \in Characters :
            Rescue(c) \in DOMAIN objectives /\ objectives[Rescue(c)].status = "active"
                => /\ Rescue(c) \in DOMAIN objectives'
                   /\ objectives'[Rescue(c)] = objectives[Rescue(c)]]_vars
  BY StepRescues DEF RescueStands, OpenRescue
<1> QED
  BY <1>1, <1>2, <1>3, Invariance, PTL DEF Spec, RescuesOutliveScenes

-----------------------------------------------------------------------------
(* What the rules compute.                                                 *)

LEMMA SumOfIs == ASSUME NEW w, NEW S PROVE SumOf(w, S) = Total(w, S)
  BY DEF SumOf, Total

LEMMA FloorNat == ASSUME NEW n \in Int PROVE Floor0(n) \in Nat
  BY DEF Floor0

LEMMA CapIn == ASSUME NEW bound \in Nat, NEW n \in Nat PROVE AtMost(bound, n) \in 0..bound
  BY DEF AtMost

LEMMA StatBaseNat ==
    ASSUME NEW c \in Characters, NEW marked, NEW stat \in StatChoices \cup {"none"}
    PROVE  StatBase(c, marked, stat) \in Nat
<1> DEFINE raw == IF stat = "none" THEN 2 ELSE Kit[c].stats[stat]
           delta == [k \in Categories |-> StatDelta(Kit[c].penalty[k], stat)]
           S == ActivePenalties(marked)
<1>1. raw \in Int /\ \A k \in Categories : StatDelta(Kit[c].penalty[k], stat) \in Int
  BY RosterAssumption
<1>2. S \subseteq Categories /\ IsFiniteSet(S)
  <2>1. S \subseteq 1..3
    BY DEF ActivePenalties, Categories
  <2>2. \A n \in Int : IsFiniteSet(1..n)
    BY FS_Interval
  <2> QED
    BY <2>1, <2>2, FS_Subset DEF Categories
<1>3. \A k \in S : delta[k] \in Int
  BY <1>1, <1>2
<1>4. StatBase(c, marked, stat) = Floor0(raw + SumOf(delta, S))
  BY DEF StatBase
<1> HIDE DEF raw, delta, S
<1>5. SumOf(delta, S) \in Int
  BY <1>2, <1>3, SumInt, SumOfIs
<1> QED
  BY <1>1, <1>4, <1>5, FloorNat

LEMMA BloodCostNat ==
    ASSUME NEW powers \in SUBSET Abilities
    PROVE  BloodCost(powers) \in Nat
<1> DEFINE cost == [a \in powers |->
                      IF Powers[a].trigger = "blood" THEN Powers[a].bloodCost ELSE 0]
<1>1. IsFiniteSet(powers)
  BY RulesAssumption, FS_Subset
<1>2. \A a \in powers : cost[a] \in Nat
  BY RosterAssumption
<1>3. BloodCost(powers) = SumOf(cost, powers)
  BY DEF BloodCost
<1> HIDE DEF cost
<1> QED
  BY <1>1, <1>2, <1>3, SumNat, SumOfIs

LEMMA BonusInt ==
    ASSUME NEW c \in Characters, NEW s, s.items \subseteq Items,
           NEW approved \in SUBSET (Items \cup Abilities)
    PROVE  BonusDice(c, s, approved) \in Int
<1> DEFINE plus == [x \in approved |-> IF x \in s.items THEN Gear[x].plus
                      ELSE IF x \in Kit[c].abilities THEN Powers[x].plus ELSE 0]
<1>1. IsFiniteSet(approved)
  BY RulesAssumption, FS_Subset, FS_Union
<1>2. \A x \in approved : plus[x] \in Int
  BY RosterAssumption
<1>3. BonusDice(c, s, approved) = 0 \/ BonusDice(c, s, approved) = SumOf(plus, approved)
  BY DEF BonusDice
<1> HIDE DEF plus
<1> QED
  BY <1>1, <1>2, <1>3, SumInt, SumOfIs

LEMMA PoolInt ==
    ASSUME NEW c \in Characters, NEW s, s.items \subseteq Items,
           NEW stat \in StatChoices \cup {"none"}, NEW items \in SUBSET Items,
           NEW powers \in SUBSET Abilities, NEW approved \in SUBSET (Items \cup Abilities)
    PROVE  PoolSize(c, s, stat, items, powers, approved) \in Int
<1>1. /\ IsFiniteSet(items) /\ IsFiniteSet(powers)
      /\ LastUses(s, items) \in SUBSET items
  BY RulesAssumption, FS_Subset DEF LastUses
<1>2. IsFiniteSet(LastUses(s, items))
  BY <1>1, FS_Subset
<1>3. /\ Cardinality(items) \in Nat /\ Cardinality(powers) \in Nat
      /\ Cardinality(LastUses(s, items)) \in Nat
  BY <1>1, <1>2, FS_CardinalityType
<1>4. StatBase(c, s.marked, stat) \in Nat /\ BonusDice(c, s, approved) \in Int
  BY StatBaseNat, BonusInt
<1> QED
  BY <1>3, <1>4 DEF PoolSize

\* A count below one throws no die.
LEMMA NoFewerThanNone ==
    ASSUME NEW count \in Int
    PROVE  Floor0(count) \in Nat /\ Throws(count) = Throws(Floor0(count))
<1>1. 1..count = 1..Floor0(count)
  BY DEF Floor0
<1> QED
  BY <1>1, FloorNat DEF Throws

\* A throw of so many dice.
LEMMA ThrowIs ==
    ASSUME NEW count \in Nat, NEW throw \in Throws(count)
    PROVE  /\ throw \in Seq(1..6) /\ Len(throw) = count /\ DOMAIN throw = 1..count
           /\ IsFiniteSet(DOMAIN throw)
           /\ \A i, j \in 1..count : i <= j => throw[i] <= throw[j]
<1>1. throw \in [1..count -> 1..6]
  BY RulesAssumption DEF Throws
<1>2. IsFiniteSet(1..count)
  BY FS_Interval
<1> QED
  BY <1>1, <1>2 DEF Throws

LEMMA OnesNat ==
    ASSUME NEW count \in Nat, NEW throw \in Throws(count)
    PROVE  Ones(throw) \in Nat
<1>1. IsFiniteSet({i \in DOMAIN throw : throw[i] = 1})
  BY ThrowIs, FS_Subset
<1> QED
  BY <1>1, FS_CardinalityType DEF Ones

LEMMA PassiveNat ==
    ASSUME NEW c \in Characters, NEW kind
    PROVE  PassiveSum(c, kind) \in Nat
<1> DEFINE passive == {a \in Kit[c].abilities :
                         Powers[a].trigger = "passive" /\ Powers[a].effect = kind}
           amount == [a \in passive |-> Powers[a].amount]
<1>1. passive \in SUBSET Abilities
  BY RosterAssumption
<1>2. IsFiniteSet(passive) /\ \A a \in passive : amount[a] \in Nat
  BY <1>1, RosterAssumption, RulesAssumption, FS_Subset
<1>3. PassiveSum(c, kind) = SumOf(amount, passive)
  BY DEF PassiveSum
<1> HIDE DEF amount, passive
<1> QED
  BY <1>2, <1>3, SumNat, SumOfIs

LEMMA SuccessesNat ==
    ASSUME NEW count \in Nat, NEW throw \in Throws(count), NEW critOnSix
    PROVE  AttackSuccesses(throw, critOnSix) \in Nat
<1> DEFINE worth == [i \in DOMAIN throw |-> InterpretAttackDie(throw[i], critOnSix)]
           S == DOMAIN throw
<1>1. IsFiniteSet(S) /\ \A i \in S : worth[i] \in Nat
  BY ThrowIs DEF InterpretAttackDie
<1>2. AttackSuccesses(throw, critOnSix) = SumOf(worth, S)
  BY DEF AttackSuccesses
<1> HIDE DEF worth, S
<1> QED
  BY <1>1, <1>2, SumNat, SumOfIs

LEMMA DefenceNat ==
    ASSUME NEW c \in Characters, NEW count \in Nat, NEW throw \in Throws(count)
    PROVE  PassiveDefence(c, throw) \in Nat /\ PassiveBlood(c, throw) \in Nat
<1>1. Ones(throw) \in Nat /\ \A kind : PassiveSum(c, kind) \in Nat
  BY OnesNat, PassiveNat
<1>2. \A a, b \in Nat : a * b \in Nat
  OBVIOUS
<1> QED
  BY <1>1, <1>2 DEF PassiveDefence, PassiveBlood

\* The kept dice of a throw in ascending order are its last ones.
LEMMA KeptIs ==
    ASSUME NEW count \in Nat, NEW throw \in Throws(count), NEW below \in 4..6
    PROVE  KeptDice(throw, below) \in Seq({"success", "critical"})
<1> DEFINE kept == {i \in DOMAIN throw : InterpretDie(throw[i], below) # "discard"}
           n == Cardinality(kept)
           discarded == count - n
<1>1. /\ \A i \in 1..count : throw[i] \in 1..6
      /\ \A i, j \in 1..count : i <= j => throw[i] <= throw[j]
      /\ Len(throw) = count /\ DOMAIN throw = 1..count
  BY ThrowIs
<1>2. /\ \A i \in 1..count : i \in kept <=> throw[i] >= below
      /\ kept \subseteq 1..count
  BY <1>1 DEF InterpretDie
<1>3. IsFiniteSet(1..count) /\ Cardinality(1..count) = count
  BY FS_Interval
<1>4. IsFiniteSet(kept) /\ n \in Nat /\ n <= count
  BY <1>2, <1>3, FS_Subset, FS_CardinalityType
<1> HIDE DEF kept
<1>5. ASSUME NEW i \in 1..n
      PROVE  discarded + i \in kept
  <2>1. discarded + i \in 1..count
    BY <1>4
  <2>2. SUFFICES ASSUME discarded + i \notin kept
                 PROVE  FALSE
    OBVIOUS
  <2>3. \A j \in kept : j > discarded + i
    BY <1>1, <1>2, <2>1, <2>2
  <2>4. PICK low \in Int : low = discarded + i + 1
    BY <1>4
  <2>5. kept \subseteq low..count
    BY <1>2, <1>4, <2>3, <2>4
  <2>6. /\ IsFiniteSet(low..count)
        /\ Cardinality(low..count) = IF low > count THEN 0 ELSE count - low + 1
    BY FS_Interval
  <2>7. n <= Cardinality(low..count)
    BY <2>5, <2>6, FS_Subset
  <2>8. Cardinality(low..count) = count - low + 1
    BY <2>1, <2>4, <2>6
  <2> QED
    BY <1>4, <2>4, <2>7, <2>8
<1>6. \A i \in 1..n : InterpretDie(throw[discarded + i], below) \in {"success", "critical"}
  BY <1>5 DEF kept, InterpretDie
<1>7. KeptDice(throw, below) = [i \in 1..n |-> InterpretDie(throw[discarded + i], below)]
  BY <1>1 DEF KeptDice, kept
<1> HIDE DEF n, discarded
<1> QED
  BY <1>4, <1>6, <1>7

ThreatsOK ==
    DOMAIN threats \subseteq ThreatIds /\ \A t \in DOMAIN threats : threats[t] \in ThreatType

LEMMA AttackDiceInt ==
    ASSUME ThreatsOK, NEW engaged
    PROVE  AttackDice(threats, engaged) \in Int
<1> DEFINE met == engaged \cap DOMAIN threats
           attacks == {EffectiveAttack(threats[t]) : t \in met}
           inPlay == {t \in DOMAIN threats :
                        threats[t].status = "active" /\ threats[t].rating > 0}
<1>1. IsFiniteSet(DOMAIN threats) /\ met \in SUBSET (DOMAIN threats)
      /\ inPlay \in SUBSET (DOMAIN threats)
  BY RulesAssumption, FS_Subset DEF ThreatsOK
<1>2. IsFiniteSet(met) /\ IsFiniteSet(inPlay)
  BY <1>1, FS_Subset
<1>3. IsFiniteSet(attacks)
  <2> DEFINE w == [t \in met |-> EffectiveAttack(threats[t])]
  <2>1. attacks = {w[t] : t \in met}
    OBVIOUS
  <2> HIDE DEF w, attacks, met
  <2> QED
    BY <1>2, <2>1, FiniteImage
<1>4. attacks \in SUBSET Int
  BY DEF EffectiveAttack, ThreatsOK, ThreatType
<1>5. met # {} => attacks # {}
  OBVIOUS
<1>6. AttackDice(threats, engaged) =
        IF met = {} THEN 0 ELSE Max(attacks) + Floor0(Cardinality(inPlay) - 1)
  BY DEF AttackDice
<1> HIDE DEF met, attacks, inPlay
<1>7. Cardinality(inPlay) \in Nat
  BY <1>2, FS_CardinalityType
<1>8. met # {} => Max(attacks) \in attacks
  BY <1>3, <1>4, <1>5, Greatest
<1>9. Floor0(Cardinality(inPlay) - 1) \in Nat
  BY <1>7, FloorNat
<1>10. met # {} => Max(attacks) \in Int
  BY <1>4, <1>8
<1> QED
  BY <1>6, <1>9, <1>10

LEMMA DiscardIn ==
    ASSUME ThreatsOK, NEW engaged \in SUBSET (DOMAIN threats)
    PROVE  DiscardBelow(threats, engaged) \in 4..6
<1> DEFINE limits == {threats[t].discardBelow : t \in engaged}
           all == {4} \cup limits
<1>1. IsFiniteSet(engaged)
  <2>1. engaged \in SUBSET ThreatIds
    BY DEF ThreatsOK
  <2> QED
    BY <2>1, RulesAssumption, FS_Subset
<1>2. IsFiniteSet(limits)
  <2> DEFINE w == [t \in engaged |-> threats[t].discardBelow]
  <2>1. limits = {w[t] : t \in engaged}
    OBVIOUS
  <2> HIDE DEF w, limits
  <2> QED
    BY <1>1, <2>1, FiniteImage
<1>3. IsFiniteSet(all)
  BY <1>2, FS_AddElement
<1>4. all \in SUBSET (4..6) /\ all \in SUBSET Int /\ all # {}
  BY DEF ThreatsOK, ThreatType
<1>5. DiscardBelow(threats, engaged) = Max(all)
  BY DEF DiscardBelow
<1> HIDE DEF all, limits
<1>6. Max(all) \in all
  BY <1>3, <1>4, Greatest
<1> QED
  BY <1>4, <1>5, <1>6

-----------------------------------------------------------------------------
(* What an allocation does.                                                *)

\* An allocation spends the kept dice of a roll, SPECIALs on abilities.
Spends(allocation, kept) ==
    /\ kept \in Seq({"success", "critical"}) /\ DOMAIN allocation = DOMAIN kept
    /\ \A i \in DOMAIN kept : allocation[i].kind = "special" => allocation[i].id \in Abilities

LEMMA DiceFinite ==
    ASSUME NEW allocation, NEW kept, Spends(allocation, kept)
    PROVE  IsFiniteSet(DOMAIN allocation)
<1>1. DOMAIN allocation = 1..Len(kept) /\ Len(kept) \in Nat
  BY DEF Spends
<1> QED
  BY <1>1, FS_Interval

LEMMA PointsNat ==
    ASSUME NEW allocation, NEW kept, Spends(allocation, kept), NEW target
    PROVE  PointsOn(kept, allocation, target) \in Nat
<1> DEFINE points == [i \in DOMAIN kept |-> Points(kept[i])]
           S == DiceOn(allocation, target)
<1>1. S \in SUBSET (DOMAIN kept) /\ IsFiniteSet(DOMAIN kept)
  BY DiceFinite DEF DiceOn, Spends
<1>2. IsFiniteSet(S) /\ \A i \in S : points[i] \in Nat
  BY <1>1, FS_Subset DEF Points
<1>3. PointsOn(kept, allocation, target) = SumOf(points, S)
  BY DEF PointsOn
<1> HIDE DEF points, S
<1> QED
  BY <1>2, <1>3, SumNat, SumOfIs

LEMMA SpecialNat ==
    ASSUME NEW allocation, NEW kept, Spends(allocation, kept), NEW effect
    PROVE  SpecialSum(allocation, effect) \in Nat
<1> DEFINE S == {i \in DOMAIN allocation :
                   allocation[i].kind = "special" /\ Powers[allocation[i].id].effect = effect}
           amount == [i \in S |-> Powers[allocation[i].id].amount]
<1>1. S \in SUBSET (DOMAIN allocation) /\ \A i \in S : allocation[i].id \in Abilities
  BY DEF Spends
<1>2. IsFiniteSet(S) /\ \A i \in S : amount[i] \in Nat
  BY <1>1, DiceFinite, FS_Subset, RosterAssumption
<1>3. SpecialSum(allocation, effect) = SumOf(amount, S)
  BY DEF SpecialSum
<1> HIDE DEF amount, S
<1> QED
  BY <1>2, <1>3, SumNat, SumOfIs

LEMMA ObjectiveAfterType ==
    ASSUME NEW objective \in ObjectiveType, NEW points \in Nat
    PROVE  ObjectiveAfter(objective, points) \in ObjectiveType
<1>1. objective.rating - ChallengeDamage(points, objective.challenge) \in Int
  BY DEF ObjectiveType, ChallengeDamage, Floor0
<1>2. PICK rating \in Int :
        rating = Floor0(objective.rating - ChallengeDamage(points, objective.challenge))
  BY <1>1, FloorNat
<1> QED
  BY <1>2 DEF ObjectiveAfter, ObjectiveType

LEMMA ThreatAfterType ==
    ASSUME NEW threat \in ThreatType, NEW damage \in Nat, NEW ratingLoss \in Nat,
           NEW attackLoss \in Nat, NEW struck \in BOOLEAN, NEW bumped \in BOOLEAN
    PROVE  ThreatAfter(threat, damage, ratingLoss, attackLoss, struck, bumped) \in ThreatType
<1> DEFINE rating == IF struck THEN Floor0(threat.rating - damage - ratingLoss)
                               ELSE threat.rating
           held == IF struck /\ rating <= 0 THEN 0
                   ELSE IF ratingLoss + attackLoss > 0 THEN Floor0(threat.attack - attackLoss)
                   ELSE threat.attack
<1>1. /\ threat.rating \in Int /\ threat.attack \in Int
      /\ threat.rating - damage - ratingLoss \in Int /\ threat.attack - attackLoss \in Int
  BY DEF ThreatType
<1>2. rating \in Int /\ held \in Int
  BY <1>1, FloorNat
<1>3. ThreatAfter(threat, damage, ratingLoss, attackLoss, struck, bumped) =
        [threat EXCEPT !.rating = rating, !.attack = IF bumped THEN held + 1 ELSE held,
                       !.status = IF rating > 0 THEN "active"
                                  ELSE IF threat.elite THEN "removed" ELSE "beaten"]
  BY DEF ThreatAfter
<1> HIDE DEF rating, held
<1>4. threat.elite \in BOOLEAN /\ (IF bumped THEN held + 1 ELSE held) \in Int
  BY <1>2 DEF ThreatType
<1> QED
  BY <1>2, <1>3, <1>4 DEF ThreatType

LEMMA ReinforcementType ==
    ASSUME NEW threat \in ThreatType, NEW mode, NEW face \in 1..6
    PROVE  Reinforcement(threat, mode, face) \in ThreatType
<1>1. /\ threat.startingAttack \div 2 \in Int /\ threat.attack + 1 \in Int
      /\ threat.rating + face \in Int /\ face \in Int
  BY DEF ThreatType
<1> DEFINE half == threat.startingAttack \div 2
           more == threat.attack + 1
           higher == threat.rating + face
<1>2. half \in Int /\ more \in Int /\ higher \in Int
  BY <1>1
<1>3. Reinforcement(threat, mode, face) \in
        {[threat EXCEPT !.rating = face, !.attack = half, !.status = "active"],
         [threat EXCEPT !.attack = more],
         [threat EXCEPT !.rating = 0, !.attack = 0, !.status = "removed"],
         [threat EXCEPT !.rating = higher]}
  BY DEF Reinforcement
<1> HIDE DEF half, more, higher
<1>4. [threat EXCEPT !.rating = face, !.attack = half, !.status = "active"] \in ThreatType
  BY <1>1, <1>2 DEF ThreatType
<1>5. [threat EXCEPT !.attack = more] \in ThreatType
  BY <1>2 DEF ThreatType
<1>6. [threat EXCEPT !.rating = 0, !.attack = 0, !.status = "removed"] \in ThreatType
  <2>1. PICK none \in Int : none = 0
    OBVIOUS
  <2>2. [threat EXCEPT !.rating = none, !.attack = none, !.status = "removed"] \in ThreatType
    BY DEF ThreatType
  <2> QED
    BY <2>1, <2>2
<1>7. [threat EXCEPT !.rating = higher] \in ThreatType
  BY <1>2 DEF ThreatType
<1> QED
  BY <1>3, <1>4, <1>5, <1>6, <1>7

-----------------------------------------------------------------------------
(* The sheets.                                                             *)

SheetOK(s) == s \in SheetType /\ \A i \in Items : s.uses[i] \in UsesLeft(i)

SheetsOK == DOMAIN sheet = Characters /\ sheet = [c \in Characters |-> sheet[c]]
              /\ \A c \in Characters : SheetOK(sheet[c])

LEMMA SheetReplaced ==
    ASSUME SheetsOK, NEW c \in Characters, NEW s, SheetOK(s),
           sheet' = [sheet EXCEPT ![c] = s]
    PROVE  SheetsOK'
  BY DEF SheetsOK

\* A use spent and uses given back stay among those an item may have left.
LEMMA UsesStay ==
    ASSUME NEW i \in Items, NEW left \in UsesLeft(i)
    PROVE  /\ left \in Int /\ Gear[i].maxUses \in Int /\ Gear[i].maxUses \in UsesLeft(i)
           /\ left > 0 => left - 1 \in UsesLeft(i) /\ Floor0(left - 1) = left - 1
           /\ \A more \in Nat : AtMost(Gear[i].maxUses, left + more) \in UsesLeft(i)
<1>1. Gear[i].maxUses \in Int
  BY RosterAssumption
<1>2. left = Gear[i].maxUses \/ left \in 0..Gear[i].maxUses
  BY DEF UsesLeft
<1> QED
  BY <1>1, <1>2 DEF UsesLeft, AtMost, Floor0

\* Blood and uses within their caps, boxes of the sheet.
LEMMA SheetPlayed ==
    ASSUME NEW s, SheetOK(s), NEW blood \in 0..MaxBlood, NEW uses \in [Items -> Int],
           \A i \in Items : uses[i] \in UsesLeft(i), NEW marked \in SUBSET Boxes,
           NEW downed \in BOOLEAN
    PROVE  /\ SheetOK([s EXCEPT !.blood = blood]) /\ SheetOK([s EXCEPT !.uses = uses])
           /\ SheetOK([s EXCEPT !.marked = marked]) /\ SheetOK([s EXCEPT !.downed = downed])
  BY DEF SheetOK, SheetType

LEMMA ClaimSheets ==
    ASSUME SheetsOK, NEW c \in Characters, NEW m \in Members \cup {None},
           sheet' = [sheet EXCEPT ![c].claimedBy = m]
    PROVE  SheetsOK'
<1>1. SheetOK([sheet[c] EXCEPT !.claimedBy = m])
  BY DEF SheetsOK, SheetOK, SheetType
<1>2. sheet' = [sheet EXCEPT ![c] = [sheet[c] EXCEPT !.claimedBy = m]]
  OBVIOUS
<1> QED
  BY <1>1, <1>2, SheetReplaced

LEMMA HealSheets ==
    ASSUME SheetsOK, NEW c \in Characters, NEW box, InjuryHealed(c, box)
    PROVE  SheetsOK'
<1> DEFINE s == [sheet[c] EXCEPT !.marked = @ \ {box}, !.blood = Floor0(@ - HealCost)]
<1>1. SheetOK(sheet[c]) /\ sheet[c].blood \in 0..MaxBlood
  BY DEF SheetsOK, SheetOK, SheetType
<1>2. Floor0(sheet[c].blood - HealCost) \in 0..MaxBlood
  BY <1>1, RulesAssumption DEF Floor0
<1>3. SheetOK(s)
  BY <1>1, <1>2 DEF SheetOK, SheetType
<1>4. sheet' = [sheet EXCEPT ![c] = s]
  BY DEF InjuryHealed
<1> QED
  BY <1>3, <1>4, SheetReplaced

LEMMA ChargeSheets ==
    ASSUME SheetsOK, NEW n, NEW rolled, rolled.character \in Characters, rolled.spent \in Nat,
           \A i \in rolled.charged \cap Items : sheet[rolled.character].uses[i] > 0,
           NEW gained \in Nat, ActionRolled(n, rolled, gained)
    PROVE  SheetsOK'
<1> DEFINE c == rolled.character
           uses == [i \in Items |-> IF i \in rolled.charged THEN Floor0(sheet[c].uses[i] - 1)
                                                            ELSE sheet[c].uses[i]]
           blood == AtMost(MaxBlood, Floor0(sheet[c].blood - rolled.spent + gained))
           s == [sheet[c] EXCEPT !.uses = uses, !.blood = blood]
<1>1. /\ SheetOK(sheet[c]) /\ sheet[c].blood \in Nat /\ sheet[c].uses \in [Items -> Int]
      /\ \A i \in Items : sheet[c].uses[i] \in UsesLeft(i) /\ Gear[i].maxUses \in Int
  BY RosterAssumption, RulesAssumption DEF SheetsOK, SheetOK, SheetType
<1>2. blood \in 0..MaxBlood
  <2>1. sheet[c].blood - rolled.spent + gained \in Int
    BY <1>1
  <2>2. Floor0(sheet[c].blood - rolled.spent + gained) \in Nat
    BY <2>1, FloorNat
  <2> QED
    BY <2>2, RulesAssumption, CapIn
<1>3. uses \in [Items -> Int] /\ \A i \in Items : uses[i] \in UsesLeft(i)
  <2>1. ASSUME NEW i \in Items
        PROVE  uses[i] \in Int /\ uses[i] \in UsesLeft(i)
    <3>1. sheet[c].uses[i] \in UsesLeft(i) /\ (i \in rolled.charged => sheet[c].uses[i] > 0)
      BY <1>1
    <3> QED
      BY <3>1, UsesStay
  <2> QED
    BY <2>1
<1>4. sheet' = [sheet EXCEPT ![c] = s]
  BY DEF ActionRolled
<1> HIDE DEF uses, blood
<1>5. SheetOK(s)
  BY <1>1, <1>2, <1>3 DEF SheetOK, SheetType
<1> QED
  BY <1>4, <1>5, SheetReplaced

LEMMA MarkedBoxes ==
    ASSUME NEW marked, NEW k, NEW whole, NEW count
    PROVE  BoxesToMark(marked, k, whole) \subseteq Boxes /\ FirstMarked(marked, count) \subseteq marked
  BY DEF BoxesToMark, OpenBoxes, FirstMarked

LEMMA RestoredNat ==
    ASSUME NEW allocation, NEW kept, Spends(allocation, kept), NEW i,
           NEW S, S = {d \in DOMAIN allocation :
                         /\ allocation[d].kind = "special"
                         /\ Powers[allocation[d].id].effect = "restoreItemUse"
                         /\ Powers[allocation[d].id].item = i}
    PROVE  SumOf([d \in S |-> Powers[allocation[d].id].amount], S) \in Nat
<1> DEFINE amount == [d \in S |-> Powers[allocation[d].id].amount]
<1>1. S \in SUBSET (DOMAIN allocation) /\ \A d \in S : allocation[d].id \in Abilities
  BY DEF Spends
<1>2. IsFiniteSet(S) /\ \A d \in S : amount[d] \in Nat
  BY <1>1, DiceFinite, FS_Subset, RosterAssumption
<1> HIDE DEF amount
<1>3. Total(amount, S) \in Nat
  BY <1>2, SumNat
<1> QED
  BY <1>3, SumOfIs DEF amount

LEMMA SheetAfterOK ==
    ASSUME SheetsOK, NEW roll, roll.character \in Characters, NEW allocation,
           Spends(allocation, roll.kept)
    PROVE  SheetOK(SheetAfter(roll, allocation))
<1> DEFINE s == sheet[roll.character]
           fed == PointsOn(roll.kept, allocation, Feed) + SpecialSum(allocation, "gainBlood")
           restoring(i) == {d \in DOMAIN allocation :
                              /\ allocation[d].kind = "special"
                              /\ Powers[allocation[d].id].effect = "restoreItemUse"
                              /\ Powers[allocation[d].id].item = i}
           restored(i) == SumOf([d \in restoring(i) |-> Powers[allocation[d].id].amount],
                                restoring(i))
           uses == [i \in Items |-> IF i \in s.items
                      THEN AtMost(Gear[i].maxUses, s.uses[i] + restored(i)) ELSE s.uses[i]]
           blood == AtMost(MaxBlood, s.blood + fed)
           marked == s.marked \ FirstMarked(s.marked, SpecialSum(allocation, "clearInjury"))
<1>1. /\ SheetOK(s) /\ s.blood \in Nat /\ s.uses \in [Items -> Int] /\ s.marked \subseteq Boxes
      /\ \A i \in Items : s.uses[i] \in UsesLeft(i) /\ Gear[i].maxUses \in Int
  BY RosterAssumption DEF SheetsOK, SheetOK, SheetType
<1>2. blood \in 0..MaxBlood
  <2>1. s.blood + fed \in Nat
    BY <1>1, PointsNat, SpecialNat
  <2> QED
    BY <2>1, RulesAssumption, CapIn
<1>3. \A i : restored(i) \in Nat
  <2> SUFFICES ASSUME NEW i PROVE restored(i) \in Nat
    OBVIOUS
  <2> QED
    BY RestoredNat
<1> HIDE DEF restored
<1>4. ASSUME NEW i \in Items
      PROVE  uses[i] \in Int /\ uses[i] \in UsesLeft(i)
  <2>1. s.uses[i] \in UsesLeft(i)
    BY <1>1
  <2>2. /\ s.uses[i] \in Int /\ Gear[i].maxUses \in Int
        /\ AtMost(Gear[i].maxUses, s.uses[i] + restored(i)) \in UsesLeft(i)
    BY <1>3, <2>1, UsesStay
  <2>3. AtMost(Gear[i].maxUses, s.uses[i] + restored(i)) \in Int
    BY <2>2 DEF UsesLeft
  <2> QED
    BY <2>1, <2>2, <2>3
<1>5. uses \in [Items -> Int]
  BY <1>4
<1>6. SheetAfter(roll, allocation) = [s EXCEPT !.blood = blood, !.uses = uses, !.marked = marked]
  BY DEF SheetAfter, restored
<1>7. marked \subseteq Boxes
  BY <1>1
<1> HIDE DEF uses, blood, marked
<1> QED
  BY <1>1, <1>2, <1>4, <1>5, <1>6, <1>7 DEF SheetOK, SheetType

\* Boxes are marked and a character may go down.
LEMMA InjurySheets ==
    ASSUME SheetsOK, NEW c \in Characters, NEW s, SheetOK(s), NEW marks \in SUBSET Boxes,
           NEW fallen \in BOOLEAN,
           sheet' = [sheet EXCEPT ![c] = [s EXCEPT !.marked = @ \cup marks,
                                                   !.downed = @ \/ fallen]]
    PROVE  SheetsOK'
<1>1. s.marked \cup marks \in SUBSET Boxes /\ (s.downed \/ fallen) \in BOOLEAN
  BY DEF SheetOK, SheetType
<1>2. SheetOK([s EXCEPT !.marked = @ \cup marks, !.downed = @ \/ fallen])
  BY <1>1 DEF SheetOK, SheetType
<1> QED
  BY <1>2, SheetReplaced

LEMMA ChosenSheets ==
    ASSUME SheetsOK, NEW n, NEW k, rolls[n].character \in Characters,
           InjuryCategoryChosen(n, k)
    PROVE  SheetsOK'
<1> DEFINE c == rolls[n].character
           fallen == rolls[n].mode = "downed"
           marks == BoxesToMark(sheet[c].marked, k, fallen)
<1>1. sheet' = [sheet EXCEPT ![c] = [sheet[c] EXCEPT !.marked = @ \cup marks,
                                                     !.downed = @ \/ fallen]]
  BY DEF InjuryCategoryChosen
<1>2. SheetOK(sheet[c]) /\ marks \in SUBSET Boxes /\ fallen \in BOOLEAN
  BY MarkedBoxes DEF SheetsOK
<1> HIDE DEF marks, fallen
<1> QED
  BY <1>1, <1>2, InjurySheets

LEMMA UtilitySheets ==
    ASSUME SheetsOK, NEW m, NEW c \in Characters, NEW i \in Items, NEW n,
           UseUtilityItem(m, c, i, n)
    PROVE  SheetsOK'
<1> DEFINE uses == [sheet[c].uses EXCEPT ![i] = @ - 1]
           blood == IF Gear[i].use = "hat" THEN sheet[c].blood
                    ELSE AtMost(MaxBlood, sheet[c].blood + Gear[i].amount)
           s == [sheet[c] EXCEPT !.uses = uses, !.blood = blood]
<1>1. /\ SheetOK(sheet[c]) /\ sheet[c].blood \in 0..MaxBlood /\ sheet[c].uses \in [Items -> Int]
      /\ \A x \in Items : sheet[c].uses[x] \in UsesLeft(x) /\ Gear[x].maxUses \in Int
      /\ sheet[c].uses[i] > 0
  BY RosterAssumption DEF SheetsOK, SheetOK, SheetType, UseUtilityItem
<1>2. blood \in 0..MaxBlood
  <2>1. sheet[c].blood + Gear[i].amount \in Nat
    BY <1>1, RosterAssumption, RulesAssumption
  <2>2. AtMost(MaxBlood, sheet[c].blood + Gear[i].amount) \in 0..MaxBlood
    BY <2>1, RulesAssumption, CapIn
  <2> QED
    BY <1>1, <2>2
<1>3. uses \in [Items -> Int] /\ \A x \in Items : uses[x] \in UsesLeft(x)
  BY <1>1, UsesStay
<1>4. sheet' = [sheet EXCEPT ![c] = s]
  BY DEF UseUtilityItem
<1> HIDE DEF uses, blood
<1>5. SheetOK(s)
  BY <1>1, <1>2, <1>3 DEF SheetOK, SheetType
<1> QED
  BY <1>4, <1>5, SheetReplaced

LEMMA VoidSheets ==
    ASSUME SheetsOK, NEW n, rolls[n].character \in Characters, rolls[n].spent \in Nat,
           RollVoided(n)
    PROVE  SheetsOK'
<1> DEFINE c == rolls[n].character
           restored == rolls[n].charged \cap sheet[c].items
           uses == [i \in Items |-> IF i \in restored
                      THEN AtMost(Gear[i].maxUses, sheet[c].uses[i] + 1) ELSE sheet[c].uses[i]]
           blood == AtMost(MaxBlood, sheet[c].blood + rolls[n].spent)
           s == [sheet[c] EXCEPT !.blood = blood, !.uses = uses]
<1>1. /\ SheetOK(sheet[c]) /\ sheet[c].blood \in Nat /\ sheet[c].uses \in [Items -> Int]
      /\ \A x \in Items : sheet[c].uses[x] \in UsesLeft(x) /\ Gear[x].maxUses \in Int
  BY RosterAssumption DEF SheetsOK, SheetOK, SheetType
<1>2. blood \in 0..MaxBlood
  <2>1. sheet[c].blood + rolls[n].spent \in Nat
    BY <1>1
  <2> QED
    BY <2>1, RulesAssumption, CapIn
<1>3. uses \in [Items -> Int] /\ \A x \in Items : uses[x] \in UsesLeft(x)
  <2>1. ASSUME NEW x \in Items
        PROVE  uses[x] \in Int /\ uses[x] \in UsesLeft(x)
    <3>1. sheet[c].uses[x] \in UsesLeft(x)
      BY <1>1
    <3>2. /\ sheet[c].uses[x] \in Int /\ Gear[x].maxUses \in Int
          /\ AtMost(Gear[x].maxUses, sheet[c].uses[x] + 1) \in UsesLeft(x)
      BY <3>1, UsesStay
    <3>3. AtMost(Gear[x].maxUses, sheet[c].uses[x] + 1) \in Int
      BY <3>2 DEF UsesLeft
    <3> QED
      BY <3>1, <3>2, <3>3
  <2> QED
    BY <2>1
<1>4. sheet' = [sheet EXCEPT ![c] = s]
  BY DEF RollVoided
<1> HIDE DEF uses, blood
<1>5. SheetOK(s)
  BY <1>1, <1>2, <1>3 DEF SheetOK, SheetType
<1> QED
  BY <1>4, <1>5, SheetReplaced

LEMMA GrantSheets ==
    ASSUME SheetsOK, NEW c \in Characters, NEW i \in LootItems, ItemGranted(c, i)
    PROVE  SheetsOK'
<1> DEFINE kept == sheet[c].items \ {sheet[c].loot}
           items == kept \cup {i}
           uses == [sheet[c].uses EXCEPT ![i] = IF i \in kept THEN @ ELSE Gear[i].maxUses]
           s == [sheet[c] EXCEPT !.items = items, !.uses = uses, !.loot = i]
<1>1. /\ SheetOK(sheet[c]) /\ i \in Items /\ sheet[c].uses \in [Items -> Int]
      /\ \A x \in Items : sheet[c].uses[x] \in UsesLeft(x) /\ Gear[x].maxUses \in Int
  BY RosterAssumption DEF SheetsOK, SheetOK, SheetType
<1>2. uses \in [Items -> Int] /\ \A x \in Items : uses[x] \in UsesLeft(x)
  BY <1>1, UsesStay
<1>3. items \subseteq Items
  BY <1>1 DEF SheetOK, SheetType
<1>4. sheet' = [sheet EXCEPT ![c] = s]
  BY DEF ItemGranted
<1> HIDE DEF uses, items, kept
<1>5. SheetOK(s)
  BY <1>1, <1>2, <1>3 DEF SheetOK, SheetType
<1> QED
  BY <1>4, <1>5, SheetReplaced

LEMMA UnlockSheets ==
    ASSUME SheetsOK, NEW c \in Characters, NEW a \in Advances, AdvanceUnlocked(c, a)
    PROVE  SheetsOK'
<1> DEFINE s == [sheet[c] EXCEPT !.unlocked = @ \cup {a}]
<1>1. SheetOK(s)
  BY DEF SheetsOK, SheetOK, SheetType
<1>2. sheet' = [sheet EXCEPT ![c] = s]
  BY DEF AdvanceUnlocked
<1> QED
  BY <1>1, <1>2, SheetReplaced

\* A patch carries fields of a sheet, each with a value a sheet may have.
PatchOK(patch) ==
    /\ DOMAIN patch \subseteq {"blood", "downed", "retired", "loot", "uses", "marked"}
    /\ "blood" \in DOMAIN patch => patch.blood \in 0..MaxBlood
    /\ "downed" \in DOMAIN patch => patch.downed \in BOOLEAN
    /\ "retired" \in DOMAIN patch => patch.retired \in BOOLEAN
    /\ "loot" \in DOMAIN patch => patch.loot \in Items \cup {None}
    /\ "uses" \in DOMAIN patch =>
          patch.uses \in [Items -> Int] /\ \A i \in Items : patch.uses[i] \in UsesLeft(i)
    /\ "marked" \in DOMAIN patch => patch.marked \subseteq Boxes

LEMMA CorrectSheets ==
    ASSUME SheetsOK, NEW c \in Characters, NEW patch, PatchOK(patch),
           CharacterCorrected(c, patch)
    PROVE  SheetsOK'
<1>1. SheetOK(sheet[c])
  BY DEF SheetsOK
<1>2. SheetOK(Update(sheet[c], patch))
  BY <1>1 DEF SheetOK, SheetType, PatchOK, Update
<1>3. sheet' = [sheet EXCEPT ![c] = Update(sheet[c], patch)]
  BY DEF CharacterCorrected
<1> QED
  BY <1>2, <1>3, SheetReplaced

LEMMA PatchesOK ==
    ASSUME SheetsOK, NEW c \in Characters, NEW patch \in Patches(c),
           PatchFields \subseteq {"blood", "downed", "retired", "loot", "uses", "marked"}
    PROVE  PatchOK(patch)
<1>1. PICK field \in PatchFields : patch \in PatchesOf(c, field)
  BY DEF Patches
<1>2. /\ sheet[c].uses \in [Items -> Int] /\ sheet[c].items \subseteq Items
      /\ sheet[c].marked \subseteq Boxes
      /\ \A i \in Items : sheet[c].uses[i] \in UsesLeft(i) /\ Gear[i].maxUses \in Int
  BY RosterAssumption DEF SheetsOK, SheetOK, SheetType
<1>3. CASE field = "blood"
  BY <1>1, <1>3 DEF PatchesOf, PatchOK
<1>4. CASE field = "downed"
  BY <1>1, <1>4 DEF PatchesOf, PatchOK
<1>5. CASE field = "retired"
  BY <1>1, <1>5 DEF PatchesOf, PatchOK
<1>6. CASE field = "loot"
  BY <1>1, <1>6, RosterAssumption DEF PatchesOf, PatchOK
<1>7. CASE field = "uses"
  <2>1. PICK i \in sheet[c].items : \E u \in 0..Gear[i].maxUses :
          patch = [uses |-> [sheet[c].uses EXCEPT ![i] = u]]
    BY <1>1, <1>7 DEF PatchesOf
  <2> PICK u \in 0..Gear[i].maxUses : patch = [uses |-> [sheet[c].uses EXCEPT ![i] = u]]
    BY <2>1
  <2>2. i \in Items /\ u \in Int /\ u \in UsesLeft(i)
    BY <1>2, <2>1 DEF UsesLeft
  <2> QED
    BY <1>2, <2>1, <2>2 DEF PatchOK
<1>8. CASE field = "marked"
  BY <1>1, <1>2, <1>8 DEF PatchesOf, PatchOK
<1> QED
  BY <1>3, <1>4, <1>5, <1>6, <1>7, <1>8

-----------------------------------------------------------------------------
(* The board.                                                              *)

ObjectivesOK ==
    /\ DOMAIN objectives \subseteq ObjectiveKeys
    /\ \A o \in DOMAIN objectives : objectives[o] \in ObjectiveType

SceneOK == scene \in SceneType

BoardOK == SceneOK /\ ObjectivesOK /\ ThreatsOK

LEMMA UpdatedThreats ==
    ASSUME ThreatsOK, NEW changed, DOMAIN changed \subseteq ThreatIds,
           \A t \in DOMAIN changed : changed[t] \in ThreatType,
           threats' = Update(threats, changed)
    PROVE  ThreatsOK'
  BY DEF ThreatsOK, Update

LEMMA UpdatedObjectives ==
    ASSUME NEW before, DOMAIN before \subseteq ObjectiveKeys,
           \A o \in DOMAIN before : before[o] \in ObjectiveType,
           NEW changed, DOMAIN changed \subseteq ObjectiveKeys,
           \A o \in DOMAIN changed : changed[o] \in ObjectiveType
    PROVE  /\ DOMAIN Update(before, changed) \subseteq ObjectiveKeys
           /\ \A o \in DOMAIN Update(before, changed) : Update(before, changed)[o] \in ObjectiveType
  BY DEF Update

LEMMA NewObjectiveType == \A o \in ObjectiveIds : NewObjective(o) \in ObjectiveType
<1> SUFFICES ASSUME NEW o \in ObjectiveIds PROVE NewObjective(o) \in ObjectiveType
  OBVIOUS
<1>1. ObjectiveCard[o] \in
        [kind : {"primary", "secondary", "retreat"}, rating : Int, challenge : Int]
  BY ScenesAssumption
<1> QED
  BY <1>1 DEF NewObjective, ObjectiveType

LEMMA NewThreatType == \A t \in ThreatIds : NewThreat(t) \in ThreatType
<1> SUFFICES ASSUME NEW t \in ThreatIds PROVE NewThreat(t) \in ThreatType
  OBVIOUS
<1>1. ThreatCard[t] \in ThreatType
  BY ScenesAssumption
<1> QED
  BY <1>1 DEF NewThreat, ThreatType

LEMMA RescueIfType ==
    ASSUME NEW downed, NEW c \in Characters
    PROVE  /\ DOMAIN RescueIf(downed, c) \subseteq ObjectiveKeys
           /\ \A o \in DOMAIN RescueIf(downed, c) : RescueIf(downed, c)[o] \in ObjectiveType
<1>1. RescueObjective \in ObjectiveType
  BY DEF RescueObjective, ObjectiveType
<1>2. Rescue(c) \in ObjectiveKeys
  BY DEF ObjectiveKeys
<1> QED
  BY <1>1, <1>2 DEF RescueIf

LEMMA TransitionBoard ==
    ASSUME BoardOK, NEW next \in Scenes, SceneTransition(next)
    PROVE  BoardOK' /\ disclosed' \subseteq ThreatIds
<1>1. /\ next.threats \subseteq ThreatIds /\ next.objectives \subseteq ObjectiveIds
      /\ next.mode \in {"book", "simplified"}
  BY ScenesAssumption
<1>2. SceneOK'
  <2>1. scene' = [id |-> next.id, status |-> "active", round |-> 1, acted |-> {},
                  mode |-> next.mode]
    BY DEF SceneTransition
  <2>2. next.id \in {None} \cup {other.id : other \in Scenes}
    OBVIOUS
  <2>3. 1 \in Nat /\ {} \in SUBSET Characters
    OBVIOUS
  <2> QED
    BY <1>1, <2>1, <2>2, <2>3 DEF SceneOK, SceneType
<1>3. ThreatsOK' /\ disclosed' \subseteq ThreatIds
  BY <1>1, NewThreatType DEF SceneTransition, ThreatsOK, Revealed
<1>4. ObjectivesOK'
  <2>1. /\ CarriedRescues \subseteq DOMAIN objectives
        /\ DOMAIN objectives' = next.objectives \cup CarriedRescues
        /\ \A o \in DOMAIN objectives' :
              objectives'[o] = IF o \in CarriedRescues THEN objectives[o] ELSE NewObjective(o)
    BY DEF SceneTransition, CarriedRescues
  <2>2. ObjectiveIds \subseteq ObjectiveKeys
    BY DEF ObjectiveKeys
  <2> QED
    BY <1>1, <2>1, <2>2, NewObjectiveType DEF BoardOK, ObjectivesOK
<1> QED
  BY <1>2, <1>3, <1>4 DEF BoardOK

LEMMA RoundBoard ==
    ASSUME BoardOK, NEW faces, EndRound(faces)
    PROVE  BoardOK' /\ disclosed' \subseteq ThreatIds
<1> DEFINE reinforced == [t \in Reinforced |-> Reinforcement(threats[t], scene.mode, faces[t])]
<1>1. Reinforced \subseteq DOMAIN threats /\ DOMAIN threats \subseteq ThreatIds
      /\ DOMAIN reinforced = Reinforced
  BY DEF Reinforced, BoardOK, ThreatsOK
<1>2. \A t \in Reinforced : faces[t] \in 1..6
  BY RulesAssumption DEF EndRound, ReinforcementFaces
<1>3. \A t \in Reinforced : reinforced[t] \in ThreatType
  BY <1>1, <1>2, ReinforcementType DEF BoardOK, ThreatsOK
<1>4. /\ threats' = Update(threats, reinforced)
      /\ scene' = [scene EXCEPT !.round = @ + 1, !.acted = {}]
      /\ objectives' = objectives /\ disclosed' = SharedDeltas(Reinforced)
  BY DEF EndRound, RoundEnded
<1> HIDE DEF reinforced
<1>5. ThreatsOK'
  BY <1>1, <1>3, <1>4, UpdatedThreats DEF BoardOK
<1>6. SceneOK'
  <2>1. scene.round \in Nat
    BY DEF BoardOK, SceneOK, SceneType
  <2>2. PICK more \in Nat : more = scene.round + 1
    BY <2>1
  <2> QED
    BY <1>4, <2>2 DEF BoardOK, SceneOK, SceneType
<1>7. disclosed' \subseteq ThreatIds
  BY <1>1, <1>4 DEF SharedDeltas
<1>8. ObjectivesOK'
  BY <1>4 DEF BoardOK, ObjectivesOK
<1> QED
  BY <1>5, <1>6, <1>7, <1>8 DEF BoardOK

LEMMA RevealBoard ==
    ASSUME BoardOK, NEW t, RevealThreat(t)
    PROVE  BoardOK' /\ disclosed' \subseteq ThreatIds
<1>1. /\ t \in DOMAIN threats /\ threats' = [threats EXCEPT ![t].revealed = TRUE]
      /\ scene' = scene /\ objectives' = objectives /\ disclosed' = {t}
  BY DEF RevealThreat, ThreatRevealed
<1>2. [threats[t] EXCEPT !.revealed = TRUE] \in ThreatType
  BY <1>1 DEF BoardOK, ThreatsOK, ThreatType
<1>3. ThreatsOK' /\ disclosed' \subseteq ThreatIds
  BY <1>1, <1>2 DEF BoardOK, ThreatsOK
<1> QED
  BY <1>1, <1>3 DEF BoardOK, SceneOK, ObjectivesOK

LEMMA EditBoard ==
    ASSUME BoardOK, EditScene
    PROVE  BoardOK' /\ disclosed' \subseteq ThreatIds
<1>1. CASE \E o \in DOMAIN objectives : \E r \in Edits(objectives[o].rating),
             k \in Edits(objectives[o].challenge) : EditObjective(o, r, k)
  <2>1. PICK o \in DOMAIN objectives : \E r \in Edits(objectives[o].rating),
          k \in Edits(objectives[o].challenge) : EditObjective(o, r, k)
    BY <1>1
  <2>2. PICK r \in Edits(objectives[o].rating), k \in Edits(objectives[o].challenge) :
          EditObjective(o, r, k)
    BY <2>1
  <2>3. r \in Int /\ k \in Int /\ objectives[o] \in ObjectiveType
    BY RosterAssumption DEF Edits, BoardOK, ObjectivesOK, ObjectiveType
  <2>4. [objectives[o] EXCEPT !.rating = r, !.challenge = k] \in ObjectiveType
    BY <2>3 DEF ObjectiveType
  <2>5. ObjectivesOK'
    BY <2>2, <2>4 DEF EditObjective, BoardOK, ObjectivesOK
  <2>6. ThreatsOK' /\ SceneOK' /\ disclosed' \subseteq ThreatIds
    BY <2>2 DEF EditObjective, BoardOK, ThreatsOK, SceneOK, EditScene
  <2> QED
    BY <2>5, <2>6 DEF BoardOK
<1>2. CASE \E t \in DOMAIN threats : \E r \in Edits(threats[t].rating),
             a \in Edits(threats[t].attack), k \in Edits(threats[t].challenge) :
                EditThreat(t, r, a, k)
  <2>1. PICK t \in DOMAIN threats : \E r \in Edits(threats[t].rating),
          a \in Edits(threats[t].attack), k \in Edits(threats[t].challenge) :
             EditThreat(t, r, a, k)
    BY <1>2
  <2>2. PICK r \in Edits(threats[t].rating), a \in Edits(threats[t].attack),
             k \in Edits(threats[t].challenge) : EditThreat(t, r, a, k)
    BY <2>1
  <2>3. r \in Int /\ a \in Int /\ k \in Int /\ threats[t] \in ThreatType
    BY RosterAssumption DEF Edits, BoardOK, ThreatsOK, ThreatType
  <2>4. [threats[t] EXCEPT !.rating = r, !.attack = a, !.challenge = k] \in ThreatType
    BY <2>3 DEF ThreatType
  <2>5. ThreatsOK'
    BY <2>2, <2>4 DEF EditThreat, BoardOK, ThreatsOK
  <2>6. ObjectivesOK' /\ SceneOK' /\ disclosed' \subseteq ThreatIds
    BY <2>2 DEF EditThreat, BoardOK, ThreatsOK, ObjectivesOK, SceneOK, EditScene, SharedDeltas
  <2> QED
    BY <2>5, <2>6 DEF BoardOK
<1>3. CASE \E os \in SUBSET ObjectiveIds, ts \in SUBSET ThreatIds : AddToScene(os, ts)
  <2>1. PICK os \in SUBSET ObjectiveIds, ts \in SUBSET ThreatIds : AddToScene(os, ts)
    BY <1>3
  <2>2. /\ objectives' = Update(objectives, [o \in os |-> NewObjective(o)])
        /\ threats' = Update(threats, [t \in ts |-> NewThreat(t)])
        /\ disclosed' = Revealed([t \in ts |-> NewThreat(t)]) /\ scene' = scene
    BY <2>1 DEF AddToScene, EditScene
  <2>3. ThreatsOK' /\ disclosed' \subseteq ThreatIds
    BY <2>2, NewThreatType, UpdatedThreats DEF BoardOK, Revealed
  <2>4. ObjectivesOK'
    BY <2>2, NewObjectiveType, UpdatedObjectives DEF BoardOK, ObjectivesOK, ObjectiveKeys
  <2> QED
    BY <2>2, <2>3, <2>4 DEF BoardOK, SceneOK
<1>4. CASE \E os, ts : RemoveFromScene(os, ts)
  BY <1>4 DEF RemoveFromScene, Without, BoardOK, ThreatsOK, ObjectivesOK, SceneOK, EditScene,
              SharedDeltas
<1> QED
  BY <1>1, <1>2, <1>3, <1>4 DEF EditScene, EditNumbers

LEMMA RulesBoard ==
    ASSUME BoardOK, NEW mode \in {"book", "simplified"}, SetSceneRules(mode)
    PROVE  BoardOK' /\ disclosed' \subseteq ThreatIds
<1>1. scene' = [scene EXCEPT !.mode = mode] /\ UNCHANGED <<objectives, threats>> /\ disclosed' = {}
  BY DEF SetSceneRules, SceneRulesChanged
<1>2. SceneOK'
  BY <1>1 DEF BoardOK, SceneOK, SceneType
<1> QED
  BY <1>1, <1>2 DEF BoardOK, ObjectivesOK, ThreatsOK

-----------------------------------------------------------------------------
(* The rolls.                                                              *)

RollsTyped ==
    /\ nextRoll \in Nat \ {0}
    /\ DOMAIN rolls \subseteq 1..nextRoll - 1
    /\ \A n \in DOMAIN rolls : rolls[n] \in RollType

LEMMA ClosedType == ASSUME NEW roll \in RollType PROVE Closed(roll) \in RollType
<1>1. <<>> \in Seq({"success", "critical"})
  OBVIOUS
<1>2. PICK none \in Seq({"success", "critical"}) : none = <<>>
  BY <1>1
<1>3. [roll EXCEPT !.status = "resolved", !.stat = "none", !.items = {}, !.powers = {},
                   !.claims = {}, !.proposed = {}, !.engaged = {}, !.primary = None,
                   !.kept = none, !.attackDice = 0, !.attack = 0, !.spent = 0,
                   !.charged = {}, !.mode = None, !.category = None] \in RollType
  BY DEF RollType
<1> QED
  BY <1>2, <1>3 DEF Closed

LEMMA StoredType == ASSUME NEW roll \in RollType PROVE Stored(roll) \in RollType
  BY DEF Stored, RollType

\* A record replaces another one, or is taken away.
LEMMA RollReplaced ==
    ASSUME RollsTyped, NEW n \in DOMAIN rolls, NEW roll \in RollType,
           rolls' = [rolls EXCEPT ![n] = roll], nextRoll' = nextRoll
    PROVE  RollsTyped'
  BY DEF RollsTyped

LEMMA RollDeclared ==
    ASSUME RollsTyped, NEW roll \in RollType,
           rolls' = Update(rolls, [n \in {nextRoll} |-> roll]), nextRoll' = nextRoll + 1
    PROVE  RollsTyped'
<1>1. nextRoll \in Nat \ {0} /\ nextRoll' \in Nat \ {0}
  BY DEF RollsTyped
<1>2. DOMAIN rolls' = DOMAIN rolls \cup {nextRoll}
  BY DEF Update
<1>3. \A n \in DOMAIN rolls' : rolls'[n] \in RollType
  BY DEF Update, RollsTyped
<1>4. DOMAIN rolls' \subseteq 1..nextRoll' - 1
  BY <1>1, <1>2 DEF RollsTyped
<1> QED
  BY <1>1, <1>3, <1>4 DEF RollsTyped

Types == SheetsOK /\ BoardOK /\ RollsTyped /\ paused \in BOOLEAN /\ missionEnded \in BOOLEAN
           /\ disclosed \subseteq ThreatIds

LEMMA TypesMean == TypeOK <=> Types
<1>1. SheetsOK <=> /\ sheet \in [Characters -> SheetType]
                   /\ \A c \in Characters, i \in Items : sheet[c].uses[i] \in UsesLeft(i)
  BY DEF SheetsOK, SheetOK
<1> QED
  BY <1>1 DEF TypeOK, Types, BoardOK, SceneOK, ObjectivesOK, ThreatsOK, RollsTyped

LEMMA BeginTypes ==
    ASSUME Types, NEW m \in Members, NEW c \in Characters, NEW stat \in StatChoices,
           NEW items \in SUBSET sheet[c].items, NEW powers \in SUBSET Kit[c].abilities,
           NEW claims \in SUBSET (items \cup powers), NEW engaging \in SUBSET ActiveRevealed,
           BeginAction(m, c, stat, items, powers, claims, engaging)
    PROVE  Types'
<1> DEFINE roll == [character |-> c, actor |-> m, status |-> "declared", stat |-> stat,
          items |-> items, powers |-> powers, claims |-> claims, proposed |-> engaging,
          engaged |-> {}, primary |-> None, kept |-> <<>>, attackDice |-> 0,
          attack |-> 0, spent |-> 0, charged |-> {}, mode |-> None, category |-> None]
<1>1. /\ rolls' = Update(rolls, [n \in {nextRoll} |-> roll]) /\ nextRoll' = nextRoll + 1
      /\ disclosed' = {} /\ UNCHANGED <<sheet, board, table>>
  BY DEF BeginAction, ActionDeclared
<1>2. /\ items \subseteq Items /\ powers \subseteq Abilities
      /\ claims \subseteq Items \cup Abilities /\ engaging \subseteq ThreatIds
  BY RosterAssumption DEF Types, SheetsOK, SheetOK, SheetType, BoardOK, ThreatsOK,
                          ActiveRevealed, Revealed
<1>3. <<>> \in Seq({"success", "critical"})
  OBVIOUS
<1>4. roll \in RollType
  BY <1>2, <1>3 DEF RollType
<1> HIDE DEF roll
<1>5. RollsTyped'
  BY <1>1, <1>4, RollDeclared DEF Types
<1> QED
  BY <1>1, <1>5 DEF Types, SheetsOK, BoardOK, SceneOK, ObjectivesOK, ThreatsOK, board, table

LEMMA ReviewTypes ==
    ASSUME Types, NEW n \in DOMAIN rolls, NEW approved, NEW engaged, NEW primary, NEW throw,
           NEW attackThrow, ReviewAction(n, approved, engaged, primary, throw, attackThrow)
    PROVE  Types'
<1> DEFINE roll == rolls[n]
           c == roll.character
           raw == AttackSuccesses(attackThrow, primary # None /\ threats[primary].critOnSix)
           kept == KeptDice(throw, DiscardBelow(threats, engaged))
           attack == Floor0(raw - PassiveDefence(c, throw))
           thrown == Len(attackThrow)
           cost == BloodCost(roll.powers)
           rolled == [roll EXCEPT !.status = "awaiting_allocation", !.proposed = {},
                        !.engaged = engaged, !.primary = primary, !.kept = kept,
                        !.attackDice = thrown, !.attack = attack,
                        !.spent = cost, !.charged = roll.items]
<1>1. /\ ActionRolled(n, rolled, PassiveBlood(c, throw))
      /\ approved \subseteq roll.claims /\ engaged \subseteq ActiveRevealed
      /\ primary \in (IF engaged = {} THEN {None} ELSE engaged)
      /\ throw \in Throws(PoolSize(c, sheet[c], roll.stat, roll.items, roll.powers, approved))
      /\ attackThrow \in Throws(AttackDice(threats, engaged))
      /\ disclosed' = engaged /\ UNCHANGED <<board, table, nextRoll>>
      /\ PoolAllowed(c, sheet[c], roll.items, roll.powers)
  BY DEF ReviewAction, Reviewable
<1>2. /\ roll \in RollType /\ c \in Characters /\ roll.items \subseteq Items
      /\ roll.powers \subseteq Abilities /\ roll.claims \subseteq Items \cup Abilities
      /\ roll.stat \in StatChoices \cup {"none"}
  BY DEF Types, RollsTyped, RollType
<1>3. engaged \subseteq DOMAIN threats /\ engaged \subseteq ThreatIds
      /\ primary \in ThreatIds \cup {None}
  BY <1>1 DEF ActiveRevealed, Revealed, Types, BoardOK, ThreatsOK
<1>4. sheet[c].items \subseteq Items
  BY <1>2 DEF Types, SheetsOK, SheetOK, SheetType
<1>5. PICK pool \in Nat : throw \in Throws(pool)
  <2>1. approved \in SUBSET (Items \cup Abilities)
    BY <1>1, <1>2
  <2> HIDE DEF roll
  <2>2. PoolSize(c, sheet[c], roll.stat, roll.items, roll.powers, approved) \in Int
    BY <1>2, <1>4, <2>1, PoolInt
  <2> QED
    BY <1>1, <2>2, NoFewerThanNone
<1>6. PICK against \in Nat : attackThrow \in Throws(against)
  <2>1. AttackDice(threats, engaged) \in Int
    BY AttackDiceInt DEF Types, BoardOK
  <2> QED
    BY <1>1, <2>1, NoFewerThanNone
<1>7. throw \in Throws(pool) /\ attackThrow \in Throws(against)
  BY <1>5, <1>6
<1>8. PICK below \in 4..6 : below = DiscardBelow(threats, engaged)
  BY <1>3, DiscardIn DEF Types, BoardOK
<1>9. /\ kept \in Seq({"success", "critical"}) /\ thrown \in Nat
      /\ cost \in Nat /\ PassiveBlood(c, throw) \in Nat
  <2>1. kept = KeptDice(throw, below)
    BY <1>8
  <2>2. KeptDice(throw, below) \in Seq({"success", "critical"})
    BY <1>7, KeptIs
  <2>3. thrown = against
    BY <1>7, ThrowIs
  <2>4. cost \in Nat
    BY <1>2, BloodCostNat
  <2>5. PassiveBlood(c, throw) \in Nat
    BY <1>2, <1>7, DefenceNat
  <2> QED
    BY <2>1, <2>2, <2>3, <2>4, <2>5
<1>10. attack \in Nat
  <2>1. raw \in Nat
    BY <1>7, SuccessesNat
  <2>2. PassiveDefence(c, throw) \in Nat
    BY <1>2, <1>7, DefenceNat
  <2>3. raw - PassiveDefence(c, throw) \in Int
    BY <2>1, <2>2
  <2> QED
    BY <2>3, FloorNat
<1> HIDE DEF kept, attack, thrown, cost, raw
<1>11. rolled \in RollType
  BY <1>2, <1>3, <1>9, <1>10 DEF RollType
<1>12. /\ rolled.character = c /\ rolled.spent = cost
       /\ \A i \in rolled.charged \cap Items : sheet[c].uses[i] > 0
  BY <1>1, <1>2 DEF RollType, PoolAllowed
<1>13. rolls' = [rolls EXCEPT ![n] = Stored(rolled)]
  BY <1>1 DEF ActionRolled
<1> HIDE DEF rolled
<1>14. SheetsOK'
  BY <1>1, <1>2, <1>9, <1>12, ChargeSheets DEF Types
<1>15. RollsTyped'
  BY <1>1, <1>11, <1>13, StoredType, RollReplaced DEF Types
<1> QED
  BY <1>1, <1>3, <1>14, <1>15
  DEF Types, BoardOK, SceneOK, ObjectivesOK, ThreatsOK, board, table

LEMMA ChooseTypes ==
    ASSUME Types, NEW m, NEW n \in DOMAIN rolls, NEW k, ChooseInjuryCategory(m, n, k)
    PROVE  Types'
<1>1. /\ InjuryCategoryChosen(n, k) /\ disclosed' = {}
      /\ UNCHANGED <<scene, threats, table, nextRoll>>
  BY DEF ChooseInjuryCategory
<1>2. rolls[n] \in RollType /\ rolls[n].character \in Characters
  BY DEF Types, RollsTyped, RollType
<1>3. SheetsOK'
  BY <1>1, <1>2, ChosenSheets DEF Types
<1>4. RollsTyped'
  <2>1. rolls' = [rolls EXCEPT ![n] = Closed(rolls[n])]
    BY <1>1 DEF InjuryCategoryChosen
  <2> QED
    BY <1>1, <1>2, <2>1, ClosedType, RollReplaced DEF Types
<1>5. ObjectivesOK'
  <2> DEFINE rescue == RescueIf(rolls[n].mode = "downed", rolls[n].character)
  <2>1. objectives' = Update(objectives, rescue)
    BY <1>1 DEF InjuryCategoryChosen
  <2>2. /\ DOMAIN rescue \subseteq ObjectiveKeys
        /\ \A o \in DOMAIN rescue : rescue[o] \in ObjectiveType
    BY <1>2, RescueIfType
  <2> HIDE DEF rescue
  <2> QED
    BY <2>1, <2>2, UpdatedObjectives DEF Types, BoardOK, ObjectivesOK
<1> QED
  BY <1>1, <1>3, <1>4, <1>5 DEF Types, BoardOK, SceneOK, ThreatsOK, table

LEMMA UtilityTypes ==
    ASSUME Types, NEW m, NEW c \in Characters, NEW i \in Items, NEW n,
           UseUtilityItem(m, c, i, n)
    PROVE  Types'
<1>1. disclosed' = {} /\ UNCHANGED <<board, table, nextRoll>>
  BY DEF UseUtilityItem
<1>2. SheetsOK'
  BY UtilitySheets DEF Types
<1>3. CASE Gear[i].use = "hat"
  <2>1. n \in DOMAIN rolls /\ rolls' = [rolls EXCEPT ![n] = Closed(rolls[n])]
    BY <1>3 DEF UseUtilityItem
  <2>2. rolls[n] \in RollType
    BY <2>1 DEF Types, RollsTyped
  <2>3. RollsTyped'
    BY <1>1, <2>1, <2>2, ClosedType, RollReplaced DEF Types
  <2> QED
    BY <1>1, <1>2, <2>3 DEF Types, BoardOK, SceneOK, ObjectivesOK, ThreatsOK, board, table
<1>4. CASE Gear[i].use # "hat"
  <2>1. rolls' = rolls
    BY <1>4 DEF UseUtilityItem
  <2> QED
    BY <1>1, <1>2, <2>1
    DEF Types, RollsTyped, BoardOK, SceneOK, ObjectivesOK, ThreatsOK, board, table
<1> QED
  BY <1>3, <1>4

LEMMA VoidTypes ==
    ASSUME Types, NEW n \in DOMAIN rolls, VoidRoll(n)
    PROVE  Types'
<1>1. RollVoided(n) /\ disclosed' = {} /\ UNCHANGED <<board, table, nextRoll>>
  BY DEF VoidRoll
<1>2. rolls[n].character \in Characters /\ rolls[n].spent \in Nat
  BY DEF Types, RollsTyped, RollType
<1>3. SheetsOK'
  BY <1>1, <1>2, VoidSheets DEF Types
<1>4. RollsTyped'
  BY <1>1 DEF RollVoided, Without, Types, RollsTyped
<1> QED
  BY <1>1, <1>3, <1>4 DEF Types, BoardOK, SceneOK, ObjectivesOK, ThreatsOK, board, table

\* An allocation of the command spends the roll's kept dice.
LEMMA AllocationSpends ==
    ASSUME NEW roll \in RollType, NEW allocation \in Allocations(roll)
    PROVE  Spends(allocation, roll.kept)
<1>1. roll.kept \in Seq({"success", "critical"}) /\ roll.character \in Characters
  BY DEF RollType
<1>2. /\ allocation \in [DOMAIN roll.kept -> Targets]
      /\ \A i \in DOMAIN roll.kept : LegalTarget(roll, roll.kept[i], allocation[i])
  BY DEF Allocations
<1>3. ASSUME NEW i \in DOMAIN roll.kept, allocation[i].kind = "special"
      PROVE  allocation[i].id \in Abilities
  <2>1. LegalTarget(roll, roll.kept[i], allocation[i])
    BY <1>2
  <2>2. allocation[i].id \in Kit[roll.character].abilities
    BY <1>3, <2>1 DEF LegalTarget
  <2> QED
    BY <1>1, <2>2, RosterAssumption
<1>4. DOMAIN allocation = DOMAIN roll.kept
  BY <1>2
<1> QED
  BY <1>1, <1>3, <1>4 DEF Spends

LEMMA AfterThreats ==
    ASSUME BoardOK, NEW roll \in RollType, NEW allocation, Spends(allocation, roll.kept)
    PROVE  LET after == ThreatsAfter(roll, allocation)
           IN  /\ DOMAIN after \subseteq ThreatIds
               /\ \A t \in DOMAIN after : after[t] \in ThreatType
<1> DEFINE aimed == {t \in DOMAIN threats : DiceOn(allocation, OnThreat(t)) # {}}
           special(t) == t = roll.primary
           ratingLoss(t) == IF special(t)
             THEN SpecialSum(allocation, "reduceRating") + EliteLoss(roll, allocation) ELSE 0
           attackLoss(t) == IF special(t) THEN SpecialSum(allocation, "reduceThreatAttack") ELSE 0
           struck == aimed \cup {t \in DOMAIN threats : ratingLoss(t) > 0 \/ attackLoss(t) > 0}
           touched == struck \cup ({BumpedThreat(roll)} \ {None})
           damage(t) == IF t \in aimed
             THEN ChallengeDamage(PointsOn(roll.kept, allocation, OnThreat(t)),
                                  threats[t].challenge) ELSE 0
           after == [t \in touched |->
                       ThreatAfter(threats[t], damage(t), ratingLoss(t), attackLoss(t),
                                   t \in struck, t = BumpedThreat(roll))]
<1>1. /\ SpecialSum(allocation, "reduceRating") \in Nat
      /\ SpecialSum(allocation, "damageElite") \in Nat
      /\ SpecialSum(allocation, "reduceThreatAttack") \in Nat
  BY SpecialNat
<1>2. EliteLoss(roll, allocation) \in Nat
  BY <1>1 DEF EliteLoss
<1>3. \A t : ratingLoss(t) \in Nat /\ attackLoss(t) \in Nat
  BY <1>1, <1>2
<1>4. \A t : PointsOn(roll.kept, allocation, OnThreat(t)) \in Nat
  <2> SUFFICES ASSUME NEW t PROVE PointsOn(roll.kept, allocation, OnThreat(t)) \in Nat
    OBVIOUS
  <2> QED
    BY PointsNat
<1>5. \A t : damage(t) \in Nat
  <2> SUFFICES ASSUME NEW t, t \in aimed
               PROVE  ChallengeDamage(PointsOn(roll.kept, allocation, OnThreat(t)),
                                      threats[t].challenge) \in Nat
    OBVIOUS
  <2>1. PICK points \in Nat : points = PointsOn(roll.kept, allocation, OnThreat(t))
    BY <1>4
  <2>2. threats[t].challenge \in Int
    BY DEF BoardOK, ThreatsOK, ThreatType
  <2>3. points - threats[t].challenge \in Int
    BY <2>1, <2>2
  <2> QED
    BY <2>1, <2>3, FloorNat DEF ChallengeDamage
<1>6. touched \subseteq DOMAIN threats /\ DOMAIN threats \subseteq ThreatIds
  BY DEF BumpedThreat, BoardOK, ThreatsOK
<1>7. ThreatsAfter(roll, allocation) = after
  BY DEF ThreatsAfter
<1> HIDE DEF ratingLoss, attackLoss, damage, struck, touched
<1>8. ASSUME NEW t \in touched
      PROVE  after[t] \in ThreatType
  <2>1. threats[t] \in ThreatType
    BY <1>6 DEF BoardOK, ThreatsOK
  <2>2. PICK hit \in BOOLEAN, raised \in BOOLEAN :
          (hit <=> t \in struck) /\ (raised <=> t = BumpedThreat(roll))
    OBVIOUS
  <2>3. after[t] = ThreatAfter(threats[t], damage(t), ratingLoss(t), attackLoss(t), hit, raised)
    BY <2>2 DEF ThreatAfter
  <2>4. damage(t) \in Nat /\ ratingLoss(t) \in Nat /\ attackLoss(t) \in Nat
    BY <1>3, <1>5
  <2> HIDE DEF after
  <2> QED
    BY <2>1, <2>3, <2>4, ThreatAfterType
<1>9. DOMAIN after = touched
  OBVIOUS
<1> HIDE DEF after
<1> QED
  BY <1>6, <1>7, <1>8, <1>9

LEMMA AfterObjectives ==
    ASSUME BoardOK, NEW roll \in RollType, NEW allocation, Spends(allocation, roll.kept)
    PROVE  LET after == ObjectivesAfter(roll, allocation)
           IN  /\ DOMAIN after \subseteq ObjectiveKeys
               /\ \A o \in DOMAIN after : after[o] \in ObjectiveType
<1> DEFINE after == ObjectivesAfter(roll, allocation)
<1>1. /\ DOMAIN after \subseteq DOMAIN objectives /\ DOMAIN objectives \subseteq ObjectiveKeys
      /\ \A o \in DOMAIN after : after[o] =
            ObjectiveAfter(objectives[o], PointsOn(roll.kept, allocation, OnObjective(o)))
  BY DEF ObjectivesAfter, BoardOK, ObjectivesOK
<1> HIDE DEF after
<1>2. ASSUME NEW o \in DOMAIN after
      PROVE  after[o] \in ObjectiveType
  <2>1. objectives[o] \in ObjectiveType
    BY <1>1 DEF BoardOK, ObjectivesOK
  <2>2. PointsOn(roll.kept, allocation, OnObjective(o)) \in Nat
    BY PointsNat
  <2> QED
    BY <1>1, <2>1, <2>2, ObjectiveAfterType
<1> QED
  BY <1>1, <1>2 DEF after

\* A roll whose injury waits for its player's choice.
LEMMA PendingType ==
    ASSUME NEW roll \in RollType, NEW mode \in {"single", "downed"},
           NEW category \in Categories \cup {None}
    PROVE  [roll EXCEPT !.status = "awaiting_injury_choice", !.mode = mode,
                        !.category = category] \in RollType
  BY DEF RollType

LEMMA AllocateTypes ==
    ASSUME Types, NEW m, NEW n \in DOMAIN rolls, NEW allocation, NEW face \in Faces,
           AllocateResults(m, n, allocation, face)
    PROVE  Types'
<1> DEFINE roll == rolls[n]
           c == roll.character
           s == SheetAfter(roll, allocation)
           remaining == Floor0(roll.attack - PointsOn(roll.kept, allocation, Defend)
                                 - SpecialSum(allocation, "removeAttackSuccesses"))
           k == RolledCategory(face)
           open == OpenBoxes(sheet[c].marked, k)
           injured == remaining > 0
           downed == remaining >= 3
           whole == downed \/ (roll.primary \in DOMAIN threats /\ threats[roll.primary].wholeCategory)
           pending == injured /\ (open = {} \/ HasShield(c))
           marks == IF injured /\ ~pending THEN BoxesToMark(sheet[c].marked, k, whole) ELSE {}
           fallen == injured /\ ~pending /\ downed
           after == ThreatsAfter(roll, allocation)
           reached == ObjectivesAfter(roll, allocation)
           rescue == RescueIf(fallen, c)
           mode == IF downed THEN "downed" ELSE "single"
           category == IF open = {} THEN None ELSE k
           settled == IF pending
             THEN [roll EXCEPT !.status = "awaiting_injury_choice", !.mode = mode,
                               !.category = category]
             ELSE Closed(roll)
<1>1. /\ allocation \in Allocations(roll)
      /\ objectives' = Update(Update(objectives, reached), rescue)
      /\ threats' = Update(threats, after)
      /\ sheet' = [sheet EXCEPT ![c] = [s EXCEPT !.marked = @ \cup marks,
                                                 !.downed = @ \/ fallen]]
      /\ rolls' = [rolls EXCEPT ![n] = settled]
      /\ scene' = [scene EXCEPT !.acted = @ \cup {c}]
      /\ disclosed' = SharedDeltas(DOMAIN after) \cup ({BumpedThreat(roll)} \ {None})
      /\ UNCHANGED <<table, nextRoll>>
  BY DEF AllocateResults, ActsThisRound
<1>2. roll \in RollType /\ c \in Characters
  BY DEF Types, RollsTyped, RollType
<1>3. Spends(allocation, roll.kept)
  BY <1>1, <1>2, AllocationSpends
<1>4. marks \in SUBSET Boxes /\ fallen \in BOOLEAN
  BY MarkedBoxes
<1>5. k \in Categories /\ category \in Categories \cup {None} /\ mode \in {"single", "downed"}
  BY DEF RolledCategory, Categories
<1> HIDE DEF marks, fallen, mode, category, remaining, open
<1>6. SheetsOK'
  BY <1>1, <1>2, <1>3, <1>4, SheetAfterOK, InjurySheets DEF Types
<1>7. RollsTyped'
  <2>1. settled \in RollType
    BY <1>2, <1>5, PendingType, ClosedType
  <2> HIDE DEF settled
  <2> QED
    BY <1>1, <2>1, RollReplaced DEF Types
<1>8. /\ DOMAIN after \subseteq ThreatIds
      /\ \A t \in DOMAIN after : after[t] \in ThreatType
  BY <1>2, <1>3, AfterThreats DEF Types
<1>9. /\ DOMAIN reached \subseteq ObjectiveKeys
      /\ \A o \in DOMAIN reached : reached[o] \in ObjectiveType
  BY <1>2, <1>3, AfterObjectives DEF Types
<1>10. /\ DOMAIN rescue \subseteq ObjectiveKeys
       /\ \A o \in DOMAIN rescue : rescue[o] \in ObjectiveType
  BY <1>2, RescueIfType
<1> HIDE DEF after, reached, rescue, settled
<1>11. ThreatsOK'
  BY <1>1, <1>8, UpdatedThreats DEF Types, BoardOK
<1>12. ObjectivesOK'
  <2> DEFINE between == Update(objectives, reached)
  <2>1. /\ DOMAIN between \subseteq ObjectiveKeys
        /\ \A o \in DOMAIN between : between[o] \in ObjectiveType
    BY <1>9, UpdatedObjectives DEF Types, BoardOK, ObjectivesOK
  <2>2. objectives' = Update(between, rescue)
    BY <1>1
  <2> HIDE DEF between
  <2>3. /\ DOMAIN Update(between, rescue) \subseteq ObjectiveKeys
        /\ \A o \in DOMAIN Update(between, rescue) : Update(between, rescue)[o] \in ObjectiveType
    BY <1>10, <2>1, UpdatedObjectives
  <2> QED
    BY <2>2, <2>3 DEF ObjectivesOK
<1>13. SceneOK'
  BY <1>1, <1>2 DEF Types, BoardOK, SceneOK, SceneType
<1>14. disclosed' \subseteq ThreatIds
  <2>1. {BumpedThreat(roll)} \ {None} \subseteq DOMAIN threats
    BY DEF BumpedThreat
  <2> QED
    BY <1>1, <1>8, <2>1 DEF SharedDeltas, Types, BoardOK, ThreatsOK
<1> QED
  BY <1>1, <1>6, <1>7, <1>11, <1>12, <1>13, <1>14 DEF Types, BoardOK, table

-----------------------------------------------------------------------------
(* Every command.                                                          *)

LEMMA SheetTypes ==
    ASSUME Types, SheetsOK', disclosed' = {}, UNCHANGED <<board, dice, table>>
    PROVE  Types'
  BY DEF Types, BoardOK, SceneOK, ObjectivesOK, ThreatsOK, RollsTyped, board, dice, table

LEMMA BoardTypes ==
    ASSUME Types, BoardOK', disclosed' \subseteq ThreatIds, UNCHANGED <<sheet, dice, table>>
    PROVE  Types'
  BY DEF Types, SheetsOK, RollsTyped, dice, table

LEMMA PlayerTypes ==
    ASSUME Types, NEW m \in Members, PlayerCommand(m)
    PROVE  Types'
<1> USE DEF Types
<1>1. ASSUME NEW c \in Characters, ClaimCharacter(m, c)
      PROVE  Types'
  BY <1>1, ClaimSheets, SheetTypes DEF ClaimCharacter, CharacterClaimed
<1>2. ASSUME NEW c \in Characters, ReleaseCharacter(m, c)
      PROVE  Types'
  BY <1>2, ClaimSheets, SheetTypes DEF ReleaseCharacter, CharacterReleased
<1>3. ASSUME NEW c \in Characters, NEW b \in Boxes, HealInjury(m, c, b)
      PROVE  Types'
  BY <1>3, HealSheets, SheetTypes DEF HealInjury
<1> USE DEF PlayerCommand
<1> QED
  BY <1>1, <1>2, <1>3, BeginTypes, AllocateTypes, ChooseTypes, UtilityTypes

LEMMA DirectionTypes ==
    ASSUME Types, NEW next \in Scenes, NEW reason,
           LoadScene(next) \/ NextScene(next, reason)
    PROVE  Types'
<1>1. SceneTransition(next) /\ UNCHANGED <<sheet, dice, table>>
  BY DEF LoadScene, NextScene, SceneTransition
<1> QED
  BY <1>1, TransitionBoard, BoardTypes DEF Types

LEMMA EndTypes ==
    ASSUME Types, NEW reason, EndMission(reason)
    PROVE  Types'
<1>1. /\ scene' = [scene EXCEPT !.status = "completed"] /\ missionEnded' = TRUE
      /\ disclosed' = {} /\ UNCHANGED <<sheet, objectives, threats, dice, paused>>
  BY DEF EndMission, MissionEnded
<1>2. SceneOK'
  BY <1>1 DEF Types, BoardOK, SceneOK, SceneType
<1> QED
  BY <1>1, <1>2 DEF Types, SheetsOK, BoardOK, ObjectivesOK, ThreatsOK, RollsTyped, dice

\* A correction by any patch of a sheet's fields, several of them included.
LEMMA CorrectedTypes ==
    ASSUME Types, NEW c \in Characters, NEW patch, PatchOK(patch), CorrectCharacter(c, patch)
    PROVE  Types'
<1>1. CharacterCorrected(c, patch) /\ disclosed' = {} /\ UNCHANGED <<board, dice, table>>
  BY DEF CorrectCharacter
<1> QED
  BY <1>1, CorrectSheets, SheetTypes DEF Types

\* The corrections of a sheet.
LEMMA CorrectionTypes ==
    ASSUME Types, NEW c \in Characters
    PROVE  /\ \A patch \in Patches(c) : CorrectCharacter(c, patch) => Types'
           /\ \A i \in LootItems : GrantItem(c, i) => Types'
           /\ \A a \in Advances : UnlockAdvance(c, a) => Types'
           /\ \A m \in Members \cup {None} : ReassignCharacter(c, m) => Types'
<1>1. ASSUME NEW patch \in Patches(c), CorrectCharacter(c, patch)
      PROVE  Types'
  BY <1>1, PatchesOK, CorrectedTypes, RosterAssumption DEF Types
<1>2. ASSUME NEW i \in LootItems, GrantItem(c, i)
      PROVE  Types'
  BY <1>2, GrantSheets, SheetTypes DEF Types, GrantItem
<1>3. ASSUME NEW a \in Advances, UnlockAdvance(c, a)
      PROVE  Types'
  BY <1>3, UnlockSheets, SheetTypes DEF Types, UnlockAdvance
<1>4. ASSUME NEW m \in Members \cup {None}, ReassignCharacter(c, m)
      PROVE  Types'
  BY <1>4, ClaimSheets, SheetTypes DEF Types, ReassignCharacter, CharacterReassigned
<1> QED
  BY <1>1, <1>2, <1>3, <1>4

\* The changes of the board.
LEMMA BoardCommandTypes ==
    ASSUME Types,
           \/ \E faces \in [Reinforced -> ReinforcementFaces] : EndRound(faces)
           \/ \E t \in ThreatIds : RevealThreat(t)
           \/ EditScene
           \/ \E mode \in {"book", "simplified"} : SetSceneRules(mode)
    PROVE  Types'
<1>1. BoardOK' /\ disclosed' \subseteq ThreatIds
  BY RoundBoard, RevealBoard, EditBoard, RulesBoard DEF Types
<1>2. UNCHANGED <<sheet, dice, table>>
  BY DEF EndRound, RevealThreat, EditScene, SetSceneRules
<1> QED
  BY <1>1, <1>2, BoardTypes

LEMMA GmTypes ==
    ASSUME Types, GmCommand
    PROVE  Types'
<1>1. CASE \E n \in Unresolved : \E approved, engaged, primary, throw, attackThrow :
              ReviewAction(n, approved, engaged, primary, throw, attackThrow)
  BY <1>1, ReviewTypes DEF Unresolved
<1>2. CASE \E n \in DOMAIN rolls : VoidRoll(n)
  BY <1>2, VoidTypes
<1>3. CASE \E next \in Scenes, reason \in BOOLEAN :
              LoadScene(next) \/ NextScene(next, reason)
  BY <1>3, DirectionTypes
<1>4. CASE \E reason \in BOOLEAN : EndMission(reason)
  BY <1>4, EndTypes
<1>5. CASE \/ \E faces \in [Reinforced -> ReinforcementFaces] : EndRound(faces)
           \/ \E t \in ThreatIds : RevealThreat(t)
           \/ EditScene
           \/ \E mode \in {"book", "simplified"} : SetSceneRules(mode)
  BY <1>5, BoardCommandTypes
<1>6. CASE \E c \in Characters :
              \/ \E patch \in Patches(c) : CorrectCharacter(c, patch)
              \/ \E i \in LootItems : GrantItem(c, i)
              \/ \E a \in Advances : UnlockAdvance(c, a)
              \/ \E m \in Members \cup {None} : ReassignCharacter(c, m)
  BY <1>6, CorrectionTypes
<1>7. \/ \E n \in Unresolved : \E approved, engaged, primary, throw, attackThrow :
            ReviewAction(n, approved, engaged, primary, throw, attackThrow)
      \/ \E n \in DOMAIN rolls : VoidRoll(n)
      \/ \E next \in Scenes, reason \in BOOLEAN : LoadScene(next) \/ NextScene(next, reason)
      \/ \E reason \in BOOLEAN : EndMission(reason)
      \/ \E faces \in [Reinforced -> ReinforcementFaces] : EndRound(faces)
      \/ \E t \in ThreatIds : RevealThreat(t)
      \/ EditScene
      \/ \E mode \in {"book", "simplified"} : SetSceneRules(mode)
      \/ \E c \in Characters :
            \/ \E patch \in Patches(c) : CorrectCharacter(c, patch)
            \/ \E i \in LootItems : GrantItem(c, i)
            \/ \E a \in Advances : UnlockAdvance(c, a)
            \/ \E m \in Members \cup {None} : ReassignCharacter(c, m)
  BY Zenon DEF GmCommand
<1> QED
  BY <1>1, <1>2, <1>3, <1>4, <1>5, <1>6, <1>7

LEMMA InitTypes == Init => Types
<1> SUFFICES ASSUME Init PROVE Types
  OBVIOUS
<1>1. ASSUME NEW c \in Characters
      PROVE  SheetOK(InitialSheet(c))
  <2>1. AtMost(MaxBlood, Kit[c].blood) \in 0..MaxBlood
    BY RosterAssumption, RulesAssumption, CapIn
  <2>2. Kit[c].items \subseteq Items /\ \A i \in Items : Gear[i].maxUses \in Int
    BY RosterAssumption
  <2> QED
    BY <2>1, <2>2 DEF InitialSheet, SheetOK, SheetType, UsesLeft
<1>2. SheetsOK
  BY <1>1 DEF Init, SheetsOK
<1>3. SceneOK
  BY DEF Init, SceneOK, SceneType
<1>4. ObjectivesOK /\ ThreatsOK
  BY DEF Init, ObjectivesOK, ThreatsOK, EmptyMap
<1>5. RollsTyped
  BY DEF Init, RollsTyped, EmptyMap
<1> QED
  BY <1>2, <1>3, <1>4, <1>5 DEF Init, Types, BoardOK

LEMMA StepTypes == Types /\ [Next]_vars => Types'
<1> SUFFICES ASSUME Types, [Next]_vars PROVE Types'
  OBVIOUS
<1>1. ASSUME NEW m \in Members, PlayerCommand(m)
      PROVE  Types'
  BY <1>1, PlayerTypes
<1>2. CASE GmCommand
  BY <1>2, GmTypes
<1>3. ASSUME NEW value \in BOOLEAN, SetPaused(value)
      PROVE  Types'
  BY <1>3 DEF SetPaused, PausedOrResumed, Types, SheetsOK, BoardOK, SceneOK, ObjectivesOK,
              ThreatsOK, RollsTyped, board, dice
<1>4. CASE UNCHANGED vars
  BY <1>4 DEF vars, Types, SheetsOK, BoardOK, SceneOK, ObjectivesOK, ThreatsOK, RollsTyped
<1> QED
  BY <1>1, <1>2, <1>3, <1>4 DEF Next

\* The record the room stores is one parseState loads again, after whatever
\* commands: Blood within its cap and uses within theirs, none charged below
\* zero, the opposition a roll met no less than zero, every reference to something
\* that exists, and only the categories and statuses the sheet and the rolls know
\* (state.ts, engine.ts).  Ratings, attacks and challenges are numbers, no more:
\* the GM's edits set any.
THEOREM TypeCorrect == Spec => []TypeOK
<1>1. Spec => []Types
  BY InitTypes, StepTypes, PTL DEF Spec
<1> QED
  BY <1>1, TypesMean, PTL

-----------------------------------------------------------------------------
(* Charges.                                                                *)

\* The history of charges grows at a review only.
ChargeCovered ==
    \A n \in DOMAIN taken' \ DOMAIN taken :
       LET s == sheet[rolls[n].character]
       IN  /\ taken'[n].blood <= s.blood
           /\ \A i \in taken'[n].items : i \in s.items /\ s.uses[i] > 0

LEMMA ReviewCovered ==
    ASSUME NEW n, NEW approved, NEW engaged, NEW primary, NEW throw, NEW attackThrow,
           ReviewAction(n, approved, engaged, primary, throw, attackThrow)
    PROVE  ChargeCovered
<1> DEFINE roll == rolls[n]
           charge == [blood |-> BloodCost(roll.powers), items |-> roll.items]
<1>1. taken' = Update(taken, [k \in {n} |-> charge])
  BY DEF ReviewAction
<1>2. PoolAllowed(roll.character, sheet[roll.character], roll.items, roll.powers)
  BY DEF ReviewAction, Reviewable
<1>3. /\ BloodCost(roll.powers) <= sheet[roll.character].blood
      /\ \A i \in roll.items : /\ i \in sheet[roll.character].items
                               /\ sheet[roll.character].uses[i] > 0
  BY <1>2 DEF PoolAllowed
<1>4. \A k \in DOMAIN taken' \ DOMAIN taken : k = n /\ taken'[k] = charge
  BY <1>1 DEF Update
<1> QED
  BY <1>3, <1>4 DEF ChargeCovered

LEMMA StepCovered ==
    ASSUME [Next]_vars
    PROVE  ChargeCovered
<1>1. CASE taken' = taken
  BY <1>1 DEF ChargeCovered
<1>2. ASSUME NEW m, PlayerCommand(m)
      PROVE  taken' = taken
  <2>1. ASSUME NEW c, NEW b, ClaimCharacter(m, c) \/ ReleaseCharacter(m, c) \/ HealInjury(m, c, b)
        PROVE  taken' = taken
    BY <2>1 DEF ClaimCharacter, ReleaseCharacter, HealInjury, dice
  <2>2. ASSUME NEW c, NEW stat, NEW items, NEW powers, NEW claims, NEW engaging,
               BeginAction(m, c, stat, items, powers, claims, engaging)
        PROVE  taken' = taken
    BY <2>2 DEF BeginAction
  <2>3. ASSUME NEW n, NEW allocation, NEW face, AllocateResults(m, n, allocation, face)
        PROVE  taken' = taken
    BY <2>3 DEF AllocateResults
  <2>4. ASSUME NEW n, NEW x, NEW y, ChooseInjuryCategory(m, n, x) \/ UseUtilityItem(m, x, y, n)
        PROVE  taken' = taken
    BY <2>4 DEF ChooseInjuryCategory, UseUtilityItem
  <2> QED
    BY <1>2, <2>1, <2>2, <2>3, <2>4 DEF PlayerCommand
<1>3. CASE GmCommand
  <2>1. ASSUME NEW n, NEW approved, NEW engaged, NEW primary, NEW throw, NEW attackThrow,
               ReviewAction(n, approved, engaged, primary, throw, attackThrow)
        PROVE  ChargeCovered
    BY <2>1, ReviewCovered
  <2>2. ASSUME NEW x, VoidRoll(x) \/ LoadScene(x) \/ EndMission(x) \/ EndRound(x)
                        \/ RevealThreat(x) \/ SetSceneRules(x) \/ EditScene
        PROVE  taken' = taken
    BY <2>2 DEF VoidRoll, LoadScene, EndMission, EndRound, RevealThreat, SetSceneRules,
                EditScene, SceneTransition, dice
  <2>3. ASSUME NEW x, NEW y, \/ NextScene(x, y) \/ CorrectCharacter(x, y) \/ GrantItem(x, y)
                             \/ UnlockAdvance(x, y) \/ ReassignCharacter(x, y)
        PROVE  taken' = taken
    BY <2>3 DEF NextScene, CorrectCharacter, GrantItem, UnlockAdvance, ReassignCharacter,
                SceneTransition, dice
  <2> QED
    BY <1>1, <1>3, <2>1, <2>2, <2>3 DEF GmCommand
<1>4. ASSUME NEW value, SetPaused(value)
      PROVE  taken' = taken
  BY <1>4 DEF SetPaused, dice
<1> QED
  BY <1>1, <1>2, <1>3, <1>4 DEF Next, vars

\* A review never charges what the character no longer has: buildPool runs again
\* on the sheet as it is at the review (decideReviewAction).
THEOREM ReviewsCovered == Spec => ChargesAreCovered
<1>1. [Next]_vars => [ChargeCovered]_vars
  BY StepCovered
<1> QED
  BY <1>1, PTL DEF Spec, ChargesAreCovered, ChargeCovered
=============================================================================
