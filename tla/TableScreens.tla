---------------------------- MODULE TableScreens ----------------------------
(***************************************************************************)
(* The dashboards of Eat the Reich (apps/web/src/player2, gm2 and          *)
(* landing): what each screen lets its user send, composed with the engine *)
(* that decides it.                                                        *)
(*                                                                         *)
(* A screen renders the last projection it was delivered, which may be     *)
(* behind the game, and keeps what its user has filled in: a compose form  *)
(* per player, a review card per declared roll, the GM's choice of a scene *)
(* and the GM's correction dialog.  A form lives as long as its component  *)
(* is mounted, so what it holds can grow old while the game moves on.      *)
(* What a screen offers comes from its projection and its forms; the       *)
(* command carries no revision (useRoomProjection's dispatch sends its     *)
(* identifier and payload alone), so the engine decides it against the     *)
(* game as it is.  A command the engine refuses changes nothing, the form  *)
(* included.  Reading a resolution before the next step is                 *)
(* ProjectionSync's.                                                       *)
(***************************************************************************)
EXTENDS EatTheReich

CONSTANTS
    Gm,             \* the GM's console, a screen like the players'
    MaxBehind,      \* accepted commands screens have not rendered, counted per screen (a bound)
    Mission,        \* the scenes the GM's console offers, in order
    Corrected,      \* what the dialog is used on: Blood steps, items, boxes, ticks (a bound)
    MaxTouched      \* how many fields in one correction (a bound)

ASSUME ConsoleAssumption == Gm \notin Members

ASSUME MissionAssumption ==
    /\ Mission \in Seq(Scenes) /\ Len(Mission) > 0
    /\ \A i, j \in DOMAIN Mission : Mission[i].id = Mission[j].id => i = j

\* The dashboard offers a character's stats, a fixed list.
ASSUME StatsAssumption == IsFiniteSet(StatChoices) /\ StatChoices \ {"none"} # {}

ASSUME DialogAssumption ==
    Corrected \in [blood : SUBSET Int, uses : SUBSET Items, marked : SUBSET Boxes,
                   status : SUBSET {"downed", "retired"}]

VARIABLES
    shown,      \* per screen: the projection it renders
    missed,     \* per screen: the accepted commands it has not rendered (for the bound)
    compose,    \* per player: the compose form, None while it is not shown
    cards,      \* per declared roll: the GM's review card
    choice,     \* the scene the GM picked, and the scene it was picked in
    dialog      \* the correction dialog, None while it is closed

views == <<shown, missed>>
screens == <<views, compose, cards, choice, dialog>>

Screens == Members \cup {Gm}

-----------------------------------------------------------------------------
(* Projections.                                                            *)

\* A declared roll is shown in full to its actor and to the GM only.
SeenInFull(w, n) == w = Gm \/ rolls[n].status # "declared" \/ rolls[n].actor = w

\* The projection of the game for a screen: open rolls, and hidden Threats for the
\* GM only.  Of the sheets that are not its own a player's screen uses who plays
\* them and nothing else; a roll it does not see in full shows it nothing.
Projection(w) ==
    [sheet |-> sheet, scene |-> scene, objectives |-> objectives,
     threats |-> [t \in (IF w = Gm THEN DOMAIN threats ELSE Revealed(threats)) |-> threats[t]],
     rolls |-> [n \in {n \in Unresolved : SeenInFull(w, n)} |-> rolls[n]],
     paused |-> paused, missionEnded |-> missionEnded]

\* The character a player's projection calls self.
Own(v, m) ==
    IF \E c \in Characters : v.sheet[c].claimedBy = m
    THEN CHOOSE c \in Characters : v.sheet[c].claimedBy = m ELSE None

\* The open roll of the player's character, if it is shown in full.
OwnRolls(v, m) == {n \in DOMAIN v.rolls : v.rolls[n].character = Own(v, m)}
OwnRoll(v, m) == CHOOSE n \in OwnRolls(v, m) : TRUE

\* The step a player's dashboard shows; without a character, the claim screen.
Step(v, m) ==
    IF Own(v, m) = None THEN "claim"
    ELSE IF OwnRolls(v, m) = {} THEN "compose" ELSE v.rolls[OwnRoll(v, m)].status

Declared(v) == {n \in DOMAIN v.rolls : v.rolls[n].status = "declared"}

Active(targets) == {x \in DOMAIN targets : targets[x].status = "active"}

PrimaryDone(v) ==
    \E o \in DOMAIN v.objectives :
        v.objectives[o].kind = "primary" /\ v.objectives[o].status = "complete"

Carried(v, c) == v.sheet[c].items \cup Kit[c].abilities

Plus(v, c, x) == IF x \in v.sheet[c].items THEN Gear[x].plus
                 ELSE IF x \in Kit[c].abilities THEN Powers[x].plus ELSE 0

-----------------------------------------------------------------------------
(* Components that are mounted and unmounted as projections arrive.        *)

HighestStat(c) ==
    LET stats == StatChoices \ {"none"}
    IN  CHOOSE s \in stats : \A other \in stats : Kit[c].stats[other] <= Kit[c].stats[s]

BlankForm(c) ==
    [stat |-> HighestStat(c), items |-> {}, powers |-> {}, claims |-> {}, engaged |-> {}]

\* The compose form as a dashboard mounts it.
Mounted(v, m) == IF Step(v, m) = "compose" THEN BlankForm(Own(v, m)) ELSE None

\* A new card approves every claim whose source the GM's sheet shows, and
\* engages what the player proposed.
NewCard(v, n) ==
    [approved |-> v.rolls[n].claims \cap Carried(v, v.rolls[n].character),
     engaged |-> v.rolls[n].proposed]

\* Some screens render the game as it now is: their forms stay as they are, appear
\* blank or go away.
ComposeFollows(seeing) ==
    compose' = [m \in Members |->
        IF m \in seeing
        THEN IF Step(shown'[m], m) = "compose" /\ compose[m] # None
             THEN compose[m] ELSE Mounted(shown'[m], m)
        ELSE compose[m]]

CardsFollow(seeing) ==
    cards' = IF Gm \in seeing
             THEN [n \in Declared(shown'[Gm]) |->
                      IF n \in DOMAIN cards THEN cards[n] ELSE NewCard(shown'[Gm], n)]
             ELSE cards

Renders(seeing) ==
    /\ shown' = [w \in Screens |-> IF w \in seeing THEN Projection(w)' ELSE shown[w]]
    /\ ComposeFollows(seeing) /\ CardsFollow(seeing)

\* The engine accepted a command.  A screen renders it at once or not yet; what it
\* is delivered later is the game as it is then (a projection in flight and one
\* not sent yet are the same).
Decided ==
    \E seeing \in SUBSET Screens :
        /\ missed' = [w \in Screens |-> IF w \in seeing THEN 0 ELSE missed[w] + 1]
        /\ SumOf(missed', Screens) <= MaxBehind
        /\ Renders(seeing)

Follow == Decided /\ UNCHANGED <<choice, dialog>>

\* A projection arrives.
Receive(w) ==
    /\ missed[w] > 0
    /\ UNCHANGED <<vars, choice, dialog>>
    /\ missed' = [missed EXCEPT ![w] = 0]
    /\ Renders({w})

\* The choice's scene while it stands, otherwise the next one of the mission,
\* wrapping to any other.
DefaultScene(current) ==
    LET at == {i \in DOMAIN Mission : Mission[i].id = current}
        later == {i \in DOMAIN Mission : i - 1 \in at}
        others == DOMAIN Mission \ at
    IN  IF current = None \/ others = {} THEN Mission[1]
        ELSE IF later # {} THEN Mission[CHOOSE i \in later : TRUE]
        ELSE Mission[CHOOSE i \in others : \A j \in others : i <= j]

Current == shown[Gm].scene.id

\* Mutant: a pick counts in every scene.
SelectedWherever ==
    IF choice # None
    THEN Mission[CHOOSE i \in DOMAIN Mission : Mission[i].id = choice.picked]
    ELSE DefaultScene(Current)

\* A console that has not rendered the last change of scene selects by the scene
\* it shows.
SelectedScene ==
    IF choice # None /\ choice.for = Current
    THEN Mission[CHOOSE i \in DOMAIN Mission : Mission[i].id = choice.picked]
    ELSE DefaultScene(Current)

-----------------------------------------------------------------------------
(* The player's dashboard.                                                 *)

Toggled(S, x) == IF x \in S THEN S \ {x} ELSE S \cup {x}

\* Mutant: a source that is unticked keeps its bonus claim.
WithoutSourceKept(form, x, selection) == form

\* Unticking an item or an ability withdraws its bonus claim.
WithoutSource(form, x, selection) ==
    IF x \in selection THEN [form EXCEPT !.claims = @ \ {x}] ELSE form

Edited(m, form) ==
    /\ compose' = [compose EXCEPT ![m] = form]
    /\ UNCHANGED <<vars, views, cards, choice, dialog>>

Composing(m) == Step(shown[m], m) = "compose"

PickStat(m, stat) == Composing(m) /\ Edited(m, [compose[m] EXCEPT !.stat = stat])

\* Only what the sheet lists has a checkbox; utility and spent items are greyed.
ToggleItem(m, i) ==
    LET s == shown[m].sheet[Own(shown[m], m)]
    IN  /\ Composing(m)
        /\ i \in s.items /\ s.uses[i] > 0 /\ Gear[i].use = "pool"
        /\ Edited(m, WithoutSource([compose[m] EXCEPT !.items = Toggled(@, i)],
                                   i, compose[m].items))

\* Every ability but the SPECIALs is offered, passive ones included.
ToggleAbility(m, a) ==
    LET c == Own(shown[m], m)
    IN  /\ Composing(m)
        /\ a \in Kit[c].abilities /\ Powers[a].trigger # "special"
        /\ Powers[a].trigger = "blood" => shown[m].sheet[c].blood >= Powers[a].bloodCost
        /\ Edited(m, WithoutSource([compose[m] EXCEPT !.powers = Toggled(@, a)],
                                   a, compose[m].powers))

ToggleClaim(m, x) ==
    /\ Composing(m)
    /\ x \in compose[m].items \cup compose[m].powers
    /\ Plus(shown[m], Own(shown[m], m), x) # 0
    /\ Edited(m, [compose[m] EXCEPT !.claims = Toggled(@, x)])

ToggleEngaged(m, t) ==
    /\ Composing(m) /\ t \in Active(shown[m].threats)
    /\ Edited(m, [compose[m] EXCEPT !.engaged = Toggled(@, t)])

Declare(m) ==
    LET v == shown[m]
        c == Own(v, m)
        f == compose[m]
    IN  /\ Composing(m)
        /\ ~v.sheet[c].downed /\ ~v.sheet[c].retired /\ c \notin v.scene.acted
        /\ BeginAction(m, c, f.stat, f.items, f.powers, f.claims, f.engaged)
        /\ Follow

\* The claim screen offers the characters nobody plays.
Claim(m, c) ==
    /\ Step(shown[m], m) = "claim" /\ shown[m].sheet[c].claimedBy = None
    /\ ClaimCharacter(m, c)
    /\ Follow

\* A button per usable item of this kind.
Usable(v, m, i, use) ==
    LET s == v.sheet[Own(v, m)]
    IN  i \in s.items /\ Gear[i].use = use /\ s.uses[i] > 0

RegainBlood(m, i) ==
    /\ Composing(m) /\ Usable(shown[m], m, i, "blood")
    /\ UseUtilityItem(m, Own(shown[m], m), i, None)
    /\ Follow

\* Mutant: the panel offers the catalogue whole, SPECIALs for any die.
OffersUnfiltered(v, m, result) ==
    {OnObjective(o) : o \in Active(v.objectives)} \cup {OnThreat(t) : t \in Active(v.threats)}
        \cup (IF v.rolls[OwnRoll(v, m)].attack > 0 THEN {Defend} ELSE {}) \cup {Feed}
        \cup {Special(a) : a \in {a \in Kit[Own(v, m)].abilities : Powers[a].trigger = "special"}}

\* The targets the allocation panel offers for a die (validAllocations, and
\* SPECIALs for criticals only).
Offers(v, m, result) ==
    LET special == {a \in Kit[Own(v, m)].abilities : Powers[a].trigger = "special"}
    IN  {OnObjective(o) : o \in Active(v.objectives)} \cup {OnThreat(t) : t \in Active(v.threats)}
        \cup (IF v.rolls[OwnRoll(v, m)].attack > 0 THEN {Defend} ELSE {}) \cup {Feed}
        \cup (IF result = "critical" THEN {Special(a) : a \in special} ELSE {})

\* Every kept die has been given a target the panel offered; that dice were given
\* theirs on different renders is left out.
ConfirmAllocation(m) ==
    LET v == shown[m]
        n == OwnRoll(v, m)
        kept == v.rolls[n].kept
        offered == UNION {Offers(v, m, kept[i]) : i \in DOMAIN kept}
    IN  /\ Step(v, m) = "awaiting_allocation" /\ n \in DOMAIN rolls
        /\ \E allocation \in [DOMAIN kept -> offered], face \in Faces :
              /\ \A i \in DOMAIN kept : allocation[i] \in Offers(v, m, kept[i])
              /\ AllocateResults(m, n, allocation, face)
        /\ Follow

\* The categories the injury panel offers.
InjuryOffers(v, m) ==
    LET category == v.rolls[OwnRoll(v, m)].category
    IN  {k \in Categories : /\ OpenBoxes(v.sheet[Own(v, m)].marked, k) # {}
                            /\ category \in {None, k}}

Injured(m) == Step(shown[m], m) = "awaiting_injury_choice" /\ OwnRoll(shown[m], m) \in DOMAIN rolls

ConfirmInjury(m, k) ==
    /\ Injured(m) /\ k \in InjuryOffers(shown[m], m)
    /\ ChooseInjuryCategory(m, OwnRoll(shown[m], m), k)
    /\ Follow

DestroyHat(m, i) ==
    /\ Injured(m) /\ Usable(shown[m], m, i, "hat")
    /\ UseUtilityItem(m, Own(shown[m], m), i, OwnRoll(shown[m], m))
    /\ Follow

\* The button of every dashboard.
PauseTable(m) ==
    /\ Step(shown[m], m) # "claim" /\ ~shown[m].paused
    /\ SetPaused(TRUE)
    /\ Follow

\* A reload mounts the dashboard anew, on the game as it is.
ReloadDashboard(m) ==
    /\ compose[m] # None
    /\ shown' = [shown EXCEPT ![m] = Projection(m)]
    /\ missed' = [missed EXCEPT ![m] = 0]
    /\ compose' = [compose EXCEPT ![m] = Mounted(shown'[m], m)]
    /\ UNCHANGED <<vars, cards, choice, dialog>>

-----------------------------------------------------------------------------
(* The GM's console.  While the correction dialog is open the rest of the  *)
(* page is inert.                                                          *)

Console == dialog = None

ToggleApproval(n, x) ==
    LET v == shown[Gm]
    IN  /\ Console /\ n \in DOMAIN cards
        /\ x \in v.rolls[n].claims \cap Carried(v, v.rolls[n].character)
        /\ cards' = [cards EXCEPT ![n].approved = Toggled(@, x)]
        /\ UNCHANGED <<vars, views, compose, choice, dialog>>

\* Threats still hidden are offered too; beaten and removed ones are not.
ToggleThreat(n, t) ==
    /\ Console /\ n \in DOMAIN cards
    /\ t \in Active(shown[Gm].threats)
    /\ cards' = [cards EXCEPT ![n].engaged = Toggled(@, t)]
    /\ UNCHANGED <<vars, views, compose, choice, dialog>>

RollIt(n) ==
    LET roll == rolls[n]
        c == roll.character
        approved == cards[n].approved
        engaged == cards[n].engaged
    IN  /\ Console /\ n \in DOMAIN cards /\ n \in Unresolved
        /\ engaged \subseteq ActiveRevealed
        /\ \E primary \in engaged \cup {None}, attackThrow \in Throws(AttackDice(threats, engaged)),
              throw \in Throws(PoolSize(c, sheet[c], roll.stat, roll.items, roll.powers, approved)) :
              ReviewAction(n, approved, engaged, primary, throw, attackThrow)
        /\ Follow

\* A pick in time for the last directive (a bound).
PickScene(i) ==
    /\ Console /\ directives = MaxDirectives - 1
    /\ choice' = [for |-> Current, picked |-> Mission[i].id]
    /\ UNCHANGED <<vars, views, compose, cards, dialog>>

\* Without a scene the button loads one, with a scene it advances; the reason goes
\* with it when the console shows the primary Objective open.
AdvanceScene ==
    /\ Console
    /\ IF shown[Gm].scene.status = "none" THEN LoadScene(SelectedScene)
                                          ELSE NextScene(SelectedScene, ~PrimaryDone(shown[Gm]))
    /\ Follow

Directing == Console /\ shown[Gm].scene.status # "none"

FinishRound ==
    /\ Directing
    /\ \E faces \in [Reinforced -> ReinforcementFaces] : EndRound(faces)
    /\ Follow

Reveal(t) ==
    /\ Console /\ t \in DOMAIN shown[Gm].threats \ Revealed(shown[Gm].threats)
    /\ RevealThreat(t)
    /\ Follow

SwitchRules ==
    /\ Directing
    /\ SetSceneRules(IF shown[Gm].scene.mode = "book" THEN "simplified" ELSE "book")
    /\ Follow

\* The edit form sends all its numbers, those loaded with the target included.
ApplyEdit ==
    LET v == shown[Gm]
    IN  /\ Directing /\ Directive
        /\ \/ \E o \in DOMAIN v.objectives : \E r \in Edits(v.objectives[o].rating),
                 k \in Edits(v.objectives[o].challenge) : EditObjective(o, r, k)
           \/ \E t \in DOMAIN v.threats : \E r \in Edits(v.threats[t].rating),
                 a \in Edits(v.threats[t].attack), k \in Edits(v.threats[t].challenge) :
                    EditThreat(t, r, a, k)
        /\ UNCHANGED <<sheet, scene, dice, table>>
        /\ Follow

VoidThis(n) ==
    /\ Console /\ n \in DOMAIN shown[Gm].rolls /\ n \in DOMAIN rolls
    /\ VoidRoll(n)
    /\ Follow

GrantForm(c, i) == Console /\ GrantItem(c, i) /\ Follow
UnlockForm(c, a) == Console /\ UnlockAdvance(c, a) /\ Follow
ReassignForm(c, m) == Console /\ ReassignCharacter(c, m) /\ Follow

EndButton ==
    /\ Console /\ ~shown[Gm].missionEnded
    /\ EndMission(~PrimaryDone(shown[Gm]))
    /\ Follow

PauseButton == Console /\ SetPaused(~shown[Gm].paused) /\ Follow

\* A reload mounts the console anew: cards start from the declarations.
ReloadConsole ==
    /\ shown' = [shown EXCEPT ![Gm] = Projection(Gm)]
    /\ missed' = [missed EXCEPT ![Gm] = 0]
    /\ cards' = [n \in Declared(shown'[Gm]) |-> NewCard(shown'[Gm], n)]
    /\ choice' = None /\ dialog' = None
    /\ UNCHANGED <<vars, compose>>

-----------------------------------------------------------------------------
(* The correction dialog.                                                  *)

\* The sheet the dialog shows, from the console's projection.
Sheet == shown[Gm].sheet[dialog.character]

\* touched is history: the fields whose controls the GM has used.
OpenCorrection(c) ==
    LET s == shown[Gm].sheet[c]
    IN  /\ Console /\ directives < MaxDirectives
        /\ dialog' = [character |-> c, delta |-> 0, uses |-> EmptyMap, boxes |-> EmptyMap,
                      downed |-> s.downed, retired |-> s.retired, touched |-> {}]
        /\ UNCHANGED <<vars, views, compose, cards, choice>>

Touch(field, form) ==
    /\ dialog # None
    /\ Cardinality(dialog.touched \cup {field}) <= MaxTouched
    /\ dialog' = [form EXCEPT !.touched = @ \cup {field}]
    /\ UNCHANGED <<vars, views, compose, cards, choice>>

StepBlood(by) ==
    /\ dialog # None /\ dialog.delta + by \in Corrected.blood
    /\ Touch("blood", [dialog EXCEPT !.delta = @ + by])

\* One item at a time (a bound).
StepUses(i, by) ==
    /\ dialog # None /\ i \in Sheet.items \cap Corrected.uses /\ DOMAIN dialog.uses \subseteq {i}
    /\ LET now == IF i \in DOMAIN dialog.uses THEN dialog.uses[i] ELSE Sheet.uses[i]
       IN  /\ now + by \in 0..Gear[i].maxUses
           /\ Touch("uses", [dialog EXCEPT !.uses = Update(@, [x \in {i} |-> now + by])])

\* Ticking a box back withdraws its override.  One box at a time (a bound).
TickBox(b) ==
    /\ dialog # None /\ b \in Corrected.marked /\ DOMAIN dialog.boxes \subseteq {b}
    /\ LET flipped == b \notin Sheet.marked
           back == b \in DOMAIN dialog.boxes /\ dialog.boxes[b] = flipped
       IN  Touch("marked", [dialog EXCEPT !.boxes =
               IF back THEN Without(@, {b}) ELSE Update(@, [x \in {b} |-> flipped])])

TickStatus(field) ==
    /\ dialog # None
    /\ IF field = "downed" THEN Touch(field, [dialog EXCEPT !.downed = ~@])
                           ELSE Touch(field, [dialog EXCEPT !.retired = ~@])

\* The overridden uses that differ from those shown: these are sent.
SentUses == {i \in DOMAIN dialog.uses : i \notin Sheet.items \/ dialog.uses[i] # Sheet.uses[i]}

\* The fields the patch carries: what the form holds is compared with the sheet
\* that is shown when the GM applies it.
PatchedFields ==
    {f \in {"blood"} : dialog.delta # 0}
        \cup {f \in {"uses"} : SentUses # {}}
        \cup {f \in {"marked"} : DOMAIN dialog.boxes # {}}
        \cup {f \in {"downed"} : dialog.downed # Sheet.downed}
        \cup {f \in {"retired"} : dialog.retired # Sheet.retired}

\* What the patch makes of a field of the sheet s: Blood counts from the sheet that
\* is shown, uses and boxes go by item and by box.
Correction(s, field) ==
    CASE field = "blood" -> AtMost(MaxBlood, Floor0(Sheet.blood + dialog.delta))
      [] field = "uses" -> Update(s.uses, [i \in SentUses |-> dialog.uses[i]])
      [] field = "marked" -> (s.marked \ DOMAIN dialog.boxes)
                                \cup {b \in DOMAIN dialog.boxes : dialog.boxes[b]}
      [] field = "downed" -> dialog.downed
      [] field = "retired" -> dialog.retired

\* The dialog closes as soon as it has sent; uses of an item the character no
\* longer carries are refused.
ApplyCorrection ==
    /\ dialog # None /\ PatchedFields # {}
    /\ LET s == sheet[dialog.character]
       IN  IF SentUses \subseteq s.items
           THEN /\ CorrectCharacter(dialog.character, [f \in PatchedFields |-> Correction(s, f)])
                /\ Decided
           ELSE UNCHANGED <<vars, views, compose, cards>>
    /\ dialog' = None
    /\ UNCHANGED choice

CloseCorrection ==
    dialog # None /\ dialog' = None /\ UNCHANGED <<vars, views, compose, cards, choice>>

-----------------------------------------------------------------------------
PlayerScreen(m) ==
    \/ \E c \in Characters : Claim(m, c)
    \/ \E stat \in StatChoices : PickStat(m, stat)
    \/ \E i \in Items : ToggleItem(m, i) \/ RegainBlood(m, i) \/ DestroyHat(m, i)
    \/ \E a \in Abilities : ToggleAbility(m, a)
    \/ \E x \in Items \cup Abilities : ToggleClaim(m, x)
    \/ \E t \in ThreatIds : ToggleEngaged(m, t)
    \/ Declare(m)
    \/ ConfirmAllocation(m)
    \/ \E k \in Categories : ConfirmInjury(m, k)
    \/ PauseTable(m) \/ ReloadDashboard(m)

GmScreen ==
    \/ \E n \in DOMAIN cards : \E x \in shown[Gm].rolls[n].claims : ToggleApproval(n, x)
    \/ \E n \in DOMAIN cards, t \in ThreatIds : ToggleThreat(n, t)
    \/ \E n \in DOMAIN cards : RollIt(n)
    \/ \E n \in DOMAIN shown[Gm].rolls : VoidThis(n)
    \/ \E i \in DOMAIN Mission : PickScene(i)
    \/ \E t \in ThreatIds : Reveal(t)
    \/ AdvanceScene \/ EndButton
    \/ FinishRound \/ SwitchRules \/ ApplyEdit \/ PauseButton \/ ReloadConsole
    \/ \E c \in Characters, i \in LootItems : GrantForm(c, i)
    \/ \E c \in Characters, a \in Advances : UnlockForm(c, a)
    \/ \E c \in Characters, m \in Members \cup {None} : ReassignForm(c, m)
    \/ \E c \in Characters : OpenCorrection(c)
    \/ \E by \in {-1, 1} : StepBlood(by) \/ \E i \in Items : StepUses(i, by)
    \/ \E b \in Boxes : TickBox(b)
    \/ \E field \in Corrected.status : TickStatus(field)
    \/ ApplyCorrection \/ CloseCorrection

\* Commands of the protocol no screen sends; what EditScene may add is left out.
OtherClients ==
    /\ \/ \E m \in Members, c \in Characters :
             ReleaseCharacter(m, c) \/ \E b \in Boxes : HealInjury(m, c, b)
       \/ /\ Directive
          /\ \/ \E o \in ObjectiveIds : RemoveFromScene({o}, {})
             \/ \E t \in ThreatIds : RemoveFromScene({}, {t})
          /\ UNCHANGED <<sheet, scene, dice, table>>
    /\ Follow

SInit ==
    /\ Init
    /\ shown = [w \in Screens |-> Projection(w)]
    /\ missed = [w \in Screens |-> 0]
    /\ compose = [m \in Members |-> None]
    /\ cards = EmptyMap
    /\ choice = None
    /\ dialog = None

SNext ==
    \/ \E m \in Members : PlayerScreen(m)
    \/ GmScreen
    \/ OtherClients
    \/ \E w \in Screens : Receive(w)

SSpec == SInit /\ [][SNext]_<<vars, screens>>

-----------------------------------------------------------------------------
(* Properties.                                                             *)

\* Commands name a roll by its number and say nothing of what their screen showed,
\* so it must be the roll the screen meant: whatever was voided, declared anew,
\* reviewed from a console that is behind or reassigned, a roll a screen shows is,
\* as long as it has the status shown, the very roll, with the same dice.
SeenRollsStand ==
    \A w \in Screens : \A n \in DOMAIN shown[w].rolls \cap DOMAIN rolls :
        shown[w].rolls[n].status = rolls[n].status => shown[w].rolls[n] = rolls[n]

\* A target is gone, or no longer active, since the panel rendered it.
Gone(v, t) ==
    \/ t.kind = "objective" /\ t.id \in Active(v.objectives) \ Active(objectives)
    \/ t.kind = "threat" /\ t.id \in Active(v.threats) \ Active(threats)

\* The two refusals of decide the catalogue knows nothing of.
Forbidden(roll, t) ==
    \/ t = Feed /\ \E x \in DOMAIN threats : roll.engaged = {x} /\ threats[x].noFeeding
    \/ t.kind = "special" /\ HasTag(roll.character, sheet[roll.character].marked, "noSpecials")

\* The catalogue of targets is the template's own list for the panel, decide
\* checks each die again with its own rules, and a panel may be behind: as long as
\* its roll still waits, every target it offers is one decide takes, unless the
\* target is gone or forbidden; and every injury category whose boxes are as shown
\* is offered exactly when decide takes it.
OffersAreAccepted ==
    \A m \in Members :
        LET v == shown[m]
            n == OwnRoll(v, m)
            roll == rolls[n]
            boxes(s, k) == {b \in s[Own(v, m)].marked : b[1] = k}
        IN  Step(v, m) \in {"awaiting_allocation", "awaiting_injury_choice"}
            /\ n \in DOMAIN rolls /\ roll.status = Step(v, m) =>
               IF Step(v, m) = "awaiting_allocation"
               THEN \A i \in DOMAIN roll.kept : \A t \in Offers(v, m, v.rolls[n].kept[i]) :
                        LegalTarget(roll, roll.kept[i], t) \/ Gone(v, t) \/ Forbidden(roll, t)
               ELSE \A k \in Categories : boxes(v.sheet, k) = boxes(sheet, k) =>
                        (k \in InjuryOffers(v, m) <=> k \in EligibleCategories(n))

\* decide refuses a bonus claim for something that was not selected, and a claim
\* whose source is gone has no checkbox to take it back: ticking and unticking
\* in any order, across corrections, loot and reassignments, never leaves one.
ClaimsAreBacked ==
    \A m \in Members : compose[m] # None =>
        compose[m].claims \subseteq compose[m].items \cup compose[m].powers

\* "Advance scene" never defaults to reloading the scene the console shows: it is
\* selected only where the GM picked it, and picks made in other scenes do not
\* count.
AdvanceMovesOn ==
    Len(Mission) > 1 /\ Current # None /\ SelectedScene.id = Current =>
        choice = [for |-> Current, picked |-> Current]

\* CorrectionDialog.tsx: only the fields the GM touched are in the patch, so
\* nothing else changes, whatever the table did while the dialog was open.
OnlyTouchedFieldsChange ==
    [][dialog # None /\ dialog' = None =>
         LET c == dialog.character
         IN  \A f \in {"blood", "uses", "marked", "downed", "retired"} :
                 sheet'[c][f] # sheet[c][f] => f \in dialog.touched]_<<vars, screens>>

\* The GM can edit what a player proposed into a list the review accepts: what a
\* card still holds is acceptable or has a checkbox to take it off.
ReviewCanBeEdited ==
    \A n \in DOMAIN cards : cards[n].engaged \subseteq Active(shown[Gm].threats)
=============================================================================
