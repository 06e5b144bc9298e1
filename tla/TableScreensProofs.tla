-------------------------- MODULE TableScreensProofs --------------------------
(***************************************************************************)
(* Proofs about TableScreens: for every roster, kit, mission, number of    *)
(* commands and number of projections a screen is behind, what a dashboard *)
(* offers is what decide takes unless it has gone or is forbidden, and     *)
(* what the screens send keeps every promise the engine makes.             *)
(***************************************************************************)
EXTENDS TableScreens, EatTheReichProofs

-----------------------------------------------------------------------------
(* What screens render.                                                    *)

LEMMA OwnRollIs ==
    ASSUME NEW v, NEW m, Step(v, m) \notin {"claim", "compose"}
    PROVE  /\ OwnRoll(v, m) \in DOMAIN v.rolls
           /\ v.rolls[OwnRoll(v, m)].character = Own(v, m)
           /\ Step(v, m) = v.rolls[OwnRoll(v, m)].status
  BY DEF Step, OwnRoll, OwnRolls

\* Who has a dashboard has a character.
LEMMA OwnIs ==
    ASSUME NEW v, NEW m, m # None, Step(v, m) # "claim"
    PROVE  Own(v, m) \in Characters
  BY DEF Step, Own

FormFields == {"stat", "items", "powers", "claims", "engaged"}

\* A form has its fields, a stat, and its claims name what it selects.
Backed(form) ==
    /\ DOMAIN form = FormFields
    /\ form.stat \in StatChoices
    /\ form.claims \subseteq form.items \cup form.powers

\* The changes of one form its player makes.
FormEdited ==
    \E m \in Members : \E form :
        /\ Composing(m) /\ Edited(m, form)
        /\ Backed(compose[m]) => Backed(form)

\* The GM's own forms.
ConsoleEdited == UNCHANGED <<vars, views, compose>>

LEMMA PlayerMoves ==
    ASSUME NEW m \in Members, PlayerScreen(m)
    PROVE  FormEdited \/ Follow \/ ReloadDashboard(m)
<1>1. ASSUME NEW stat \in StatChoices, PickStat(m, stat)
      PROVE  FormEdited
  BY <1>1 DEF PickStat, FormEdited, Backed, FormFields
<1>2. ASSUME NEW i, ToggleItem(m, i)
      PROVE  FormEdited
  <2> DEFINE form == WithoutSource([compose[m] EXCEPT !.items = Toggled(@, i)],
                                   i, compose[m].items)
  <2>1. Composing(m) /\ Edited(m, form)
    BY <1>2 DEF ToggleItem
  <2>2. ASSUME Backed(compose[m]) PROVE Backed(form)
    BY <2>2 DEF Backed, FormFields, WithoutSource, Toggled
  <2> HIDE DEF form
  <2> QED
    BY <2>1, <2>2 DEF FormEdited
<1>3. ASSUME NEW a, ToggleAbility(m, a)
      PROVE  FormEdited
  <2> DEFINE form == WithoutSource([compose[m] EXCEPT !.powers = Toggled(@, a)],
                                   a, compose[m].powers)
  <2>1. Composing(m) /\ Edited(m, form)
    BY <1>3 DEF ToggleAbility
  <2>2. ASSUME Backed(compose[m]) PROVE Backed(form)
    BY <2>2 DEF Backed, FormFields, WithoutSource, Toggled
  <2> HIDE DEF form
  <2> QED
    BY <2>1, <2>2 DEF FormEdited
<1>4. ASSUME NEW x, ToggleClaim(m, x)
      PROVE  FormEdited
  BY <1>4 DEF ToggleClaim, FormEdited, Backed, FormFields, Toggled
<1>5. ASSUME NEW t, ToggleEngaged(m, t)
      PROVE  FormEdited
  BY <1>5 DEF ToggleEngaged, FormEdited, Backed, FormFields
<1>6. CASE Declare(m) \/ ConfirmAllocation(m) \/ PauseTable(m)
  BY <1>6 DEF Declare, ConfirmAllocation, PauseTable
<1>7. ASSUME NEW x, \/ Claim(m, x) \/ RegainBlood(m, x) \/ DestroyHat(m, x)
                    \/ ConfirmInjury(m, x)
      PROVE  Follow
  BY <1>7 DEF Claim, RegainBlood, DestroyHat, ConfirmInjury
<1> QED
  BY <1>1, <1>2, <1>3, <1>4, <1>5, <1>6, <1>7 DEF PlayerScreen

LEMMA ConsoleMoves ==
    ASSUME GmScreen
    PROVE  \/ ConsoleEdited \/ Decided \/ ReloadConsole
<1>1. ASSUME NEW n, NEW x, ToggleApproval(n, x) \/ ToggleThreat(n, x)
      PROVE  ConsoleEdited
  BY <1>1 DEF ToggleApproval, ToggleThreat, ConsoleEdited
<1>2. ASSUME NEW n, RollIt(n) \/ VoidThis(n) \/ Reveal(n)
      PROVE  Decided
  BY <1>2 DEF RollIt, VoidThis, Reveal, Follow
<1>3. ASSUME NEW x, PickScene(x) \/ OpenCorrection(x)
      PROVE  ConsoleEdited
  BY <1>3 DEF PickScene, OpenCorrection, ConsoleEdited
<1>4. ASSUME AdvanceScene \/ EndButton \/ FinishRound \/ SwitchRules \/ ApplyEdit \/ PauseButton
      PROVE  Decided
  BY <1>4 DEF AdvanceScene, EndButton, FinishRound, SwitchRules, ApplyEdit, PauseButton, Follow
<1>5. ASSUME NEW c, NEW x, GrantForm(c, x) \/ UnlockForm(c, x) \/ ReassignForm(c, x)
      PROVE  Decided
  BY <1>5 DEF GrantForm, UnlockForm, ReassignForm, Follow
<1>6. ASSUME NEW field, NEW form, Touch(field, form)
      PROVE  ConsoleEdited
  BY <1>6 DEF Touch, ConsoleEdited
<1>7. ASSUME NEW x, NEW by, StepBlood(by) \/ StepUses(x, by) \/ TickBox(x) \/ TickStatus(x)
      PROVE  ConsoleEdited
  BY <1>6, <1>7 DEF StepBlood, StepUses, TickBox, TickStatus
<1>8. CASE CloseCorrection
  BY <1>8 DEF CloseCorrection, ConsoleEdited
<1>9. CASE ApplyCorrection
  BY <1>9 DEF ApplyCorrection, ConsoleEdited
<1> QED
  BY <1>1, <1>2, <1>3, <1>4, <1>5, <1>7, <1>8, <1>9 DEF GmScreen

\* What a step does to the screens.
Moves ==
    \/ UNCHANGED <<vars, views, compose>> \/ FormEdited \/ Decided
    \/ \E m \in Members : ReloadDashboard(m)
    \/ ReloadConsole
    \/ \E w \in Screens : Receive(w)

LEMMA StepMoves ==
    ASSUME [SNext]_<<vars, screens>>
    PROVE  Moves
<1>1. CASE UNCHANGED <<vars, screens>>
  BY <1>1 DEF Moves, screens
<1>2. CASE OtherClients
  BY <1>2 DEF OtherClients, Follow, Moves
<1>3. ASSUME NEW m \in Members, PlayerScreen(m)
      PROVE  Moves
  BY <1>3, PlayerMoves DEF Moves, Follow
<1>4. CASE GmScreen
  BY <1>4, ConsoleMoves DEF Moves, ConsoleEdited
<1> QED
  BY <1>1, <1>2, <1>3, <1>4 DEF SNext, Moves

\* A screen's projection, the one it had or the game as it now is.
Sees(w) == shown'[w] = shown[w] \/ shown'[w] = Projection(w)'

LEMMA MovesSee ==
    ASSUME DOMAIN shown = Screens, Moves
    PROVE  DOMAIN shown' = Screens /\ \A w \in Screens : Sees(w)
<1>1. ASSUME NEW seeing, Renders(seeing)
      PROVE  DOMAIN shown' = Screens /\ \A w \in Screens : Sees(w)
  <2>1. shown' = [w \in Screens |-> IF w \in seeing THEN Projection(w)' ELSE shown[w]]
    BY <1>1 DEF Renders
  <2> QED
    BY <2>1 DEF Sees
<1>2. ASSUME NEW m \in Screens, UNCHANGED vars, shown' = [shown EXCEPT ![m] = Projection(m)]
      PROVE  DOMAIN shown' = Screens /\ \A w \in Screens : Sees(w)
  <2>1. Projection(m)' = Projection(m)
    BY <1>2 DEF Projection, vars, Revealed, Unresolved, SeenInFull
  <2> QED
    BY <1>2, <2>1 DEF Sees
<1>3. CASE \E m \in Members : ReloadDashboard(m)
  BY <1>2, <1>3 DEF ReloadDashboard, Screens
<1>4. CASE ReloadConsole
  BY <1>2, <1>4 DEF ReloadConsole, Screens
<1>5. CASE FormEdited
  BY <1>5 DEF FormEdited, Edited, views, Sees
<1> QED
  BY <1>1, <1>3, <1>4, <1>5 DEF Moves, Decided, Receive, views, Sees

-----------------------------------------------------------------------------
(* The compose forms.                                                      *)

\* Every form there is, and the one of every player who composes.
FormsBacked ==
    /\ DOMAIN compose = Members
    /\ \A m \in Members : compose[m] # None \/ Step(shown[m], m) = "compose" => Backed(compose[m])

LEMMA HighestStatIs == ASSUME NEW c \in Characters PROVE HighestStat(c) \in StatChoices
<1> DEFINE stats == StatChoices \ {"none"}
           worth == [s \in stats |-> Kit[c].stats[s]]
<1>1. IsFiniteSet(stats) /\ stats # {}
  BY StatsAssumption, FS_Difference
<1>2. \A s \in stats : worth[s] \in Int
  BY RosterAssumption
<1>3. HighestStat(c) = CHOOSE s \in stats : \A other \in stats : worth[other] <= worth[s]
  BY DEF HighestStat
<1> HIDE DEF stats, worth
<1>4. \E s \in stats : \A other \in stats : worth[other] <= worth[s]
  BY <1>1, <1>2, Heaviest
<1> QED
  BY <1>3, <1>4 DEF stats

LEMMA BlankBacked == ASSUME NEW c \in Characters PROVE Backed(BlankForm(c))
  BY HighestStatIs DEF Backed, BlankForm, FormFields

LEMMA MountedBacked ==
    ASSUME NEW v, NEW m \in Members
    PROVE  IF Step(v, m) = "compose" THEN Backed(Mounted(v, m)) ELSE Mounted(v, m) = None
  BY BlankBacked, OwnIs, NobodyAssumption DEF Mounted

LEMMA RenderedBacked ==
    ASSUME FormsBacked, NEW seeing, Renders(seeing)
    PROVE  FormsBacked'
<1>1. /\ shown' = [w \in Screens |-> IF w \in seeing THEN Projection(w)' ELSE shown[w]]
      /\ ComposeFollows(seeing)
  BY DEF Renders
<1>2. ASSUME NEW m \in Members, compose'[m] # None \/ Step(shown'[m], m) = "compose"
      PROVE  Backed(compose'[m])
  <2>1. CASE m \notin seeing
    <3>1. compose'[m] = compose[m] /\ shown'[m] = shown[m]
      BY <1>1, <2>1 DEF ComposeFollows, Screens
    <3> QED
      BY <1>2, <3>1 DEF FormsBacked
  <2>2. CASE m \in seeing
    <3>1. compose'[m] = IF Step(shown'[m], m) = "compose" /\ compose[m] # None
                        THEN compose[m] ELSE Mounted(shown'[m], m)
      BY <1>1, <2>2 DEF ComposeFollows
    <3> QED
      BY <1>2, <3>1, MountedBacked DEF FormsBacked
  <2> QED
    BY <2>1, <2>2
<1>3. \A m \in Members : Step(shown[m], m)' = Step(shown'[m], m)
  BY DEF Step, Own, OwnRoll, OwnRolls
<1>4. DOMAIN compose' = Members
  BY <1>1 DEF ComposeFollows
<1> QED
  BY <1>2, <1>3, <1>4 DEF FormsBacked

\* A form that is edited or mounted anew, and the screens of the others as they were.
LEMMA ReplacedBacked ==
    ASSUME FormsBacked, NEW m \in Members, NEW form, compose' = [compose EXCEPT ![m] = form],
           form # None \/ Step(shown'[m], m) = "compose" => Backed(form),
           \A d \in Members \ {m} : shown'[d] = shown[d]
    PROVE  FormsBacked'
<1>1. \A d \in Members : Step(shown[d], d)' = Step(shown'[d], d)
  BY DEF Step, Own, OwnRoll, OwnRolls
<1>2. ASSUME NEW d \in Members, compose'[d] # None \/ Step(shown'[d], d) = "compose"
      PROVE  Backed(compose'[d])
  BY <1>2 DEF FormsBacked
<1> QED
  BY <1>1, <1>2 DEF FormsBacked

LEMMA StepBacked ==
    ASSUME FormsBacked, DOMAIN shown = Screens, Moves
    PROVE  FormsBacked'
<1>1. CASE Decided \/ \E w \in Screens : Receive(w)
  BY <1>1, RenderedBacked DEF Decided, Receive
<1>2. ASSUME NEW m \in Members, ReloadDashboard(m)
      PROVE  FormsBacked'
  <2>1. /\ compose' = [compose EXCEPT ![m] = Mounted(shown'[m], m)]
        /\ \A d \in Members \ {m} : shown'[d] = shown[d]
    BY <1>2 DEF ReloadDashboard, Screens
  <2> QED
    BY <2>1, ReplacedBacked, MountedBacked
<1>3. CASE FormEdited
  <2>1. PICK m \in Members :
          \E form : /\ Composing(m) /\ Edited(m, form)
                    /\ Backed(compose[m]) => Backed(form)
    BY <1>3 DEF FormEdited
  <2>2. PICK form : /\ Composing(m) /\ Edited(m, form)
                    /\ Backed(compose[m]) => Backed(form)
    BY <2>1
  <2>3. Backed(form)
    BY <2>2 DEF FormsBacked, Composing
  <2>4. compose' = [compose EXCEPT ![m] = form] /\ shown' = shown
    BY <2>2 DEF Edited, views
  <2> QED
    BY <2>3, <2>4, ReplacedBacked
<1>4. ASSUME compose' = compose, \A m \in Members : shown'[m] = shown[m]
      PROVE  FormsBacked'
  <2>1. \A m \in Members : Step(shown[m], m)' = Step(shown'[m], m)
    BY DEF Step, Own, OwnRoll, OwnRolls
  <2> QED
    BY <1>4, <2>1 DEF FormsBacked
<1>5. CASE ReloadConsole
  BY <1>4, <1>5, ConsoleAssumption DEF ReloadConsole
<1> QED
  BY <1>1, <1>2, <1>3, <1>4, <1>5 DEF Moves, views

LEMMA InitBacked == SInit => FormsBacked /\ DOMAIN shown = Screens
<1> SUFFICES ASSUME SInit PROVE FormsBacked /\ DOMAIN shown = Screens
  OBVIOUS
<1>1. \A m \in Members : Step(shown[m], m) = "claim"
  BY NobodyAssumption DEF SInit, Init, InitialSheet, Own, Step, Projection, Screens
<1> QED
  BY <1>1 DEF SInit, FormsBacked

\* Ticking and unticking in any order, whatever the table does meanwhile, no form
\* claims a bonus for something it does not select (toggleItem, toggleAbility).
THEOREM ClaimsHold == SSpec => []ClaimsAreBacked
<1> DEFINE Forms == FormsBacked /\ DOMAIN shown = Screens
<1>1. Forms => ClaimsAreBacked
  BY DEF FormsBacked, ClaimsAreBacked, Backed
<1>2. Forms /\ [SNext]_<<vars, screens>> => Forms'
  BY StepMoves, StepBacked, MovesSee
<1>3. SInit => Forms
  BY InitBacked
<1> QED
  BY <1>1, <1>2, <1>3, PTL DEF SSpec

-----------------------------------------------------------------------------
(* The mission.                                                            *)

At(current) == {i \in DOMAIN Mission : Mission[i].id = current}

\* A pick is a scene of the mission.
ChoicePicked ==
    choice # None => /\ choice = [for |-> choice.for, picked |-> choice.picked]
                     /\ At(choice.picked) # {}

LEMMA PickedScene ==
    ASSUME ChoicePicked, choice # None
    PROVE  Mission[CHOOSE i \in DOMAIN Mission : Mission[i].id = choice.picked].id = choice.picked
  BY DEF ChoicePicked, At

LEMMA DefaultMoves ==
    ASSUME NEW current, current # None, Len(Mission) > 1
    PROVE  DefaultScene(current).id # current
<1> DEFINE at == At(current)
           later == {i \in DOMAIN Mission : i - 1 \in at}
           others == DOMAIN Mission \ at
<1>1. \A i \in others : Mission[i].id # current
  BY DEF At
<1>2. /\ \A i, j \in at : i = j
      /\ DOMAIN Mission = 1..Len(Mission) /\ Len(Mission) \in Nat
  BY MissionAssumption DEF At
<1>3. later \subseteq others
  BY <1>2 DEF At
<1>4. others # {}
  BY <1>2 DEF At
<1>5. PICK i \in others : \A j \in others : i <= j
  <2>1. IsFiniteSet(1..Len(Mission)) /\ 1..Len(Mission) \in SUBSET Int
    BY <1>2, FS_Interval
  <2>2. others \in SUBSET (1..Len(Mission))
    BY <1>2
  <2>3. IsFiniteSet(others) /\ others \in SUBSET Int
    BY <2>1, <2>2, FS_Subset
  <2> QED
    BY <1>4, <2>3, Least
<1>6. DefaultScene(current) =
        IF later # {} THEN Mission[CHOOSE k \in later : TRUE]
        ELSE Mission[CHOOSE k \in others : \A j \in others : k <= j]
  BY <1>4 DEF DefaultScene, At
<1> HIDE DEF at, later, others
<1>7. DefaultScene(current) \in {Mission[k] : k \in others}
  BY <1>3, <1>5, <1>6
<1> QED
  BY <1>1, <1>7

\* A pick stands until another pick or a reload.
LEMMA StepPicked ==
    ASSUME ChoicePicked, [SNext]_<<vars, screens>>
    PROVE  ChoicePicked'
<1>1. CASE choice' = choice \/ choice' = None
  BY <1>1 DEF ChoicePicked, At
<1>2. ASSUME NEW i \in DOMAIN Mission, PickScene(i)
      PROVE  ChoicePicked'
  BY <1>2 DEF PickScene, ChoicePicked, At
<1>3. ASSUME NEW m \in Members, PlayerScreen(m)
      PROVE  choice' = choice
  BY <1>3, PlayerMoves DEF FormEdited, Edited, Follow, ReloadDashboard
<1>4. CASE GmScreen
  <2>1. ASSUME NEW field, NEW form, Touch(field, form)
        PROVE  choice' = choice
    BY <2>1 DEF Touch
  <2>2. ASSUME NEW x, NEW by, StepBlood(by) \/ StepUses(x, by) \/ TickBox(x) \/ TickStatus(x)
        PROVE  choice' = choice
    BY <2>1, <2>2 DEF StepBlood, StepUses, TickBox, TickStatus
  <2>3. ASSUME NEW c, NEW x, \/ ToggleApproval(c, x) \/ ToggleThreat(c, x)
                             \/ GrantForm(c, x) \/ UnlockForm(c, x) \/ ReassignForm(c, x)
        PROVE  choice' = choice
    BY <2>3 DEF ToggleApproval, ToggleThreat, GrantForm, UnlockForm, ReassignForm, Follow
  <2>4. ASSUME NEW x, RollIt(x) \/ VoidThis(x) \/ Reveal(x) \/ OpenCorrection(x)
        PROVE  choice' = choice
    BY <2>4 DEF RollIt, VoidThis, Reveal, OpenCorrection, Follow
  <2>5. ASSUME \/ AdvanceScene \/ EndButton \/ FinishRound \/ SwitchRules \/ ApplyEdit
               \/ PauseButton \/ ReloadConsole \/ ApplyCorrection \/ CloseCorrection
        PROVE  choice' \in {choice, None}
    BY <2>5 DEF AdvanceScene, EndButton, FinishRound, SwitchRules, ApplyEdit, PauseButton,
                ReloadConsole, ApplyCorrection, CloseCorrection, Follow
  <2> QED
    BY <1>1, <1>2, <1>4, <2>2, <2>3, <2>4, <2>5 DEF GmScreen
<1> QED
  BY <1>1, <1>3, <1>4 DEF SNext, OtherClients, Follow, Receive, screens

\* Wherever the console is in the mission and whatever was picked before, the
\* button defaults to another scene than the one shown (SceneDirector).
THEOREM AdvanceAdvances == SSpec => []AdvanceMovesOn
<1>1. SInit => ChoicePicked
  BY DEF SInit, ChoicePicked
<1>2. ChoicePicked => AdvanceMovesOn
  <2> SUFFICES ASSUME ChoicePicked, Len(Mission) > 1, Current # None,
                      SelectedScene.id = Current
               PROVE  choice = [for |-> Current, picked |-> Current]
    BY DEF AdvanceMovesOn
  <2>1. choice # None /\ choice.for = Current
    BY DefaultMoves DEF SelectedScene
  <2>2. SelectedScene.id = choice.picked
    BY <2>1, PickedScene DEF SelectedScene
  <2> QED
    BY <2>1, <2>2 DEF ChoicePicked
<1> QED
  BY <1>1, <1>2, StepPicked, PTL DEF SSpec
-----------------------------------------------------------------------------
(* The game at the table: what the screens send are the engine's commands. *)

DialogFields == {"character", "delta", "uses", "boxes", "downed", "retired", "touched"}

\* What the correction dialog may hold.
DialogOK(d) ==
    /\ DOMAIN d = DialogFields
    /\ d.character \in Characters /\ d.delta \in Int
    /\ DOMAIN d.uses \subseteq Items /\ \A i \in DOMAIN d.uses : d.uses[i] \in 0..Gear[i].maxUses
    /\ DOMAIN d.boxes \subseteq Boxes /\ \A b \in DOMAIN d.boxes : d.boxes[b] \in BOOLEAN
    /\ d.downed \in BOOLEAN /\ d.retired \in BOOLEAN

DialogHolds == dialog # None => DialogOK(dialog)

\* What a projection holds of the sheets and the board is well formed, however old.
ViewOK(v) ==
    /\ \A c \in Characters : SheetOK(v.sheet[c])
    /\ \A o \in DOMAIN v.objectives : v.objectives[o] \in ObjectiveType
    /\ \A t \in DOMAIN v.threats : v.threats[t] \in ThreatType
    /\ v.paused \in BOOLEAN

ViewsOK == DOMAIN shown = Screens /\ \A w \in Screens : ViewOK(shown[w])

TableInv == Types /\ ViewsOK /\ FormsBacked /\ ChoicePicked /\ DialogHolds

\* The numbers of an Objective or a Threat set to any others.
NumbersEdited ==
    /\ Directive
    /\ \/ \E o : \E r \in Int, k \in Int : EditObjective(o, r, k)
       \/ \E t : \E r \in Int, a \in Int, k \in Int : EditThreat(t, r, a, k)
    /\ UNCHANGED <<sheet, scene, dice, table>>

\* The engine's commands, corrections by patches of several fields and edits by
\* numbers an old projection showed.
EngineStep == \/ [Next]_vars
              \/ \E c \in Characters : \E patch : PatchOK(patch) /\ CorrectCharacter(c, patch)
              \/ NumbersEdited

LEMMA ProjectionOK == ASSUME Types PROVE \A w : ViewOK(Projection(w))
  BY DEF Types, SheetsOK, BoardOK, ObjectivesOK, ThreatsOK, ViewOK, Projection, Revealed

LEMMA ViewsStay ==
    ASSUME ViewsOK, Types', Moves
    PROVE  ViewsOK'
<1>1. DOMAIN shown' = Screens /\ \A w \in Screens : Sees(w)
  BY MovesSee DEF ViewsOK
<1>2. \A w : ViewOK(Projection(w))'
  BY DEF Types, SheetsOK, BoardOK, ObjectivesOK, ThreatsOK, ViewOK, Projection, Revealed
<1>3. ASSUME NEW w \in Screens PROVE ViewOK(shown[w])'
  <2>1. CASE shown'[w] = shown[w]
    BY <2>1 DEF ViewsOK, ViewOK
  <2>2. CASE shown'[w] = Projection(w)'
    <3>1. ViewOK(Projection(w))'
      BY <1>2
    <3> QED
      BY <2>2, <3>1 DEF ViewOK
  <2> QED
    BY <1>1, <2>1, <2>2 DEF Sees
<1> QED
  BY <1>1, <1>3 DEF ViewsOK, Screens

LEMMA DeclareSends ==
    ASSUME TableInv, NEW m \in Members, Declare(m)
    PROVE  PlayerCommand(m)
<1> DEFINE c == Own(shown[m], m)
           f == compose[m]
<1>1. /\ Step(shown[m], m) = "compose" /\ c \in Characters
      /\ BeginAction(m, c, f.stat, f.items, f.powers, f.claims, f.engaged)
  BY OwnIs, NobodyAssumption DEF Declare, Composing
<1>2. f.stat \in StatChoices
  BY <1>1 DEF TableInv, FormsBacked, Backed
<1>3. /\ f.items \in SUBSET sheet[c].items /\ f.powers \in SUBSET Kit[c].abilities
      /\ f.claims \in SUBSET (f.items \cup f.powers) /\ f.engaged \in SUBSET ActiveRevealed
  BY <1>1 DEF BeginAction, PoolAllowed
<1> HIDE DEF c, f
<1> QED
  BY <1>1, <1>2, <1>3 DEF PlayerCommand

LEMMA PlayerSends ==
    ASSUME TableInv, NEW m \in Members, PlayerScreen(m)
    PROVE  UNCHANGED vars \/ PlayerCommand(m) \/ \E value \in BOOLEAN : SetPaused(value)
<1> DEFINE v == shown[m]
<1>0. Step(v, m) # "claim" => Own(v, m) \in Characters
  BY OwnIs, NobodyAssumption
<1>1. ASSUME NEW x, NEW y, \/ PickStat(m, x) \/ ToggleItem(m, x) \/ ToggleAbility(m, x)
                           \/ ToggleClaim(m, x) \/ ToggleEngaged(m, x) \/ ReloadDashboard(m)
      PROVE  UNCHANGED vars
  BY <1>1 DEF PickStat, ToggleItem, ToggleAbility, ToggleClaim, ToggleEngaged,
              ReloadDashboard, Edited
<1>2. ASSUME NEW c \in Characters, Claim(m, c)
      PROVE  PlayerCommand(m)
  BY <1>2 DEF Claim, PlayerCommand
<1>3. ASSUME NEW i \in Items, RegainBlood(m, i)
      PROVE  PlayerCommand(m)
  BY <1>0, <1>3 DEF RegainBlood, Composing, PlayerCommand
<1>4. ASSUME NEW i \in Items, DestroyHat(m, i)
      PROVE  PlayerCommand(m)
  BY <1>0, <1>4 DEF DestroyHat, Injured, PlayerCommand
<1>5. ASSUME NEW k \in Categories, ConfirmInjury(m, k)
      PROVE  PlayerCommand(m)
  BY <1>5 DEF ConfirmInjury, Injured, PlayerCommand
<1>6. ASSUME ConfirmAllocation(m)
      PROVE  PlayerCommand(m)
  <2> DEFINE n == OwnRoll(v, m)
             kept == v.rolls[n].kept
             offered == UNION {Offers(v, m, kept[i]) : i \in DOMAIN kept}
  <2>1. /\ n \in DOMAIN rolls
        /\ \E allocation \in [DOMAIN kept -> offered], face \in Faces :
             /\ \A i \in DOMAIN kept : allocation[i] \in Offers(v, m, kept[i])
             /\ AllocateResults(m, n, allocation, face)
    BY <1>6, Zenon DEF ConfirmAllocation
  <2> HIDE DEF v, n, kept, offered
  <2>2. PICK allocation \in [DOMAIN kept -> offered], face \in Faces :
          AllocateResults(m, n, allocation, face)
    BY <2>1
  <2>3. allocation \in Allocations(rolls[n])
    BY <2>2 DEF AllocateResults
  <2> QED
    BY <2>1, <2>2, <2>3 DEF PlayerCommand
<1>7. ASSUME PauseTable(m)
      PROVE  SetPaused(TRUE)
  BY <1>7 DEF PauseTable
<1> HIDE DEF v
<1> QED
  BY <1>1, <1>2, <1>3, <1>4, <1>5, <1>6, <1>7, DeclareSends DEF PlayerScreen

LEMMA SelectedIs ==
    ASSUME ChoicePicked
    PROVE  SelectedScene \in Scenes
<1>1. \A i \in DOMAIN Mission : Mission[i] \in Scenes
  BY MissionAssumption
<1>2. 1 \in DOMAIN Mission /\ DOMAIN Mission = 1..Len(Mission) /\ Len(Mission) \in Nat
  BY MissionAssumption
<1>3. DefaultScene(Current) \in Scenes
  <2> DEFINE at == {i \in DOMAIN Mission : Mission[i].id = Current}
             later == {i \in DOMAIN Mission : i - 1 \in at}
             others == DOMAIN Mission \ at
  <2>1. IsFiniteSet(1..Len(Mission)) /\ 1..Len(Mission) \in SUBSET Int
    BY <1>2, FS_Interval
  <2>2. others \in SUBSET (1..Len(Mission))
    BY <1>2
  <2>3. IsFiniteSet(others) /\ others \in SUBSET Int
    BY <2>1, <2>2, FS_Subset
  <2>4. later \subseteq DOMAIN Mission /\ others \subseteq DOMAIN Mission
    OBVIOUS
  <2>5. DefaultScene(Current) =
          IF Current = None \/ others = {} THEN Mission[1]
          ELSE IF later # {} THEN Mission[CHOOSE i \in later : TRUE]
          ELSE Mission[CHOOSE i \in others : \A j \in others : i <= j]
    BY DEF DefaultScene
  <2> HIDE DEF later, others, at
  <2>6. others # {} => \E i \in others : \A j \in others : i <= j
    BY <2>3, Least
  <2>7. later # {} => (CHOOSE i \in later : TRUE) \in later
    OBVIOUS
  <2>8. others # {} => (CHOOSE i \in others : \A j \in others : i <= j) \in others
    BY <2>6
  <2> QED
    BY <1>1, <1>2, <2>4, <2>5, <2>7, <2>8
<1>4. CASE choice # None
  <2>1. \E i \in DOMAIN Mission : Mission[i].id = choice.picked
    BY <1>4 DEF ChoicePicked, At
  <2>2. (CHOOSE i \in DOMAIN Mission : Mission[i].id = choice.picked) \in DOMAIN Mission
    BY <2>1
  <2> QED
    BY <1>1, <1>3, <2>2 DEF SelectedScene
<1> QED
  BY <1>3, <1>4 DEF SelectedScene

\* What the dialog sends is a patch of a sheet.
LEMMA CorrectionSends ==
    ASSUME TableInv, ApplyCorrection
    PROVE  EngineStep
<1> DEFINE c == dialog.character
           s == sheet[c]
           patch == [f \in PatchedFields |-> Correction(s, f)]
<1>1. DialogOK(dialog) /\ c \in Characters
  BY DEF ApplyCorrection, TableInv, DialogHolds, DialogOK
<1>2. UNCHANGED vars \/ (SentUses \subseteq s.items /\ CorrectCharacter(c, patch))
  BY DEF ApplyCorrection
<1>3. /\ s.uses \in [Items -> Int] /\ s.marked \subseteq Boxes
      /\ \A i \in Items : s.uses[i] \in UsesLeft(i)
  BY <1>1 DEF TableInv, Types, SheetsOK, SheetOK, SheetType
<1>4. PatchedFields \subseteq {"blood", "downed", "retired", "uses", "marked"}
  BY DEF PatchedFields
<1>5. Correction(s, "blood") \in 0..MaxBlood
  <2>1. SheetOK(Sheet)
    BY <1>1, ConsoleAssumption DEF TableInv, ViewsOK, ViewOK, Sheet, Screens
  <2>2. Sheet.blood \in Int /\ dialog.delta \in Int
    BY <1>1, <2>1, RulesAssumption DEF SheetOK, SheetType, DialogOK
  <2> DEFINE count == Sheet.blood + dialog.delta
  <2>3. Correction(s, "blood") = AtMost(MaxBlood, Floor0(count))
    BY DEF Correction
  <2>4. count \in Int
    BY <2>2
  <2> HIDE DEF count
  <2>5. Floor0(count) \in Nat
    BY <2>4, FloorNat
  <2> QED
    BY <2>3, <2>5, RulesAssumption, CapIn
<1>6. Correction(s, "downed") \in BOOLEAN /\ Correction(s, "retired") \in BOOLEAN
  BY <1>1 DEF DialogOK, Correction
<1>7. /\ Correction(s, "uses") \in [Items -> Int]
      /\ \A i \in Items : Correction(s, "uses")[i] \in UsesLeft(i)
  <2>1. Correction(s, "uses") = Update(s.uses, [i \in SentUses |-> dialog.uses[i]])
    BY DEF Correction
  <2>2. SentUses \subseteq Items
    BY <1>1 DEF SentUses, DialogOK
  <2>3. \A i \in SentUses : dialog.uses[i] \in Int /\ dialog.uses[i] \in UsesLeft(i)
    BY <1>1, RosterAssumption DEF SentUses, DialogOK, UsesLeft
  <2> QED
    BY <1>3, <2>1, <2>2, <2>3 DEF Update
<1>8. Correction(s, "marked") \subseteq Boxes
  BY <1>1, <1>3 DEF DialogOK, Correction
<1> HIDE DEF s
<1>9. PatchOK(patch)
  BY <1>4, <1>5, <1>6, <1>7, <1>8 DEF PatchOK
<1> HIDE DEF patch, c
<1> QED
  BY <1>1, <1>2, <1>9 DEF EngineStep

\* An edit form loads numbers the console shows, old ones too.
LEMMA EditSends ==
    ASSUME TableInv, ApplyEdit
    PROVE  NumbersEdited
<1> DEFINE v == shown[Gm]
<1>1. ViewOK(v)
  BY DEF TableInv, ViewsOK, Screens
<1>2. \A k \in Int : Edits(k) \subseteq Int
  BY RosterAssumption DEF Edits
<1>3. /\ Directive /\ UNCHANGED <<sheet, scene, dice, table>>
      /\ \/ \E o \in DOMAIN v.objectives : \E r \in Edits(v.objectives[o].rating),
               k \in Edits(v.objectives[o].challenge) : EditObjective(o, r, k)
         \/ \E t \in DOMAIN v.threats : \E r \in Edits(v.threats[t].rating),
               a \in Edits(v.threats[t].attack), k \in Edits(v.threats[t].challenge) :
                  EditThreat(t, r, a, k)
  BY DEF ApplyEdit
<1> HIDE DEF v
<1>4. ASSUME NEW o \in DOMAIN v.objectives
      PROVE  Edits(v.objectives[o].rating) \subseteq Int /\ Edits(v.objectives[o].challenge) \subseteq Int
  <2>1. v.objectives[o].rating \in Int /\ v.objectives[o].challenge \in Int
    BY <1>1 DEF ViewOK, ObjectiveType
  <2> QED
    BY <1>2, <2>1
<1>5. ASSUME NEW t \in DOMAIN v.threats
      PROVE  /\ Edits(v.threats[t].rating) \subseteq Int /\ Edits(v.threats[t].attack) \subseteq Int
             /\ Edits(v.threats[t].challenge) \subseteq Int
  <2>1. /\ v.threats[t].rating \in Int /\ v.threats[t].attack \in Int
        /\ v.threats[t].challenge \in Int
    BY <1>1 DEF ViewOK, ThreatType
  <2> QED
    BY <1>2, <2>1
<1> QED
  BY <1>3, <1>4, <1>5 DEF NumbersEdited

LEMMA ReviewIsCommand ==
    ASSUME NEW n, NEW approved, NEW engaged, NEW primary, NEW throw, NEW attackThrow,
           n \in Unresolved,
           ReviewAction(n, approved, engaged, primary, throw, attackThrow)
    PROVE  GmCommand
<1>1. /\ approved \in SUBSET rolls[n].claims /\ engaged \in SUBSET ActiveRevealed
      /\ primary \in engaged \cup {None} /\ attackThrow \in Throws(AttackDice(threats, engaged))
      /\ throw \in Throws(PoolSize(rolls[n].character, sheet[rolls[n].character],
                                   rolls[n].stat, rolls[n].items, rolls[n].powers, approved))
  BY DEF ReviewAction
<1> QED
  BY <1>1 DEF GmCommand

LEMMA ConsoleSends ==
    ASSUME TableInv, GmScreen
    PROVE  EngineStep
<1> SUFFICES ASSUME ~UNCHANGED vars
             PROVE  GmCommand \/ (\E value \in BOOLEAN : SetPaused(value)) \/ EngineStep
  BY DEF EngineStep, Next
<1>1. ASSUME NEW field, NEW form, Touch(field, form)
      PROVE  UNCHANGED vars
  BY <1>1 DEF Touch
<1>2. ASSUME NEW x, NEW y, \/ StepBlood(y) \/ StepUses(x, y) \/ TickBox(x) \/ TickStatus(x)
                           \/ ToggleApproval(x, y) \/ ToggleThreat(x, y) \/ PickScene(x)
                           \/ OpenCorrection(x) \/ ReloadConsole \/ CloseCorrection
      PROVE  UNCHANGED vars
  BY <1>1, <1>2 DEF StepBlood, StepUses, TickBox, TickStatus, ToggleApproval, ToggleThreat,
                    PickScene, OpenCorrection, ReloadConsole, CloseCorrection
<1>3. ASSUME NEW n, RollIt(n)
      PROVE  GmCommand
  <2>1. PICK primary, attackThrow, throw :
          ReviewAction(n, cards[n].approved, cards[n].engaged, primary, throw, attackThrow)
    BY <1>3 DEF RollIt
  <2> QED
    BY <1>3, <2>1, ReviewIsCommand DEF RollIt
<1>4. ASSUME NEW n, VoidThis(n)
      PROVE  GmCommand
  BY <1>4 DEF VoidThis, Unresolved, GmCommand
<1>5. ASSUME AdvanceScene
      PROVE  GmCommand
  <2>1. SelectedScene \in Scenes
    BY SelectedIs DEF TableInv
  <2>2. PICK reason \in BOOLEAN : reason = ~PrimaryDone(shown[Gm])
    OBVIOUS
  <2>3. LoadScene(SelectedScene) \/ NextScene(SelectedScene, reason)
    BY <1>5, <2>2 DEF AdvanceScene
  <2> QED
    BY <2>1, <2>3 DEF GmCommand
<1>6. ASSUME EndButton
      PROVE  GmCommand
  <2>1. PICK reason \in BOOLEAN : reason = ~PrimaryDone(shown[Gm])
    OBVIOUS
  <2>2. EndMission(reason)
    BY <1>6, <2>1 DEF EndButton
  <2> QED
    BY <2>2 DEF GmCommand
<1>7. ASSUME NEW t \in ThreatIds, Reveal(t)
      PROVE  GmCommand
  BY <1>7 DEF Reveal, GmCommand
<1>8. ASSUME FinishRound PROVE GmCommand
  BY <1>8 DEF FinishRound, GmCommand
<1>9. ASSUME SwitchRules PROVE GmCommand
  BY <1>9 DEF SwitchRules, GmCommand
<1>10. CASE ApplyEdit
  BY <1>10, EditSends DEF EngineStep
<1>11. ASSUME PauseButton PROVE \E value \in BOOLEAN : SetPaused(value)
  BY <1>11 DEF PauseButton, TableInv, ViewsOK, ViewOK, Screens
<1>12. ASSUME NEW c \in Characters, NEW i \in LootItems, GrantForm(c, i)
       PROVE  GmCommand
  BY <1>12 DEF GrantForm, GmCommand
<1>13. ASSUME NEW c \in Characters, NEW a \in Advances, UnlockForm(c, a)
       PROVE  GmCommand
  BY <1>13 DEF UnlockForm, GmCommand
<1>14. ASSUME NEW c \in Characters, NEW m \in Members \cup {None}, ReassignForm(c, m)
       PROVE  GmCommand
  BY <1>14 DEF ReassignForm, GmCommand
<1>15. CASE ApplyCorrection
  BY <1>15, CorrectionSends
<1> QED
  BY <1>2, <1>3, <1>4, <1>5, <1>6, <1>7, <1>8, <1>9, <1>10, <1>11, <1>12, <1>13, <1>14, <1>15
     DEF GmScreen

LEMMA OthersSend ==
    ASSUME OtherClients
    PROVE  \/ \E m \in Members : PlayerCommand(m)
           \/ GmCommand
<1>1. CASE \E m \in Members, c \in Characters :
          ReleaseCharacter(m, c) \/ \E b \in Boxes : HealInjury(m, c, b)
  BY <1>1 DEF PlayerCommand
<1>2. CASE /\ Directive
           /\ \/ \E o \in ObjectiveIds : RemoveFromScene({o}, {})
              \/ \E t \in ThreatIds : RemoveFromScene({}, {t})
           /\ UNCHANGED <<sheet, scene, dice, table>>
  <2>1. EditScene
    BY <1>2, Zenon DEF EditScene, RemoveFromScene
  <2> QED
    BY <2>1 DEF GmCommand
<1> QED
  BY <1>1, <1>2 DEF OtherClients

LEMMA ScreensSend ==
    ASSUME TableInv, [SNext]_<<vars, screens>>
    PROVE  EngineStep
<1>1. CASE OtherClients
  BY <1>1, OthersSend DEF EngineStep, Next
<1>2. ASSUME NEW m \in Members, PlayerScreen(m)
      PROVE  EngineStep
  BY <1>2, PlayerSends DEF EngineStep, Next
<1>3. ASSUME NEW w \in Screens, Receive(w)
      PROVE  EngineStep
  BY <1>3 DEF Receive, EngineStep
<1> QED
  BY <1>1, <1>2, <1>3, ConsoleSends DEF SNext, EngineStep

\* The dialog's controls keep what it holds well formed.
LEMMA ControlsHold ==
    ASSUME TableInv, dialog # None
    PROVE  /\ \A by \in {-1, 1} : StepBlood(by) => DialogHolds'
           /\ \A by \in {-1, 1}, i \in Items : StepUses(i, by) => DialogHolds'
           /\ \A b \in Boxes : TickBox(b) => DialogHolds'
           /\ \A field : TickStatus(field) => DialogHolds'
<1>1. DialogOK(dialog)
  BY DEF TableInv, DialogHolds
<1>2. ASSUME NEW field, NEW form, DialogOK(form), Touch(field, form)
      PROVE  DialogHolds'
  BY <1>2 DEF Touch, DialogHolds, DialogOK, DialogFields
<1>3. ASSUME NEW by \in {-1, 1}, StepBlood(by)
      PROVE  DialogHolds'
  <2> DEFINE form == [dialog EXCEPT !.delta = @ + by]
  <2>1. DialogOK(form)
    BY <1>1 DEF DialogOK, DialogFields
  <2>2. Touch("blood", form)
    BY <1>3 DEF StepBlood
  <2> HIDE DEF form
  <2> QED
    BY <1>2, <2>1, <2>2
<1>4. ASSUME NEW by \in {-1, 1}, NEW i \in Items, StepUses(i, by)
      PROVE  DialogHolds'
  <2> DEFINE now == IF i \in DOMAIN dialog.uses THEN dialog.uses[i] ELSE Sheet.uses[i]
             uses == Update(dialog.uses, [x \in {i} |-> now + by])
             form == [dialog EXCEPT !.uses = uses]
  <2>1. now + by \in 0..Gear[i].maxUses /\ Touch("uses", form)
    BY <1>4 DEF StepUses
  <2>2. DOMAIN uses \subseteq Items /\ \A x \in DOMAIN uses : uses[x] \in 0..Gear[x].maxUses
    BY <1>1, <2>1 DEF DialogOK, Update
  <2> HIDE DEF uses
  <2>3. DialogOK(form)
    BY <1>1, <2>2 DEF DialogOK, DialogFields
  <2> HIDE DEF form
  <2> QED
    BY <1>2, <2>1, <2>3
<1>5. ASSUME NEW b \in Boxes, TickBox(b)
      PROVE  DialogHolds'
  <2> DEFINE flipped == b \notin Sheet.marked
             back == b \in DOMAIN dialog.boxes /\ dialog.boxes[b] = flipped
             boxes == IF back THEN Without(dialog.boxes, {b})
                      ELSE Update(dialog.boxes, [x \in {b} |-> flipped])
             form == [dialog EXCEPT !.boxes = boxes]
  <2>1. Touch("marked", form)
    BY <1>5 DEF TickBox
  <2>2. DOMAIN boxes \subseteq Boxes /\ \A x \in DOMAIN boxes : boxes[x] \in BOOLEAN
    BY <1>1 DEF DialogOK, Update, Without
  <2> HIDE DEF boxes
  <2>3. DialogOK(form)
    BY <1>1, <2>2 DEF DialogOK, DialogFields
  <2> HIDE DEF form
  <2> QED
    BY <1>2, <2>1, <2>3
<1>6. ASSUME NEW field, TickStatus(field)
      PROVE  DialogHolds'
  <2>1. /\ DialogOK([dialog EXCEPT !.downed = ~@])
        /\ DialogOK([dialog EXCEPT !.retired = ~@])
    BY <1>1 DEF DialogOK, DialogFields
  <2> QED
    BY <1>2, <1>6, <2>1 DEF TickStatus
<1> QED
  BY <1>3, <1>4, <1>5, <1>6

LEMMA StepDialog ==
    ASSUME TableInv, [SNext]_<<vars, screens>>
    PROVE  DialogHolds'
<1>1. CASE dialog' = dialog \/ dialog' = None
  BY <1>1 DEF TableInv, DialogHolds, DialogOK
<1>2. ASSUME NEW c \in Characters, OpenCorrection(c)
      PROVE  DialogHolds'
  <2>1. SheetOK(shown[Gm].sheet[c])
    BY DEF TableInv, ViewsOK, ViewOK, Screens
  <2>2. shown[Gm].sheet[c].downed \in BOOLEAN /\ shown[Gm].sheet[c].retired \in BOOLEAN
    BY <2>1 DEF SheetOK, SheetType
  <2> QED
    BY <1>2, <2>2 DEF OpenCorrection, DialogHolds, DialogOK, DialogFields, EmptyMap
<1>3. ASSUME NEW m \in Members, PlayerScreen(m)
      PROVE  dialog' = dialog
  BY <1>3, PlayerMoves DEF FormEdited, Edited, Follow, ReloadDashboard
<1>4. CASE GmScreen
  <2>1. ASSUME NEW x, NEW by, \/ StepBlood(by) \/ StepUses(x, by) \/ TickBox(x)
                              \/ TickStatus(x)
        PROVE  dialog # None
    BY <2>1 DEF StepBlood, StepUses, TickBox, TickStatus
  <2>2. ASSUME NEW c, NEW x, \/ ToggleApproval(c, x) \/ ToggleThreat(c, x)
                             \/ GrantForm(c, x) \/ UnlockForm(c, x) \/ ReassignForm(c, x)
        PROVE  dialog' = dialog
    BY <2>2 DEF ToggleApproval, ToggleThreat, GrantForm, UnlockForm, ReassignForm, Follow
  <2>3. ASSUME NEW x, RollIt(x) \/ VoidThis(x) \/ Reveal(x) \/ PickScene(x)
        PROVE  dialog' = dialog
    BY <2>3 DEF RollIt, VoidThis, Reveal, PickScene, Follow
  <2>4. ASSUME \/ AdvanceScene \/ EndButton \/ FinishRound \/ SwitchRules \/ ApplyEdit
               \/ PauseButton \/ ReloadConsole \/ ApplyCorrection \/ CloseCorrection
        PROVE  dialog' \in {dialog, None}
    BY <2>4 DEF AdvanceScene, EndButton, FinishRound, SwitchRules, ApplyEdit, PauseButton,
                ReloadConsole, ApplyCorrection, CloseCorrection, Follow
  <2> QED
    BY <1>1, <1>2, <1>4, <2>1, <2>2, <2>3, <2>4, ControlsHold DEF GmScreen
<1> QED
  BY <1>1, <1>3, <1>4 DEF SNext, OtherClients, Follow, Receive, screens

\* Edited numbers are integers still.
LEMMA NumbersTypes ==
    ASSUME Types, NumbersEdited
    PROVE  Types'
<1>1. ASSUME NEW o, NEW r \in Int, NEW k \in Int, EditObjective(o, r, k)
      PROVE  BoardOK' /\ disclosed' \subseteq ThreatIds
  <2>1. /\ o \in DOMAIN objectives /\ disclosed' = {} /\ UNCHANGED <<threats, scene>>
        /\ objectives' = [objectives EXCEPT ![o].rating = r, ![o].challenge = k]
    BY <1>1 DEF EditObjective, NumbersEdited
  <2>2. [objectives[o] EXCEPT !.rating = r, !.challenge = k] \in ObjectiveType
    BY <2>1 DEF Types, BoardOK, ObjectivesOK, ObjectiveType
  <2> QED
    BY <2>1, <2>2 DEF Types, BoardOK, ObjectivesOK, ThreatsOK, SceneOK
<1>2. ASSUME NEW t, NEW r \in Int, NEW a \in Int, NEW k \in Int, EditThreat(t, r, a, k)
      PROVE  BoardOK' /\ disclosed' \subseteq ThreatIds
  <2>1. /\ t \in DOMAIN threats /\ disclosed' = SharedDeltas({t}) /\ UNCHANGED <<objectives, scene>>
        /\ threats' = [threats EXCEPT ![t].rating = r, ![t].attack = a, ![t].challenge = k]
    BY <1>2 DEF EditThreat, NumbersEdited
  <2>2. [threats[t] EXCEPT !.rating = r, !.attack = a, !.challenge = k] \in ThreatType
    BY <2>1 DEF Types, BoardOK, ThreatsOK, ThreatType
  <2> QED
    BY <2>1, <2>2 DEF Types, BoardOK, ObjectivesOK, ThreatsOK, SceneOK, SharedDeltas
<1>3. UNCHANGED <<sheet, dice, table>>
  BY DEF NumbersEdited
<1> QED
  BY <1>1, <1>2, <1>3, BoardTypes DEF NumbersEdited

LEMMA StepTable ==
    ASSUME TableInv, [SNext]_<<vars, screens>>
    PROVE  TableInv' /\ EngineStep
<1>1. EngineStep
  BY ScreensSend
<1>2. Types'
  BY <1>1, StepTypes, CorrectedTypes, NumbersTypes DEF EngineStep, TableInv
<1>3. ViewsOK'
  BY <1>2, StepMoves, ViewsStay DEF TableInv
<1> QED
  BY <1>1, <1>2, <1>3, StepMoves, StepBacked, StepPicked, StepDialog DEF TableInv, ViewsOK

LEMMA InitTable == SInit => TableInv
<1> SUFFICES ASSUME SInit PROVE TableInv
  OBVIOUS
<1>1. Types /\ FormsBacked /\ ChoicePicked /\ DialogHolds
  BY InitTypes, InitBacked DEF SInit, ChoicePicked, DialogHolds
<1>2. ViewsOK
  BY <1>1, ProjectionOK DEF SInit, ViewsOK
<1> QED
  BY <1>1, <1>2 DEF TableInv

\* Forms left open over any number of turns and screens any number of projections
\* behind send what the engine can store: the game record stays one parseState
\* loads again (state.ts).
THEOREM TypesAtTheTable == SSpec => []TypeOK
<1>1. TableInv => TypeOK
  BY TypesMean DEF TableInv
<1>2. TableInv /\ [SNext]_<<vars, screens>> => TableInv'
  BY StepTable
<1> QED
  BY <1>1, <1>2, InitTable, PTL DEF SSpec

\* A correction changes the sheet only.
LEMMA CorrectionKeeps ==
    ASSUME NEW c, NEW patch, CorrectCharacter(c, patch)
    PROVE  /\ UNCHANGED <<scene, objectives, threats, rolls, nextRoll, taken, missionEnded>>
           /\ disclosed' = {}
  BY DEF CorrectCharacter, board, dice, table

LEMMA NumbersKeep ==
    ASSUME NumbersEdited
    PROVE  UNCHANGED <<sheet, scene, rolls, nextRoll, taken, missionEnded>>
  BY DEF NumbersEdited, dice, table

\* A pool composed on an old form is checked against the sheet as it is when the
\* GM rolls it, whatever the screens did in between (decideReviewAction).
THEOREM ChargesAtTheTable == SSpec => ChargesAreCovered
<1>1. EngineStep => ChargeCovered
  <2>1. ASSUME NEW c, NEW patch, CorrectCharacter(c, patch)
        PROVE  ChargeCovered
    BY <2>1, CorrectionKeeps DEF ChargeCovered
  <2>2. CASE NumbersEdited
    BY <2>2, NumbersKeep DEF ChargeCovered
  <2> QED
    BY <2>1, <2>2, StepCovered DEF EngineStep
<1>2. TableInv /\ [SNext]_<<vars, screens>> => TableInv' /\ [ChargeCovered]_vars
  BY <1>1, StepTable
<1> QED
  BY <1>2, InitTable, PTL DEF SSpec, ChargesAreCovered, ChargeCovered

\* The engine's invariants, kept by every step of the screens.
EngineInv == Inv /\ ThreatsShaped /\ RescueKinds

LEMMA InitEngine == SInit => EngineInv
  BY InitInv DEF SInit, EngineInv, Init, ThreatsShaped, RescueKinds, EmptyMap

LEMMA StepEngine ==
    ASSUME EngineInv, EngineStep
    PROVE  /\ EngineInv' /\ OneOfSix
           /\ disclosed' \subseteq Known \/ UNCHANGED vars
           /\ scene' # scene /\ scene'.acted \subseteq scene.acted =>
                 \A c \in Characters : RescueStands(c)
<1>1. CASE [Next]_vars
  <2>1. OneOfSix /\ Inv'
    BY <1>1, NextIsOneOfSix, StepInv DEF EngineInv
  <2>2. ThreatsShaped' /\ (disclosed' \subseteq Known \/ UNCHANGED vars)
    BY <1>1, StepShares DEF EngineInv
  <2>3. RescueKinds'
    BY <1>1, StepKinds DEF EngineInv
  <2>4. scene' # scene /\ scene'.acted \subseteq scene.acted =>
           \A c \in Characters : RescueStands(c)
    BY <1>1, StepRescues DEF EngineInv
  <2> QED
    BY <2>1, <2>2, <2>3, <2>4 DEF EngineInv
<1>2. ASSUME NEW c, NEW patch, CorrectCharacter(c, patch)
      PROVE  /\ EngineInv' /\ OneOfSix /\ disclosed' \subseteq Known /\ scene' = scene
  <2>1. /\ UNCHANGED <<scene, objectives, threats, rolls, nextRoll, missionEnded>>
        /\ disclosed' = {}
    BY <1>2, CorrectionKeeps
  <2>2. OneOfSix
    BY <2>1, UnchangedElsewhere DEF EngineInv
  <2>3. Inv'
    BY <2>2, StepInv DEF EngineInv
  <2>4. ThreatsShaped' /\ RescueKinds'
    BY <2>1 DEF EngineInv, ThreatsShaped, RescueKinds
  <2> QED
    BY <2>1, <2>2, <2>3, <2>4 DEF EngineInv
<1>3. CASE NumbersEdited
  <2>1. UNCHANGED <<scene, rolls, nextRoll, missionEnded>>
    BY <1>3, NumbersKeep
  <2>2. OneOfSix
    BY <2>1, UnchangedElsewhere DEF EngineInv
  <2>3. Inv'
    BY <2>2, StepInv DEF EngineInv
  <2>4. ASSUME NEW o, NEW r, NEW k, EditObjective(o, r, k)
        PROVE  ThreatsShaped' /\ RescueKinds' /\ disclosed' \subseteq Known
    BY <2>4 DEF EditObjective, EngineInv, ThreatsShaped, RescueKinds
  <2>5. ASSUME NEW t, NEW r, NEW a, NEW k, EditThreat(t, r, a, k)
        PROVE  ThreatsShaped' /\ RescueKinds' /\ disclosed' \subseteq Known
    BY <2>5 DEF EditThreat, EngineInv, ThreatsShaped, RescueKinds, Shaped, SharedDeltas, Known
  <2> QED
    BY <1>3, <2>1, <2>2, <2>3, <2>4, <2>5 DEF NumbersEdited, EngineInv
<1> QED
  BY <1>1, <1>2, <1>3 DEF EngineStep

\* What the screens send keeps every promise the engine makes to an arbitrary
\* client: one roll at a time, in its round, with dice that stand, secrets kept
\* and rescues carried (engine.ts under player2, gm2 and landing).
THEOREM EngineAtTheTable ==
    SSpec => /\ []OneOpenRoll /\ []OpenRollsFitTheRound
             /\ RolledDiceStand /\ SharedCopiesKeepSecrets /\ RescuesOutliveScenes
             /\ RefinesRoundOfTurns
<1>1. SInit => TableInv /\ EngineInv
  BY InitTable, InitEngine
<1>2. TableInv /\ EngineInv /\ [SNext]_<<vars, screens>> => TableInv' /\ EngineInv'
  BY StepTable, StepEngine
<1>3. EngineInv => OneOpenRoll /\ OpenRollsFitTheRound
  BY DEF EngineInv, Inv
<1>4. TableInv /\ EngineInv /\ [SNext]_<<vars, screens>> =>
        [/\ \A n \in Unresolved : rolls[n].status # "declared" /\ n \in Unresolved' =>
            /\ rolls'[n].character = rolls[n].character
            /\ rolls'[n].actor = rolls[n].actor
            /\ rolls'[n].kept = rolls[n].kept
            /\ rolls'[n].attack = rolls[n].attack
            /\ rolls'[n].engaged = rolls[n].engaged
         /\ \A n \in DOMAIN rolls' \ DOMAIN rolls : n \notin 1..nextRoll - 1]_vars
  BY StepTable, StepEngine, StepKeepsDice DEF RollStands, EngineInv
<1>5. TableInv /\ EngineInv /\ [SNext]_<<vars, screens>> =>
        [disclosed' \subseteq Revealed(threats) \cup Revealed(threats')
                               \cup UNION {rolls[n].engaged : n \in Unresolved}]_vars
  BY StepTable, StepEngine DEF Known
<1>6. TableInv /\ EngineInv /\ [SNext]_<<vars, screens>> =>
        [scene' # scene /\ scene'.acted \subseteq scene.acted => \A c \in Characters :
            Rescue(c) \in DOMAIN objectives /\ objectives[Rescue(c)].status = "active"
                => /\ Rescue(c) \in DOMAIN objectives'
                   /\ objectives'[Rescue(c)] = objectives[Rescue(c)]]_vars
  BY StepTable, StepEngine DEF RescueStands, OpenRescue
<1>7. SInit => Round!Init
  BY DEF SInit, Init, Round!Init, Stage, InStage, Unresolved, EmptyMap
<1>8. TableInv /\ EngineInv /\ [SNext]_<<vars, screens>> => [Round!Next]_Turn
  BY StepTable, StepEngine, StepRefines DEF EngineInv
<1> QED
  BY <1>1, <1>2, <1>3, <1>4, <1>5, <1>6, <1>7, <1>8, PTL
     DEF SSpec, RolledDiceStand, SharedCopiesKeepSecrets, RescuesOutliveScenes,
         RefinesRoundOfTurns, Round!Spec, Turn

-----------------------------------------------------------------------------
(* Screens that are behind.                                                *)

\* How far a roll has come.
Rank(status) == CASE status = "declared" -> 0
                  [] status = "awaiting_allocation" -> 1
                  [] status = "awaiting_injury_choice" -> 2
                  [] OTHER -> 3

\* A roll as it was and as it is: the same record, or one further on.
Later(was, is) == is = was \/ Rank(was.status) < Rank(is.status)

LEMMA RollsMoveOn ==
    ASSUME Inv, OneOfSix
    PROVE  /\ nextRoll' \in Nat /\ nextRoll <= nextRoll'
           /\ \A n \in DOMAIN rolls \cap DOMAIN rolls' : Later(rolls[n], rolls'[n])
<1>1. nextRoll \in Nat
  BY DEF Inv, RollsOK
<1>2. ASSUME NEW c, NEW r, Declares(c, r)
      PROVE  /\ nextRoll' = nextRoll + 1
             /\ \A n \in DOMAIN rolls : rolls'[n] = rolls[n]
  BY <1>2 DEF Declares, Update, Inv, RollsOK
<1>3. ASSUME NEW n, NEW r, Reviews(n, r) \/ Allocates(n, r) \/ Answers(n, r)
      PROVE  /\ nextRoll' = nextRoll
             /\ \A k \in DOMAIN rolls : Later(rolls[k], rolls'[k])
  <2>1. /\ n \in DOMAIN rolls /\ rolls' = [rolls EXCEPT ![n] = r] /\ nextRoll' = nextRoll
        /\ Rank(rolls[n].status) < Rank(r.status)
    BY <1>3 DEF Reviews, Allocates, Answers, Becomes, Unresolved, Rank
  <2> QED
    BY <2>1 DEF Later
<1>4. ASSUME NEW n, Voids(n)
      PROVE  /\ nextRoll' = nextRoll
             /\ \A k \in DOMAIN rolls' : rolls'[k] = rolls[k]
  BY <1>4 DEF Voids, Without
<1>5. ASSUME MovesOn \/ Elsewhere
      PROVE  rolls' = rolls /\ nextRoll' = nextRoll
  BY <1>5 DEF MovesOn, Elsewhere
<1> QED
  BY <1>1, <1>2, <1>3, <1>4, <1>5 DEF OneOfSix, Later

\* What a projection shows of the rolls is theirs, or was.
RollsSeen(v) ==
    \A n \in DOMAIN v.rolls :
        /\ n \in 1..nextRoll - 1
        /\ n \in DOMAIN rolls => Later(v.rolls[n], rolls[n])

Seen == \A w \in Screens : RollsSeen(shown[w])

LEMMA StepSeen ==
    ASSUME Seen, EngineInv, EngineInv', OneOfSix, \A w \in Screens : Sees(w)
    PROVE  Seen'
<1>1. /\ nextRoll \in Nat /\ nextRoll' \in Nat /\ nextRoll <= nextRoll'
      /\ \A n \in DOMAIN rolls \cap DOMAIN rolls' : Later(rolls[n], rolls'[n])
      /\ \A n \in DOMAIN rolls' \ DOMAIN rolls : n \notin 1..nextRoll - 1
  BY RollsMoveOn, StepKeepsDice DEF EngineInv, Inv, RollsOK
<1>2. ASSUME NEW w \in Screens, shown'[w] = shown[w],
             NEW n \in DOMAIN shown[w].rolls
      PROVE  /\ n \in 1..nextRoll' - 1
             /\ n \in DOMAIN rolls' => Later(shown[w].rolls[n], rolls'[n])
  <2>1. n \in 1..nextRoll - 1 /\ (n \in DOMAIN rolls => Later(shown[w].rolls[n], rolls[n]))
    BY DEF Seen, RollsSeen
  <2>2. n \in DOMAIN rolls' => n \in DOMAIN rolls /\ Later(rolls[n], rolls'[n])
    BY <1>1, <2>1
  <2>3. \A a, b, c : Later(a, b) /\ Later(b, c) => Later(a, c)
    BY DEF Later, Rank
  <2> QED
    BY <1>1, <2>1, <2>2, <2>3
<1>3. ASSUME NEW w \in Screens, shown'[w] = Projection(w)',
             NEW n \in DOMAIN shown'[w].rolls
      PROVE  /\ n \in 1..nextRoll' - 1
             /\ Later(shown'[w].rolls[n], rolls'[n])
  <2>1. shown'[w].rolls = [k \in {k \in Unresolved' : SeenInFull(w, k)'} |-> rolls'[k]]
    BY <1>3 DEF Projection
  <2> QED
    BY <1>3, <2>1 DEF Unresolved, EngineInv, Inv, RollsOK, Later
<1> QED
  BY <1>2, <1>3 DEF Sees, Seen, RollsSeen

\* The table, the engine and what screens that are behind still show.
TableIsOpen == TableInv /\ EngineInv /\ Seen

LEMMA InitOpen == SInit => TableIsOpen
  BY InitTable, InitEngine DEF SInit, Init, TableIsOpen, Seen, RollsSeen, Projection,
     Unresolved, EmptyMap

LEMMA StepOpen ==
    ASSUME TableIsOpen, [SNext]_<<vars, screens>>
    PROVE  TableIsOpen'
<1>1. TableInv' /\ EngineStep
  BY StepTable DEF TableIsOpen
<1>2. EngineInv' /\ OneOfSix
  BY <1>1, StepEngine DEF TableIsOpen
<1>3. \A w \in Screens : Sees(w)
  BY StepMoves, MovesSee DEF TableIsOpen, TableInv, ViewsOK
<1> QED
  BY <1>1, <1>2, <1>3, StepSeen DEF TableIsOpen

\* However far a screen is behind and whatever was voided and declared anew
\* meanwhile, a roll it shows is gone, further on or the very roll (nextRollSequence,
\* decideVoidRoll).
THEOREM ShownRollsStand == SSpec => []SeenRollsStand
<1>1. TableIsOpen => SeenRollsStand
  BY DEF TableIsOpen, Seen, RollsSeen, Later, Rank, SeenRollsStand
<1>2. TableIsOpen /\ [SNext]_<<vars, screens>> => TableIsOpen'
  BY StepOpen
<1> QED
  BY <1>1, <1>2, InitOpen, PTL DEF SSpec

LEMMA OffersLegal ==
    ASSUME SeenRollsStand, NEW m \in Members,
           Step(shown[m], m) \in {"awaiting_allocation", "awaiting_injury_choice"},
           OwnRoll(shown[m], m) \in DOMAIN rolls,
           rolls[OwnRoll(shown[m], m)].status = Step(shown[m], m)
    PROVE  LET v == shown[m]
               n == OwnRoll(v, m)
               roll == rolls[n]
               boxes(s, k) == {b \in s[Own(v, m)].marked : b[1] = k}
           IN  /\ \A i \in DOMAIN roll.kept : \A t \in Offers(v, m, v.rolls[n].kept[i]) :
                      LegalTarget(roll, roll.kept[i], t) \/ Gone(v, t) \/ Forbidden(roll, t)
               /\ \A k \in Categories : boxes(v.sheet, k) = boxes(sheet, k) =>
                      (k \in InjuryOffers(v, m) <=> k \in EligibleCategories(n))
<1> DEFINE v == shown[m]
           n == OwnRoll(v, m)
           roll == rolls[n]
           c == Own(v, m)
<1>1. v.rolls[n] = roll /\ roll.character = c
  BY OwnRollIs DEF SeenRollsStand, Screens
<1>2. ASSUME NEW i \in DOMAIN roll.kept, NEW t \in Offers(v, m, v.rolls[n].kept[i])
      PROVE  LegalTarget(roll, roll.kept[i], t) \/ Gone(v, t) \/ Forbidden(roll, t)
  <2> DEFINE special == {a \in Kit[c].abilities : Powers[a].trigger = "special"}
  <2>1. \/ \E o \in Active(v.objectives) : t = OnObjective(o)
        \/ \E x \in Active(v.threats) : t = OnThreat(x)
        \/ t = Defend \/ t = Feed
        \/ roll.kept[i] = "critical" /\ \E a \in special : t = Special(a)
    BY <1>1, <1>2 DEF Offers
  <2>2. CASE \E o \in Active(v.objectives) : t = OnObjective(o)
    BY <2>2 DEF OnObjective, LegalTarget, Gone, Active
  <2>3. CASE \E x \in Active(v.threats) : t = OnThreat(x)
    BY <2>3 DEF OnThreat, LegalTarget, Gone, Active
  <2>4. CASE t = Defend
    BY <2>4 DEF Defend, LegalTarget
  <2>5. CASE t = Feed
    BY <2>5 DEF Feed, LegalTarget, Forbidden
  <2>6. CASE roll.kept[i] = "critical" /\ \E a \in special : t = Special(a)
    BY <1>1, <2>6 DEF Special, LegalTarget, Forbidden
  <2> QED
    BY <2>1, <2>2, <2>3, <2>4, <2>5, <2>6
<1>3. ASSUME NEW k \in Categories,
             {b \in v.sheet[c].marked : b[1] = k} = {b \in sheet[c].marked : b[1] = k}
      PROVE  k \in InjuryOffers(v, m) <=> k \in EligibleCategories(n)
  <2>1. OpenBoxes(v.sheet[c].marked, k) = OpenBoxes(sheet[c].marked, k)
    BY <1>3 DEF OpenBoxes
  <2> QED
    BY <1>1, <2>1 DEF InjuryOffers, EligibleCategories
<1> QED
  BY <1>2, <1>3

\* For every roster and kit, however far a panel is behind: what it offers for a
\* roll that still waits is taken, gone or forbidden, and every category whose boxes
\* are as shown is offered exactly when decide takes it (validAllocations,
\* decideAllocateResults, decideChooseInjuryCategory).
THEOREM OffersTaken == SSpec => []OffersAreAccepted
<1>1. SeenRollsStand => OffersAreAccepted
  BY OffersLegal DEF OffersAreAccepted
<1> QED
  BY <1>1, ShownRollsStand, PTL
=============================================================================
