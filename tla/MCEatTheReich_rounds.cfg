\* Two alike characters of one player, two rolls, three directives of the GM.
SPECIFICATION Spec
CONSTANTS
    iryna = iryna chuck = chuck rifle = rifle hat = hat loot = loot
    shot = shot servants = servants corpseEater = corpseEater
    patrol = patrol colonel = colonel bridge = bridge
    Characters = {iryna, chuck}
    Items = {hat, loot}
    Abilities = {}
    ThreatIds = {colonel}
    ObjectiveIds = {bridge}
    Kit <- MCPlainKit
    Gear <- MCGear
    Powers <- MCPowers
    Faces = {1, 6}
    MaxBlood = 1
    HealCost = 1
    Members = {m1}
    LootItems = {loot}
    Advances = {a1}
    ThreatCard <- MCOneCard
    ObjectiveCard <- MCObjectiveCard
    Scenes <- MCOneScene
    EditValues <- MCEditValues
    StatChoices = {"SHOOT"}
    PatchFields = {"downed"}
    Reloads = TRUE
    MaxRolls = 2
    MaxDirectives = 3
    None = None
SYMMETRY MCSymmetry
INVARIANTS OneOpenRoll OpenRollsFitTheRound
PROPERTIES RolledDiceStand SharedCopiesKeepSecrets RescuesOutliveScenes RefinesRoundOfTurns
