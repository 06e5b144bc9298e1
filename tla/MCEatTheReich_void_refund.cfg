SPECIFICATION Spec
CONSTANTS
    iryna = iryna chuck = chuck rifle = rifle hat = hat loot = loot
    shot = shot servants = servants corpseEater = corpseEater
    patrol = patrol colonel = colonel bridge = bridge
    Characters = {iryna}
    Items = {rifle, hat, loot}
    Abilities = {shot, servants, corpseEater}
    ThreatIds = {patrol, colonel}
    ObjectiveIds = {bridge}
    Kit <- MCKit
    Gear <- MCGear
    Powers <- MCPowers
    Faces = {1, 6}
    MaxBlood = 2
    HealCost = 1
    Members = {m1}
    LootItems = {loot}
    Advances = {a1}
    ThreatCard <- MCThreatCard
    ObjectiveCard <- MCObjectiveCard
    Scenes <- MCScenes
    EditValues <- MCEditValues
    StatChoices = {"SHOOT"}
    PatchFields = {"uses", "retired"}
    Reloads = TRUE
    MaxRolls = 1
    MaxDirectives = 1
    None = None

PROPERTIES VoidRefundsCharges
