SPECIFICATION SSpec
CONSTANTS
    iryna = iryna chuck = chuck rifle = rifle hat = hat loot = loot flask = flask
    shot = shot servants = servants corpseEater = corpseEater
    patrol = patrol colonel = colonel bridge = bridge
    Characters = {iryna}
    Items = {rifle, hat, flask}
    Abilities = {shot, corpseEater}
    ThreatIds = {patrol, colonel}
    ObjectiveIds = {bridge}
    Kit <- MCScreenKit
    Gear <- MCScreenGear
    Powers <- MCPowers
    Faces = {4, 6}
    MaxBlood = 1
    HealCost = 1
    Members = {m1}
    LootItems = {rifle}
    Advances = {a1}
    ThreatCard <- MCThreatCard
    ObjectiveCard <- MCObjectiveCard
    Scenes <- MCCrashScenes
    EditValues = {}
    StatChoices = {"SHOOT"}
    PatchFields = {}
    Reloads = TRUE
    MaxRolls = 1
    MaxDirectives = 2
    None = None
    Gm = Gm
    MaxBehind = 1
    Mission <- MCCrash
    Corrected <- MCBloodSteps
    MaxTouched = 1
PROPERTIES OnlyTouchedFieldsChange
