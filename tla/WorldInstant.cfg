\* dim_time_ms = 0 and no custom fades: every command takes effect at once.
CONSTANTS
    a = a
    b = b
    gBoth = gBoth
    gOne = gOne
    s0 = s0
    s1 = s1
    Lights = {a, b}
    Groups = {gBoth, gOne}
    Broadcast = Broadcast
    MemberOf <- MCMemberOf
    MaxArc = 3
    MinLevel <- MCMinLevel
    MaxLevel <- MCMaxLevel
    Scenes = {s0, s1}
    SceneLevel <- MCSceneLevel
    SceneColour <- MCSceneColour
    NoLevel = NoLevel
    Colours = {red}
    NoColour = NoColour
    Durations = {0}
    SceneFade = 0
    ProgressMin = 2
    ArcLevels = {0, 4}
    Relatives = {"recall_max", "recall_min", "last_active", "on_step_up", "step_down_off", "up", "down"}
    StartLevels = {2}
    StartActive = {1}
    StartGroupLevels = {2}
SPECIFICATION Spec
INVARIANT GroupSceneAgrees
PROPERTIES SceneLevelHeld GroupLevelKept GroupTargetIsShared
VIEW Present
