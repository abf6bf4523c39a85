\* STOP_FADE on one light of a group that is fading to a scene.
CONSTANTS
    a = a
    b = b
    gBoth = gBoth
    gOne = gOne
    s0 = s0
    s1 = s1
    Lights = {a, b}
    Groups = {gBoth, gOne}
    Broadcast = Broadcast
    MemberOf <- MCMemberOf
    MaxArc = 2
    MinLevel <- MCMinLevel
    MaxLevel <- MCMaxLevel
    Scenes = {s0}
    SceneLevel <- MCSceneLevel
    SceneColour <- MCSceneColour
    NoLevel = NoLevel
    Colours = {}
    NoColour = NoColour
    Durations = {2}
    SceneFade = 1
    ProgressMin = 1
    ArcLevels = {0, 2}
    Relatives = {"up"}
    StartLevels = {0}
    StartActive = {2}
    StartGroupLevels = {0}
SPECIFICATION Spec
PROPERTY StopEndsSceneFades
VIEW Present
