\* Two lights and their group, dumped once while others fade one of them out with the
\* scene, switch it on, send a colour, query and stop, and at most one reply is lost.
CONSTANTS
    a = a
    b = b
    gBoth = gBoth
    s0 = s0
    k0 = k0
    Lights = {a, b}
    Groups = {gBoth}
    Broadcast = Broadcast
    MemberOf <- MCMemberOf
    MaxArc = 1
    MinLevel <- MCMinLevel
    MaxLevel <- MCMaxLevel
    Scenes = {s0}
    SceneLevel <- MCSceneLevel
    SceneColour <- MCSceneColour
    NoLevel = NoLevel
    Colours = {k0}
    NoColour = NoColour
    Durations = {}
    SceneFade = 1
    ProgressMin = 1
    ArcLevels = {1}
    Relatives = {}
    StartLevels = {1}
    StartActive = {1}
    StartGroupLevels = {1}
    GroupOrder <- MCGroupOrder
    LightOrder <- MCLightOrder
    FirstScene = s0
    ColourLights <- MCColourLights
    ReadColour <- MCReadColour
    MaxLost = 1
    MaxDumps = 1
    MaxCommands = 1
SPECIFICATION SnapshotFairSpec
INVARIANTS UntouchedIsExact
PROPERTIES StatusRecovers FadesEnd
VIEW SnapshotView
