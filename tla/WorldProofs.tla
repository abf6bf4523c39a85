---------------------------- MODULE WorldProofs ----------------------------
(***************************************************************************)
(* The properties of World, for every set of lights, groups and scenes.    *)
(* First what the operators of Gear return, for one light; then what an    *)
(* action does to all of them; then the invariants and the properties.     *)
(***************************************************************************)
EXTENDS World, TLAPS

\* Rounding a quotient of at most M gives at most M: round() never carries an
\* interpolated level above the larger end of the fade.
LEMMA RoundDivBound ==
    ASSUME NEW n \in Nat, NEW d \in Nat \ {0}, NEW M \in Nat, n <= M * d
    PROVE  RoundDiv(n, d) \in 0 .. M
<1> DEFINE q == n \div d
           r == n % d
<1>1. q \in Int /\ r \in 0 .. (d - 1) /\ n = d * q + r
  OBVIOUS
<1>2. q >= 0
  <2> SUFFICES ASSUME q <= -1 PROVE FALSE
    BY <1>1
  <2>1. d * q <= d * (-1)
    BY <1>1
  <2> QED
    BY <2>1, <1>1
<1>3. q <= M
  <2> SUFFICES ASSUME q >= M + 1 PROVE FALSE
    BY <1>1
  <2>1. d * q >= d * (M + 1)
    BY <1>1
  <2>2. d * (M + 1) = M * d + d
    OBVIOUS
  <2> QED
    BY <2>1, <2>2, <1>1
<1>4. q = M => r = 0
  <2> SUFFICES ASSUME q = M PROVE r = 0
    OBVIOUS
  <2>1. d * q = M * d
    BY <1>1
  <2> QED
    BY <2>1, <1>1
<1> QED
  BY <1>1, <1>2, <1>3, <1>4 DEF RoundDiv

\* An interpolated level is an arc level.
LEMMA InterpolateType ==
    ASSUME MaxArc \in Nat, NEW from \in Levels, NEW to \in Levels,
           NEW total \in Nat \ {0}, NEW elapsed \in 0 .. total
    PROVE  Interpolate(from, to, elapsed, total) \in Levels
<1> DEFINE rest == total - elapsed
           n == from * rest + to * elapsed
<1>1. from \in 0 .. MaxArc /\ to \in 0 .. MaxArc /\ rest \in Nat /\ elapsed \in Nat
  BY DEF Levels
<1>2. from * rest \in Nat /\ from * rest <= MaxArc * rest
  BY <1>1
<1>3. to * elapsed \in Nat /\ to * elapsed <= MaxArc * elapsed
  BY <1>1
<1>4. MaxArc * rest + MaxArc * elapsed = MaxArc * total
  BY <1>1
<1>5. n \in Nat /\ n <= MaxArc * total
  <2> HIDE DEF rest
  <2>1. MaxArc * rest \in Nat /\ MaxArc * elapsed \in Nat /\ MaxArc * total \in Nat
    BY <1>1
  <2> QED
    BY <1>2, <1>3, <1>4, <2>1
<1> HIDE DEF n
<1>6. RoundDiv(n, total) \in 0 .. MaxArc
  BY <1>5, RoundDivBound
<1> QED
  BY <1>6 DEF Interpolate, Levels, n

-----------------------------------------------------------------------------
(* Every method of Light leaves a well-typed gear behind.                    *)

LEMMA NoFadeType ==
    ASSUME MaxArc \in Nat PROVE NoFade \in FadeType
BY DEF NoFade, FadeType, Levels, Wires

LEMMA VisibleType ==
    ASSUME MaxArc \in Nat, NEW x \in GearType
    PROVE  Visible(x) \in Levels /\ Destination(x) \in Levels
<1>1. x.level \in Levels /\ x.fade \in FadeType
  BY DEF GearType
<1>2. /\ x.fade.from \in Levels /\ x.fade.to \in Levels
      /\ x.fade.total \in Nat /\ x.fade.elapsed \in Nat
  BY <1>1 DEF FadeType
<1>3. CASE Fading(x) /\ ~Due(x)
  <2>1. x.fade.total \in Nat \ {0} /\ x.fade.elapsed \in 0 .. x.fade.total
    BY <1>2, <1>3 DEF Fading, Due
  <2>2. Interpolate(x.fade.from, x.fade.to, x.fade.elapsed, x.fade.total) \in Levels
    BY <2>1, <1>2, InterpolateType
  <2> QED
    BY <1>2, <1>3, <2>2 DEF Visible, Destination
<1>4. CASE ~(Fading(x) /\ ~Due(x))
  BY <1>1, <1>2, <1>4 DEF Visible, Destination, Due
<1> QED
  BY <1>3, <1>4

LEMMA ClampType ==
    ASSUME MaxArc \in Nat, NEW v \in Int PROVE ClampLevel(v) \in Levels
BY DEF ClampLevel, Levels

LEMMA AdvanceType ==
    ASSUME NEW x \in GearType
    PROVE  /\ Advance(x) \in GearType
           /\ Advance(x).sceneCurrent = x.sceneCurrent
           /\ Advance(x).lastScene = x.lastScene
<1> DEFINE fade == [x.fade EXCEPT !.elapsed = x.fade.elapsed + 1]
           y == [x EXCEPT !.fade = fade]
<1>1. x.fade \in FadeType
  BY DEF GearType
<1>2. fade \in FadeType
  BY <1>1 DEF FadeType
<1>3. Advance(x) = IF Fading(x) /\ ~Due(x) THEN y ELSE x
  BY DEF Advance
<1> HIDE DEF fade
<1>4. y \in GearType /\ y.sceneCurrent = x.sceneCurrent /\ y.lastScene = x.lastScene
  BY <1>2 DEF GearType
<1> HIDE DEF y
<1> QED
  BY <1>3, <1>4

\* Expiring, refreshing and freezing a gear leave its scene alone.
LEMMA ExpireFadeType ==
    ASSUME MaxArc \in Nat, NEW x \in GearType
    PROVE  /\ ExpireFade(x) \in GearType
           /\ ExpireFade(x).sceneCurrent = x.sceneCurrent
           /\ ExpireFade(x).lastScene = x.lastScene
<1> DEFINE to == x.fade.to
           lamp == to > 0
<1>1. to \in Levels /\ lamp \in BOOLEAN
  BY DEF GearType, FadeType
<1>2. ExpireFade(x) = IF Due(x) THEN [x EXCEPT !.level = to, !.fade = NoFade,
                                               !.fadeBit = FALSE, !.lampOn = lamp]
                                ELSE x
  BY DEF ExpireFade
<1>3. CASE Due(x)
  <2> HIDE DEF to, lamp
  <2> DEFINE y == [x EXCEPT !.level = to, !.fade = NoFade, !.fadeBit = FALSE, !.lampOn = lamp]
  <2>1. NoFade \in FadeType
    BY NoFadeType
  <2>2. y \in GearType /\ y.sceneCurrent = x.sceneCurrent /\ y.lastScene = x.lastScene
    BY <1>1, <2>1 DEF GearType
  <2>3. ExpireFade(x) = y
    BY <1>2, <1>3
  <2> HIDE DEF y
  <2> QED
    BY <2>2, <2>3
<1>4. CASE ~Due(x)
  BY <1>2, <1>4
<1> QED
  BY <1>3, <1>4

LEMMA RefreshStatusType ==
    ASSUME MaxArc \in Nat, NEW x \in GearType
    PROVE  /\ RefreshStatus(x) \in GearType
           /\ RefreshStatus(x).sceneCurrent = x.sceneCurrent
           /\ RefreshStatus(x).lastScene = x.lastScene
<1> DEFINE y == ExpireFade(x)
           lamp == Visible(y) > 0
<1>1. y \in GearType /\ y.sceneCurrent = x.sceneCurrent /\ y.lastScene = x.lastScene
  BY ExpireFadeType
<1>2. lamp \in BOOLEAN
  OBVIOUS
<1>3. RefreshStatus(x) = IF Fading(y) THEN [y EXCEPT !.lampOn = lamp] ELSE y
  BY DEF RefreshStatus
<1> HIDE DEF y, lamp
<1> DEFINE z == [y EXCEPT !.lampOn = lamp]
<1>4. z \in GearType /\ z.sceneCurrent = y.sceneCurrent /\ z.lastScene = y.lastScene
  BY <1>1, <1>2 DEF GearType
<1> HIDE DEF z
<1>5. RefreshStatus(x) = IF Fading(y) THEN z ELSE y
  BY <1>3 DEF z
<1> QED
  BY <1>1, <1>4, <1>5

LEMMA FreezeType ==
    ASSUME MaxArc \in Nat, NEW x \in GearType
    PROVE  /\ Freeze(x) \in GearType
           /\ Freeze(x).sceneCurrent = x.sceneCurrent
           /\ Freeze(x).lastScene = x.lastScene
<1> DEFINE seen == Visible(x)
           lamp == seen > 0
<1>1. seen \in Levels /\ lamp \in BOOLEAN
  BY VisibleType
<1>2. Freeze(x) = IF Fading(x) THEN [x EXCEPT !.level = seen, !.fade = NoFade,
                                              !.fadeBit = FALSE, !.lampOn = lamp]
                               ELSE x
  BY DEF Freeze
<1> HIDE DEF seen, lamp
<1> DEFINE y == [x EXCEPT !.level = seen, !.fade = NoFade, !.fadeBit = FALSE, !.lampOn = lamp]
<1>3. y \in GearType /\ y.sceneCurrent = x.sceneCurrent /\ y.lastScene = x.lastScene
  BY <1>1, NoFadeType DEF GearType
<1> HIDE DEF y
<1>4. Freeze(x) = IF Fading(x) THEN y ELSE x
  BY <1>2 DEF y
<1> QED
  BY <1>3, <1>4

\* A level or a colour takes the light out of its scene.
LEMMA SetLevelType ==
    ASSUME MaxArc \in Nat, NEW x \in GearType, NEW v \in Int,
           NEW duration \in Nat, NEW origin \in Wires
    PROVE  /\ SetLevel(x, v, duration, origin) \in GearType
           /\ ~SetLevel(x, v, duration, origin).sceneCurrent
           /\ SetLevel(x, v, duration, origin).lastScene = x.lastScene
<1> DEFINE to == ClampLevel(v)
           from == Visible(x)
           fades == duration > 0
           active == IF to > 0 THEN to ELSE x.lastActive
           fade == IF fades THEN FadeTo(from, to, origin, duration) ELSE NoFade
           lamp == (IF fades THEN from ELSE to) > 0
<1>1. to \in Levels /\ from \in Levels
  BY ClampType, VisibleType
<1>2. fade \in FadeType
  <2> HIDE DEF to, from
  <2> QED
    BY <1>1, NoFadeType DEF FadeTo, FadeType
<1>3. active \in 1 .. MaxArc
  <2> HIDE DEF to
  <2>1. x.lastActive \in 1 .. MaxArc
    BY DEF GearType
  <2> QED
    BY <1>1, <2>1 DEF Levels
<1>4. fades \in BOOLEAN /\ lamp \in BOOLEAN
  OBVIOUS
<1>5. SetLevel(x, v, duration, origin) =
        [x EXCEPT !.level = to, !.lastActive = active, !.sceneCurrent = FALSE,
                  !.fade = fade, !.fadeBit = fades, !.lampOn = lamp]
  BY DEF SetLevel
<1> HIDE DEF to, from, fades, active, fade, lamp
<1> DEFINE y == [x EXCEPT !.level = to, !.lastActive = active, !.sceneCurrent = FALSE,
                          !.fade = fade, !.fadeBit = fades, !.lampOn = lamp]
<1>6. y \in GearType /\ ~y.sceneCurrent /\ y.lastScene = x.lastScene
  BY <1>1, <1>2, <1>3, <1>4 DEF GearType
<1> HIDE DEF y
<1>7. SetLevel(x, v, duration, origin) = y
  BY <1>5 DEF y
<1> QED
  BY <1>6, <1>7

LEMMA SetColourType ==
    ASSUME NEW x \in GearType, NEW c \in Colours
    PROVE  /\ SetColour(x, c) \in GearType
           /\ ~SetColour(x, c).sceneCurrent
           /\ SetColour(x, c).lastScene = x.lastScene
BY DEF SetColour, GearType

\* A scene recall leaves the light in that scene, whatever of level and colour
\* the scene defines for it.
LEMMA RecallSceneType ==
    ASSUME MaxArc \in Nat, LevelAssumption, SceneAssumption,
           NEW l \in Lights, NEW x \in GearType, NEW s \in Scenes,
           NEW duration \in Nat, NEW origin \in Wires
    PROVE  /\ RecallScene(l, x, s, duration, origin) \in GearType
           /\ RecallScene(l, x, s, duration, origin).sceneCurrent
           /\ RecallScene(l, x, s, duration, origin).lastScene = s
<1> DEFINE y == ExpireFade(x)
           z == IF SceneLevel[l][s] = NoLevel THEN y
                ELSE SetLevel(y, SceneLevel[l][s], duration, origin)
           k == IF SceneColour[l][s] = NoColour THEN z.colour ELSE SceneColour[l][s]
<1>1. y \in GearType
  BY ExpireFadeType
<1>2. z \in GearType
  <2> HIDE DEF y
  <2>1. CASE SceneLevel[l][s] = NoLevel
    BY <1>1, <2>1
  <2>2. CASE SceneLevel[l][s] # NoLevel
    <3>1. SceneLevel[l][s] \in Int
      BY <2>2 DEF SceneAssumption, Levels
    <3> QED
      BY <1>1, <2>2, <3>1, SetLevelType
  <2> QED
    BY <2>1, <2>2
<1> HIDE DEF z
<1>3. k \in Colours \cup {NoColour}
  BY <1>2 DEF SceneAssumption, GearType
<1> HIDE DEF k
<1>4. RecallScene(l, x, s, duration, origin) =
        [z EXCEPT !.lastScene = s, !.sceneCurrent = TRUE, !.colour = k]
  BY DEF RecallScene, y, z, k
<1> QED
  BY <1>2, <1>3, <1>4 DEF GearType

\* Every choice of a relative command is a level.
LEMMA ChosenLevelType ==
    ASSUME LevelAssumption, NEW choice \in Choices, NEW l \in Lights, NEW x \in GearType
    PROVE  ChosenLevel(choice, l, x) \in Int
<1>1. /\ MinLevel[l] \in Int /\ MaxLevel[l] \in Int
      /\ x.lastActive \in Int /\ MaxArc \in Int /\ MaxArc \in Nat
  BY DEF LevelAssumption, Levels, GearType
<1>2. Visible(x) \in Int
  BY <1>1, VisibleType DEF Levels
<1>3. StepLevel(l, x, 1, TRUE, FALSE) \in Int /\ StepLevel(l, x, -1, FALSE, TRUE) \in Int
  BY <1>1, <1>2 DEF StepLevel
<1>4. StepLevel(l, x, 1, FALSE, FALSE) \in Int /\ StepLevel(l, x, -1, FALSE, FALSE) \in Int
  BY <1>1, <1>2 DEF StepLevel
<1>5. (IF x.lastActive = 0 THEN MaxArc ELSE x.lastActive) \in Int
  BY <1>1
<1>6. CASE choice = "recall_max"
  BY <1>1, <1>6 DEF ChosenLevel
<1>7. CASE choice = "recall_min"
  BY <1>1, <1>7 DEF ChosenLevel
<1>8. CASE choice = "last_active"
  BY <1>5, <1>8 DEF ChosenLevel
<1>9. CASE choice = "on_step_up"
  BY <1>3, <1>9 DEF ChosenLevel
<1>10. CASE choice = "step_down_off"
  BY <1>3, <1>10 DEF ChosenLevel
<1>11. CASE choice = "up"
  BY <1>4, <1>11 DEF ChosenLevel
<1>12. CASE choice = "down"
  BY <1>4, <1>12 DEF ChosenLevel
<1> QED
  BY <1>6, <1>7, <1>8, <1>9, <1>10, <1>11, <1>12 DEF Choices

-----------------------------------------------------------------------------
(* What is seen of a light: its level, its target, its status                *)

\* y is the gear x after somebody looked at it: it shows the same, and has lost its
\* fade at most if that was due.
Seen(x, y) ==
    /\ y \in GearType /\ Coherent(y)
    /\ Visible(y) = Visible(x) /\ Destination(y) = Destination(x)
    /\ y.level = x.level
    /\ y.sceneCurrent = x.sceneCurrent /\ y.lastScene = x.lastScene
    /\ ~Due(x) => y.fade = x.fade

LEMMA SeenItself ==
    ASSUME NEW x \in GearType, Coherent(x) PROVE Seen(x, x)
BY DEF Seen

LEMMA SeenTwice ==
    ASSUME NEW x, NEW y, NEW z, Seen(x, y), Seen(y, z) PROVE Seen(x, z)
BY DEF Seen, Due, Fading

\* Two gears with the same level and fade show the same.
LEMMA SameShow ==
    ASSUME NEW x, NEW y, y.level = x.level, y.fade = x.fade
    PROVE  /\ Visible(y) = Visible(x) /\ Destination(y) = Destination(x)
           /\ Fading(y) <=> Fading(x)
           /\ Due(y) <=> Due(x)
BY DEF Visible, Destination, Fading, Due

\* A gear at rest shows its level.
LEMMA RestShow ==
    ASSUME NEW x, x.fade = NoFade
    PROVE  ~Fading(x) /\ ~Due(x) /\ Visible(x) = x.level /\ Destination(x) = x.level
BY DEF Visible, Destination, Fading, Due, NoFade

\* A gear at rest is coherent if its status byte says so.
LEMMA RestCoherent ==
    ASSUME NEW x, x.fade = NoFade, ~x.fadeBit, x.lampOn <=> x.level > 0
    PROVE  Coherent(x)
BY RestShow DEF Coherent

\* Taking away a fade that is due shows nothing new: the level has been its target
\* since the fade began.
LEMMA ExpireFadeSeen ==
    ASSUME MaxArc \in Nat, NEW x \in GearType, Coherent(x)
    PROVE  Seen(x, ExpireFade(x)) /\ ~Due(ExpireFade(x))
<1> DEFINE to == x.fade.to
           lamp == to > 0
           y == [x EXCEPT !.level = to, !.fade = NoFade, !.fadeBit = FALSE, !.lampOn = lamp]
<1>1. CASE Due(x)
  <2>1. ExpireFade(x) = y
    BY <1>1 DEF ExpireFade
  <2>2. /\ y \in GearType /\ y.sceneCurrent = x.sceneCurrent /\ y.lastScene = x.lastScene
    BY <2>1, ExpireFadeType
  <2> HIDE DEF to, lamp
  <2>3. y.level = to /\ y.fade = NoFade /\ ~y.fadeBit /\ y.lampOn = lamp
    BY DEF GearType
  <2> HIDE DEF y
  <2>4. Coherent(y)
    BY <2>3, RestCoherent DEF lamp
  <2>5. Fading(x) /\ x.level = to /\ Visible(x) = to /\ Destination(x) = to
    BY <1>1 DEF Due, Visible, Destination, Coherent, to
  <2> QED
    BY <1>1, <2>1, <2>2, <2>3, <2>4, <2>5, RestShow DEF Seen
<1>2. CASE ~Due(x)
  BY <1>2, SeenItself DEF ExpireFade
<1> QED
  BY <1>1, <1>2

LEMMA RefreshStatusSeen ==
    ASSUME MaxArc \in Nat, NEW x \in GearType, Coherent(x)
    PROVE  Seen(x, RefreshStatus(x))
<1> DEFINE y == ExpireFade(x)
           lamp == Visible(y) > 0
           z == [y EXCEPT !.lampOn = lamp]
<1>1. Seen(x, y) /\ y \in GearType /\ Coherent(y)
  BY ExpireFadeSeen DEF Seen
<1>2. RefreshStatus(x) = IF Fading(y) THEN z ELSE y
  BY DEF RefreshStatus
<1>3. RefreshStatus(x) \in GearType
  BY RefreshStatusType
<1> HIDE DEF y, lamp
<1>4. CASE Fading(y)
  <2>1. /\ z.level = y.level /\ z.fade = y.fade /\ z.fadeBit = y.fadeBit
        /\ z.sceneCurrent = y.sceneCurrent /\ z.lastScene = y.lastScene
    BY <1>1 DEF GearType
  <2>2. z \in GearType
    BY <1>2, <1>3, <1>4
  <2> HIDE DEF z
  <2>3. Coherent(z)
    BY <1>1, <1>4, <2>1, SameShow DEF Coherent
  <2>4. Seen(y, z)
    BY <2>1, <2>2, <2>3, SameShow DEF Seen
  <2> QED
    BY <1>1, <1>2, <1>4, <2>4, SeenTwice
<1>5. CASE ~Fading(y)
  BY <1>1, <1>2, <1>5
<1> QED
  BY <1>4, <1>5

\* Nothing happens to a gear at rest.
LEMMA RestStays ==
    ASSUME NEW x, x.fade = NoFade
    PROVE  ExpireFade(x) = x /\ RefreshStatus(x) = x /\ Advance(x) = x
BY RestShow DEF ExpireFade, RefreshStatus, Advance

\* Stopping a fade leaves the light where it is seen.
LEMMA FreezeSeen ==
    ASSUME MaxArc \in Nat, NEW x \in GearType, Coherent(x), Fading(x)
    PROVE  /\ Freeze(x) \in GearType /\ Coherent(Freeze(x)) /\ ~Fading(Freeze(x))
           /\ Visible(Freeze(x)) = Visible(x)
           /\ Freeze(x).level = Visible(x) /\ Destination(Freeze(x)) = Visible(x)
<1> DEFINE seen == Visible(x)
           lamp == seen > 0
           y == [x EXCEPT !.level = seen, !.fade = NoFade, !.fadeBit = FALSE, !.lampOn = lamp]
<1>1. Freeze(x) = y
  BY DEF Freeze
<1>2. y \in GearType
  BY <1>1, FreezeType
<1> HIDE DEF seen, lamp
<1>3. y.level = seen /\ y.fade = NoFade /\ ~y.fadeBit /\ y.lampOn = lamp
  BY DEF GearType
<1> HIDE DEF y
<1>4. Coherent(y)
  BY <1>3, RestCoherent DEF lamp
<1> QED
  BY <1>1, <1>2, <1>3, <1>4, RestShow DEF seen

\* From a level command on, the light is heading for that level.
LEMMA SetLevelSeen ==
    ASSUME MaxArc \in Nat, NEW x \in GearType, NEW v \in Int,
           NEW duration \in Nat, NEW origin \in Wires
    PROVE  LET y == SetLevel(x, v, duration, origin)
           IN  /\ Coherent(y)
               /\ y.level = ClampLevel(v) /\ Destination(y) = ClampLevel(v)
               /\ duration = 0 => y.fade = NoFade
<1> DEFINE to == ClampLevel(v)
           from == Visible(x)
           fades == duration > 0
           active == IF to > 0 THEN to ELSE x.lastActive
           fade == IF fades THEN FadeTo(from, to, origin, duration) ELSE NoFade
           lamp == (IF fades THEN from ELSE to) > 0
           y == [x EXCEPT !.level = to, !.lastActive = active, !.sceneCurrent = FALSE,
                          !.fade = fade, !.fadeBit = fades, !.lampOn = lamp]
<1>1. SetLevel(x, v, duration, origin) = y
  BY DEF SetLevel
<1>2. CASE duration = 0
  <2> HIDE DEF to, active, lamp, fade, fades
  <2>1. y.level = to /\ y.fade = fade /\ y.fadeBit = fades /\ y.lampOn = lamp
    BY DEF GearType
  <2> HIDE DEF y
  <2>2. fade = NoFade /\ ~fades /\ (lamp <=> to > 0)
    BY <1>2 DEF fade, fades, lamp
  <2>3. Coherent(y)
    BY <2>1, <2>2, RestCoherent
  <2> QED
    BY <1>1, <2>1, <2>2, <2>3, RestShow DEF to
<1>3. CASE duration > 0
  <2> HIDE DEF to, from, active, lamp, fade, fades
  <2>1. y.level = to /\ y.fade = fade /\ y.fadeBit = fades
    BY DEF GearType
  <2> HIDE DEF y
  <2>2. fade = FadeTo(from, to, origin, duration) /\ fades
    BY <1>3 DEF fade, fades
  <2>3. fade.total = duration /\ fade.to = to /\ fade.elapsed = 0
    BY <2>2 DEF FadeTo
  <2>4. Fading(y) /\ Coherent(y) /\ Destination(y) = to
    BY <1>3, <2>1, <2>2, <2>3 DEF Fading, Coherent, Destination
  <2> QED
    BY <1>1, <1>3, <2>1, <2>4 DEF to
<1> QED
  BY <1>2, <1>3

\* A colour leaves the level and a fade alone.
LEMMA SetColourSeen ==
    ASSUME NEW x \in GearType, Coherent(x), NEW c \in Colours
    PROVE  LET y == SetColour(x, c)
           IN  /\ Coherent(y) /\ y.level = x.level
               /\ Destination(y) = Destination(x) /\ Visible(y) = Visible(x)
<1> DEFINE y == [x EXCEPT !.colour = c, !.sceneCurrent = FALSE]
<1>1. SetColour(x, c) = y
  BY DEF SetColour
<1>2. y.level = x.level /\ y.fade = x.fade /\ y.fadeBit = x.fadeBit /\ y.lampOn = x.lampOn
  BY DEF GearType
<1> HIDE DEF y
<1>3. Coherent(y)
  BY <1>2, SameShow DEF Coherent
<1> QED
  BY <1>1, <1>2, <1>3, SameShow

\* A scene that has a level for the light sends it there.
LEMMA RecallSceneSeen ==
    ASSUME LevelAssumption, SceneAssumption, MaxArc \in Nat,
           NEW l \in Lights, NEW x \in GearType, Coherent(x), NEW s \in Scenes,
           NEW duration \in Nat, NEW origin \in Wires
    PROVE  LET y == RecallScene(l, x, s, duration, origin)
           IN  /\ Coherent(y)
               /\ IF SceneLevel[l][s] = NoLevel
                  THEN y.level = x.level /\ Destination(y) = Destination(x)
                  ELSE y.level = SceneLevel[l][s]
               /\ duration = 0 /\ x.fade = NoFade => y.fade = NoFade
<1> DEFINE x1 == ExpireFade(x)
           z == IF SceneLevel[l][s] = NoLevel THEN x1
                ELSE SetLevel(x1, SceneLevel[l][s], duration, origin)
           k == IF SceneColour[l][s] = NoColour THEN z.colour ELSE SceneColour[l][s]
           y == [z EXCEPT !.lastScene = s, !.sceneCurrent = TRUE, !.colour = k]
<1>1. RecallScene(l, x, s, duration, origin) = y
  BY DEF RecallScene
<1>2. Seen(x, x1) /\ x1 \in GearType
  BY ExpireFadeSeen DEF Seen
<1> HIDE DEF x1
<1>3. /\ z \in GearType /\ Coherent(z)
      /\ IF SceneLevel[l][s] = NoLevel
         THEN z.level = x.level /\ Destination(z) = Destination(x)
         ELSE z.level = SceneLevel[l][s]
      /\ duration = 0 /\ x.fade = NoFade => z.fade = NoFade
  <2>1. CASE SceneLevel[l][s] = NoLevel
    BY <1>2, <2>1, RestShow DEF Seen
  <2>2. CASE SceneLevel[l][s] # NoLevel
    <3>1. SceneLevel[l][s] \in Levels
      BY <2>2 DEF SceneAssumption
    <3>2. SceneLevel[l][s] \in Int /\ ClampLevel(SceneLevel[l][s]) = SceneLevel[l][s]
      BY <3>1 DEF ClampLevel, Levels
    <3> QED
      BY <1>2, <2>2, <3>2, SetLevelSeen, SetLevelType
  <2> QED
    BY <2>1, <2>2
<1> HIDE DEF z, k
<1>4. y.level = z.level /\ y.fade = z.fade /\ y.fadeBit = z.fadeBit /\ y.lampOn = z.lampOn
  BY <1>3 DEF GearType
<1> HIDE DEF y
<1>5. Coherent(y) /\ Destination(y) = Destination(z)
  BY <1>3, <1>4, SameShow DEF Coherent
<1> QED
  BY <1>1, <1>3, <1>4, <1>5

-----------------------------------------------------------------------------
(* A fade moves towards its target                                           *)

\* Rounding keeps the order of quotients.
LEMMA RoundDivMonotone ==
    ASSUME NEW n \in Nat, NEW m \in Nat, n <= m, NEW d \in Nat \ {0}
    PROVE  RoundDiv(n, d) <= RoundDiv(m, d)
<1> DEFINE q == n \div d
           r == n % d
           p == m \div d
           s == m % d
           a == RoundDiv(n, d)
           b == RoundDiv(m, d)
<1> SUFFICES a <= b
  OBVIOUS
<1>1. /\ q \in Int /\ r \in 0 .. (d - 1) /\ n = d * q + r
      /\ p \in Int /\ s \in 0 .. (d - 1) /\ m = d * p + s
  OBVIOUS
<1>2. /\ a = IF 2 * r > d \/ (2 * r = d /\ q % 2 = 1) THEN q + 1 ELSE q
      /\ b = IF 2 * s > d \/ (2 * s = d /\ p % 2 = 1) THEN p + 1 ELSE p
  BY DEF RoundDiv
<1> HIDE DEF q, r, p, s, a, b
<1>3. q <= p
  <2> SUFFICES ASSUME q >= p + 1 PROVE FALSE
    BY <1>1
  <2>1. d * q >= d * (p + 1)
    BY <1>1
  <2>2. d * (p + 1) = d * p + d
    BY <1>1
  <2> QED
    BY <2>1, <2>2, <1>1
<1>4. CASE q < p
  BY <1>1, <1>2, <1>4
<1>5. CASE q = p
  <2>1. r <= s
    BY <1>1, <1>5
  <2>2. a = q \/ (a = q + 1 /\ (2 * s > d \/ (2 * s = d /\ p % 2 = 1)))
    BY <1>1, <1>2, <1>5, <2>1
  <2> QED
    BY <1>1, <1>2, <1>5, <2>2
<1> QED
  BY <1>1, <1>3, <1>4, <1>5

LEMMA RoundDivExact ==
    ASSUME NEW t \in Nat, NEW d \in Nat \ {0}
    PROVE  t * d \in Nat /\ RoundDiv(t * d, d) = t
<1> DEFINE n == t * d
           q == n \div d
           r == n % d
<1>1. n \in Nat
  OBVIOUS
<1>2. q \in Int /\ r \in 0 .. (d - 1) /\ n = d * q + r
  BY <1>1
<1>3. RoundDiv(n, d) = IF 2 * r > d \/ (2 * r = d /\ q % 2 = 1) THEN q + 1 ELSE q
  BY DEF RoundDiv
<1>4. n = d * t
  OBVIOUS
<1> HIDE DEF n, q, r
<1>5. q <= t
  <2> SUFFICES ASSUME q >= t + 1 PROVE FALSE
    BY <1>2
  <2>1. d * q >= d * (t + 1) /\ d * (t + 1) = d * t + d
    BY <1>2
  <2> QED
    BY <2>1, <1>1, <1>2, <1>4
<1>6. q >= t
  <2> SUFFICES ASSUME q <= t - 1 PROVE FALSE
    BY <1>2
  <2>1. d * q <= d * (t - 1) /\ d * (t - 1) = d * t - d
    BY <1>2
  <2> QED
    BY <2>1, <1>1, <1>2, <1>4
<1>7. q = t /\ r = 0
  <2>1. q = t
    BY <1>2, <1>5, <1>6
  <2> QED
    BY <1>2, <1>4, <2>1
<1> QED
  BY <1>1, <1>2, <1>3, <1>7 DEF n

\* One step of the interpolation goes towards its end and not beyond it.
LEMMA InterpolateTowards ==
    ASSUME MaxArc \in Nat, NEW from \in Levels, NEW to \in Levels,
           NEW total \in Nat \ {0}, NEW elapsed \in Nat, elapsed < total
    PROVE  LET now  == Interpolate(from, to, elapsed, total)
               next == Interpolate(from, to, elapsed + 1, total)
           IN  IF from <= to THEN now <= next /\ next <= to ELSE to <= next /\ next <= now
<1> DEFINE n == from * (total - elapsed) + to * elapsed
           m == from * (total - (elapsed + 1)) + to * (elapsed + 1)
           end == to * total
<1>1. from \in Nat /\ to \in Nat
  BY DEF Levels
<1>2. m = n + (to - from)
  <2>1. from * (total - (elapsed + 1)) = from * (total - elapsed) - from
    BY <1>1
  <2>2. to * (elapsed + 1) = to * elapsed + to
    BY <1>1
  <2>3. from * (total - elapsed) \in Int /\ to * elapsed \in Int
    BY <1>1
  <2> QED
    BY <1>1, <2>1, <2>2, <2>3
<1>3. end = to * (total - (elapsed + 1)) + to * (elapsed + 1)
  BY <1>1
<1>4. total - elapsed \in Nat /\ total - (elapsed + 1) \in Nat
  OBVIOUS
<1>5. n \in Nat /\ m \in Nat
  <2>1. from * (total - elapsed) \in Nat /\ to * elapsed \in Nat
    BY <1>1, <1>4
  <2>2. from * (total - (elapsed + 1)) \in Nat /\ to * (elapsed + 1) \in Nat
    BY <1>1, <1>4
  <2> QED
    BY <2>1, <2>2
<1>6. end \in Nat /\ RoundDiv(end, total) = to
  BY <1>1, RoundDivExact
<1>7. from <= to => m <= end
  <2> HAVE from <= to
  <2>1. from * (total - (elapsed + 1)) <= to * (total - (elapsed + 1))
    BY <1>1, <1>4
  <2>2. /\ from * (total - (elapsed + 1)) \in Int /\ to * (total - (elapsed + 1)) \in Int
        /\ to * (elapsed + 1) \in Int
    BY <1>1, <1>4
  <2> QED
    BY <1>3, <2>1, <2>2
<1>8. to <= from => end <= m
  <2> HAVE to <= from
  <2>1. to * (total - (elapsed + 1)) <= from * (total - (elapsed + 1))
    BY <1>1, <1>4
  <2>2. /\ from * (total - (elapsed + 1)) \in Int /\ to * (total - (elapsed + 1)) \in Int
        /\ to * (elapsed + 1) \in Int
    BY <1>1, <1>4
  <2> QED
    BY <1>3, <2>1, <2>2
<1>9. /\ Interpolate(from, to, elapsed, total) = RoundDiv(n, total)
      /\ Interpolate(from, to, elapsed + 1, total) = RoundDiv(m, total)
  BY DEF Interpolate
<1> HIDE DEF n, m, end
<1>10. CASE from <= to
  <2>1. n <= m /\ m <= end
    BY <1>1, <1>2, <1>5, <1>7, <1>10
  <2>2. RoundDiv(n, total) <= RoundDiv(m, total) /\ RoundDiv(m, total) <= to
    BY <1>5, <1>6, <2>1, RoundDivMonotone
  <2> QED
    BY <1>9, <1>10, <2>2
<1>11. CASE ~(from <= to)
  <2>1. m <= n /\ end <= m
    BY <1>1, <1>2, <1>5, <1>8, <1>11
  <2>2. RoundDiv(m, total) <= RoundDiv(n, total) /\ to <= RoundDiv(m, total)
    BY <1>5, <1>6, <2>1, RoundDivMonotone
  <2> QED
    BY <1>9, <1>11, <2>2
<1> QED
  BY <1>10, <1>11

\* A fade begins at the level the light shows.
LEMMA SetLevelStarts ==
    ASSUME MaxArc \in Nat, NEW x \in GearType, NEW v \in Int,
           NEW duration \in Nat, NEW origin \in Wires
    PROVE  LET y == SetLevel(x, v, duration, origin)
           IN  Fading(y) => Visible(y) = Visible(x)
<1> DEFINE to == ClampLevel(v)
           from == Visible(x)
           fades == duration > 0
           active == IF to > 0 THEN to ELSE x.lastActive
           fade == IF fades THEN FadeTo(from, to, origin, duration) ELSE NoFade
           lamp == (IF fades THEN from ELSE to) > 0
           y == [x EXCEPT !.level = to, !.lastActive = active, !.sceneCurrent = FALSE,
                          !.fade = fade, !.fadeBit = fades, !.lampOn = lamp]
<1>1. SetLevel(x, v, duration, origin) = y
  BY DEF SetLevel
<1>2. from \in Nat /\ to \in Nat
  BY VisibleType, ClampType DEF Levels
<1> HIDE DEF to, from, active, lamp, fade, fades
<1>3. y.fade = fade
  BY DEF GearType
<1> HIDE DEF y
<1>4. CASE duration = 0
  <2>1. y.fade = NoFade
    BY <1>3, <1>4 DEF fade, fades
  <2> QED
    BY <1>1, <2>1, RestShow
<1>5. CASE duration > 0
  <2>1. y.fade = FadeTo(from, to, origin, duration)
    BY <1>3, <1>5 DEF fade, fades
  <2>2. /\ y.fade.total = duration /\ y.fade.elapsed = 0
        /\ y.fade.from = from /\ y.fade.to = to
    BY <2>1 DEF FadeTo
  <2>3. Visible(y) = Interpolate(from, to, 0, duration)
    BY <1>5, <2>2 DEF Visible, Fading, Due
  <2>4. from * (duration - 0) + to * 0 = from * duration
    BY <1>2
  <2>5. RoundDiv(from * duration, duration) = from
    BY <1>2, <1>5, RoundDivExact
  <2>6. Interpolate(from, to, 0, duration) = from
    BY <2>4, <2>5 DEF Interpolate
  <2> QED
    BY <1>1, <2>3, <2>6 DEF from
<1> QED
  BY <1>4, <1>5

\* The same for a scene, whether it starts a fade or leaves one running.
LEMMA RecallSceneStarts ==
    ASSUME LevelAssumption, SceneAssumption, MaxArc \in Nat,
           NEW l \in Lights, NEW x \in GearType, Coherent(x), NEW s \in Scenes,
           NEW duration \in Nat, NEW origin \in Wires
    PROVE  LET y == RecallScene(l, x, s, duration, origin)
           IN  Fading(y) => Visible(y) = Visible(x)
<1> DEFINE x1 == ExpireFade(x)
           z == IF SceneLevel[l][s] = NoLevel THEN x1
                ELSE SetLevel(x1, SceneLevel[l][s], duration, origin)
           k == IF SceneColour[l][s] = NoColour THEN z.colour ELSE SceneColour[l][s]
           y == [z EXCEPT !.lastScene = s, !.sceneCurrent = TRUE, !.colour = k]
<1>1. RecallScene(l, x, s, duration, origin) = y
  BY DEF RecallScene
<1>2. Seen(x, x1) /\ x1 \in GearType
  BY ExpireFadeSeen DEF Seen
<1> HIDE DEF x1
<1>3. z \in GearType /\ (Fading(z) => Visible(z) = Visible(x))
  <2>1. CASE SceneLevel[l][s] = NoLevel
    BY <1>2, <2>1 DEF Seen
  <2>2. CASE SceneLevel[l][s] # NoLevel
    <3>1. SceneLevel[l][s] \in Int
      BY <2>2 DEF SceneAssumption, Levels
    <3> QED
      BY <1>2, <2>2, <3>1, SetLevelStarts, SetLevelType DEF Seen
  <2> QED
    BY <2>1, <2>2
<1> HIDE DEF z, k
<1>4. y.level = z.level /\ y.fade = z.fade
  BY <1>3 DEF GearType
<1> HIDE DEF y
<1> QED
  BY <1>1, <1>3, <1>4, SameShow

\* A period of a fade takes what is seen of the light towards the target.
LEMMA AdvanceSeen ==
    ASSUME MaxArc \in Nat, NEW x \in GearType, Coherent(x)
    PROVE  /\ Coherent(Advance(x))
           /\ Destination(Advance(x)) = Destination(x)
           /\ Advance(x).level = x.level
           /\ Fading(Advance(x)) <=> Fading(x)
           /\ \/ Visible(x) <= Visible(Advance(x)) /\ Visible(Advance(x)) <= Destination(x)
              \/ Destination(x) <= Visible(Advance(x)) /\ Visible(Advance(x)) <= Visible(x)
<1> DEFINE e == x.fade.elapsed + 1
           fade == [x.fade EXCEPT !.elapsed = e]
           y == [x EXCEPT !.fade = fade]
<1>1. /\ x.fade \in FadeType
      /\ x.fade.from \in Levels /\ x.fade.to \in Levels
      /\ x.fade.total \in Nat /\ x.fade.elapsed \in Nat
  BY DEF GearType, FadeType
<1>2. Visible(x) \in Int /\ Destination(x) \in Int
  BY VisibleType DEF Levels
<1>3. CASE Fading(x) /\ ~Due(x)
  <2>1. Advance(x) = y
    BY <1>3 DEF Advance
  <2>2. /\ fade.from = x.fade.from /\ fade.to = x.fade.to
        /\ fade.total = x.fade.total /\ fade.elapsed = e
    BY <1>1 DEF FadeType
  <2>3. y.level = x.level /\ y.fade = fade /\ y.fadeBit = x.fadeBit
    BY DEF GearType
  <2>4. y \in GearType
    BY <2>1, AdvanceType
  <2>5. e \in Nat /\ e <= x.fade.total /\ x.fade.total \in Nat \ {0} /\ x.fade.elapsed < x.fade.total
    BY <1>1, <1>3 DEF Due, Fading
  <2>6. e = x.fade.elapsed + 1
    OBVIOUS
  <2> HIDE DEF y, fade, e
  <2>7. Fading(y) /\ Destination(y) = Destination(x) /\ Destination(x) = x.fade.to
    BY <1>3, <2>2, <2>3 DEF Fading, Destination
  <2>8. Coherent(y)
    BY <1>3, <2>2, <2>3, <2>5, <2>7 DEF Coherent
  <2>9. Visible(x) = Interpolate(x.fade.from, x.fade.to, x.fade.elapsed, x.fade.total)
    BY <1>3 DEF Visible
  <2>10. CASE e = x.fade.total
    <3>1. Due(y)
      BY <2>2, <2>3, <2>5, <2>7, <2>10 DEF Due
    <3>2. Visible(y) = x.fade.to
      BY <2>2, <2>3, <2>7, <3>1 DEF Visible
    <3> QED
      BY <1>1, <1>2, <1>3, <2>1, <2>3, <2>7, <2>8, <3>2
  <2>11. CASE e # x.fade.total
    <3>1. ~Due(y)
      BY <1>1, <2>2, <2>3, <2>5, <2>11 DEF Due
    <3>2. Visible(y) = Interpolate(x.fade.from, x.fade.to, e, x.fade.total)
      BY <2>2, <2>3, <2>7, <3>1 DEF Visible
    <3>3. IF x.fade.from <= x.fade.to
          THEN Visible(x) <= Visible(y) /\ Visible(y) <= x.fade.to
          ELSE x.fade.to <= Visible(y) /\ Visible(y) <= Visible(x)
      BY <1>1, <2>5, <2>6, <2>9, <3>2, InterpolateTowards
    <3> QED
      BY <1>3, <2>1, <2>3, <2>7, <2>8, <3>3
  <2> QED
    BY <2>10, <2>11
<1>4. CASE ~(Fading(x) /\ ~Due(x))
  <2>1. Advance(x) = x
    BY <1>4 DEF Advance
  <2>2. Visible(x) = Destination(x)
    BY <1>4 DEF Visible, Destination
  <2> QED
    BY <1>2, <2>1, <2>2
<1> QED
  BY <1>3, <1>4

-----------------------------------------------------------------------------
(* All lights and groups                                                     *)

LightsType == [Lights -> GearType]
GroupsType == [Groups -> GroupType]

\* GroupSceneAgrees for any value of the two functions.
SceneAgrees(L, G) ==
    \A g \in Groups : G[g].sceneCurrent =>
        \A m \in Members[g] : /\ L[m].sceneCurrent
                              /\ L[m].lastScene = G[g].lastScene

\* L1 has the scenes of L on the lights of S.
SameScenes(L, L1, S) ==
    \A l \in S : /\ L1[l].sceneCurrent = L[l].sceneCurrent
                 /\ L1[l].lastScene = L[l].lastScene

-----------------------------------------------------------------------------
(* Wires *)

LEMMA WiresType ==
    ASSUME NEW w \in Wires
    PROVE  /\ Targets[w] \subseteq Lights
           /\ Addressed[w] \subseteq Groups
           /\ Siblings[w] \subseteq Groups
BY DEF Targets, Addressed, Siblings, Members, Wires

LEMMA MembersType == ASSUME NEW g \in Groups PROVE Members[g] \subseteq Lights
BY DEF Members

\* A group that a command neither addresses nor finds as a sibling has no
\* member among the lights the command reaches.
LEMMA OutOfReach ==
    ASSUME NEW w \in Wires, NEW g \in Groups, g \notin Addressed[w], g \notin Siblings[w]
    PROVE  Members[g] \cap Targets[w] = {}
<1>1. CASE w = Broadcast
  BY <1>1 DEF Addressed, Wires
<1>2. CASE w # Broadcast
  <2>1. g # w
    BY <1>2 DEF Addressed
  <2>2. \A l \in Targets[w] : g \notin MemberOf[l]
    BY <1>2, <2>1 DEF Siblings
  <2> QED
    BY <2>2 DEF Members
<1> QED
  BY <1>1, <1>2

-----------------------------------------------------------------------------
(* Group levels *)

LEMMA GroupLevelType ==
    ASSUME MaxArc \in Nat, NEW L \in LightsType, NEW G \in GroupsType, NEW g \in Groups
    PROVE  /\ GroupLevel(L, G, g) \in Levels \cup {Mixed}
           /\ EventPrev(L, G, g) \in Levels \cup {Mixed}
           /\ SyncedLevel(L, G, g) \in Levels \cup {Mixed}
<1>1. G[g].level \in Levels \cup {Mixed}
  BY DEF GroupsType, GroupType
<1>2. GroupLevel(L, G, g) \in Levels \cup {Mixed}
  <2>1. CASE Members[g] = {}
    BY <1>1, <2>1 DEF GroupLevel
  <2>2. CASE Members[g] # {}
    <3> DEFINE m == CHOOSE m \in Members[g] : TRUE
    <3>1. m \in Members[g]
      BY <2>2
    <3>2. m \in Lights
      BY <3>1, MembersType
    <3>3. L[m] \in GearType
      BY <3>2 DEF LightsType
    <3>4. Visible(L[m]) \in Levels
      BY <3>3, VisibleType
    <3>5. GroupLevel(L, G, g) \in {Visible(L[m]), Mixed}
      BY <2>2 DEF GroupLevel, Agree
    <3> QED
      BY <3>4, <3>5
  <2> QED
    BY <2>1, <2>2
<1>3. EventPrev(L, G, g) \in Levels \cup {Mixed}
  BY <1>1, <1>2 DEF EventPrev
<1> QED
  BY <1>2, <1>3 DEF SyncedLevel

LEMMA ExpiredType ==
    ASSUME MaxArc \in Nat, NEW L \in LightsType, NEW gs
    PROVE  /\ Expired(L, gs) \in LightsType
           /\ SameScenes(L, Expired(L, gs), Lights)
<1>1. ASSUME NEW l \in Lights
      PROVE  /\ Expired(L, gs)[l] \in GearType
             /\ Expired(L, gs)[l].sceneCurrent = L[l].sceneCurrent
             /\ Expired(L, gs)[l].lastScene = L[l].lastScene
  <2>1. L[l] \in GearType
    BY DEF LightsType
  <2>2. Expired(L, gs)[l] = L[l] \/ Expired(L, gs)[l] = ExpireFade(L[l])
    BY DEF Expired
  <2> QED
    BY <2>1, <2>2, ExpireFadeType
<1>2. Expired(L, gs) = [l \in Lights |-> Expired(L, gs)[l]]
  BY DEF Expired
<1> QED
  BY <1>1, <1>2 DEF LightsType, SameScenes

LEMMA InvalidatedType ==
    ASSUME MaxArc \in Nat, NEW w \in Wires, NEW L \in LightsType, NEW G \in GroupsType
    PROVE  /\ Invalidated(L, G, w) \in GroupsType
           /\ \A g \in Siblings[w] : ~Invalidated(L, G, w)[g].sceneCurrent
           /\ \A g \in Groups \ Siblings[w] : Invalidated(L, G, w)[g] = G[g]
<1>1. ASSUME NEW g \in Groups
      PROVE  /\ Invalidated(L, G, w)[g] \in GroupType
             /\ g \in Siblings[w] => ~Invalidated(L, G, w)[g].sceneCurrent
             /\ g \notin Siblings[w] => Invalidated(L, G, w)[g] = G[g]
  <2> DEFINE level == SyncedLevel(L, G, g)
  <2>1. G[g] \in GroupType /\ level \in Levels \cup {Mixed}
    BY GroupLevelType DEF GroupsType
  <2>2. Invalidated(L, G, w)[g] = IF g \in Siblings[w]
                                  THEN [G[g] EXCEPT !.level = level, !.sceneCurrent = FALSE]
                                  ELSE G[g]
    BY DEF Invalidated
  <2> HIDE DEF level
  <2> QED
    BY <2>1, <2>2 DEF GroupType
<1>2. Invalidated(L, G, w) = [g \in Groups |-> Invalidated(L, G, w)[g]]
  BY DEF Invalidated
<1> QED
  BY <1>1, <1>2, WiresType DEF GroupsType

-----------------------------------------------------------------------------
(* When the scenes of groups still agree with those of lights                *)

\* Nothing set the scene of a light, and at most groups lost theirs.
LEMMA ScenesKept ==
    ASSUME NEW L, NEW L1, NEW G, NEW G1,
           SceneAgrees(L, G), SameScenes(L, L1, Lights),
           \A g \in Groups : G1[g].sceneCurrent =>
               G[g].sceneCurrent /\ G1[g].lastScene = G[g].lastScene
    PROVE  SceneAgrees(L1, G1)
BY MembersType DEF SceneAgrees, SameScenes

\* A command on w set the scenes of its targets; every group that it addressed
\* or invalidated lost its scene or has that of all its members.
LEMMA ScenesCommanded ==
    ASSUME NEW L, NEW L1, NEW G, NEW G1, NEW w \in Wires,
           SceneAgrees(L, G), SameScenes(L, L1, Lights \ Targets[w]),
           \A g \in Addressed[w] \cup Siblings[w] :
               G1[g].sceneCurrent => \A m \in Members[g] :
                   L1[m].sceneCurrent /\ L1[m].lastScene = G1[g].lastScene,
           \A g \in Groups \ (Addressed[w] \cup Siblings[w]) : G1[g] = G[g]
    PROVE  SceneAgrees(L1, G1)
<1> SUFFICES ASSUME NEW g \in Groups, G1[g].sceneCurrent, NEW m \in Members[g]
             PROVE  L1[m].sceneCurrent /\ L1[m].lastScene = G1[g].lastScene
  BY DEF SceneAgrees
<1>1. CASE g \in Addressed[w] \cup Siblings[w]
  BY <1>1
<1>2. CASE g \notin Addressed[w] \cup Siblings[w]
  <2>1. G1[g] = G[g]
    BY <1>2
  <2>2. m \in Lights \ Targets[w]
    BY <1>2, OutOfReach, MembersType
  <2>3. L[m].sceneCurrent /\ L[m].lastScene = G[g].lastScene
    BY <2>1 DEF SceneAgrees
  <2> QED
    BY <2>1, <2>2, <2>3 DEF SameScenes
<1> QED
  BY <1>1, <1>2

-----------------------------------------------------------------------------
(* Commands                                                                  *)

\* What World must be given, and what it gives back.
Sound(L, G) == L \in LightsType /\ G \in GroupsType /\ SceneAgrees(L, G)

\* A command that takes its targets out of their scenes, and the groups it
\* addresses, before it invalidates the sibling groups.
LEMMA ScenesLeft ==
    ASSUME MaxArc \in Nat, NEW w \in Wires, NEW L, NEW G, Sound(L, G),
           NEW L1 \in LightsType, SameScenes(L, L1, Lights \ Targets[w]),
           NEW G1 \in GroupsType,
           \A g \in Addressed[w] : ~G1[g].sceneCurrent,
           \A g \in Groups \ Addressed[w] : G1[g] = G[g],
           NEW gs
    PROVE  Sound(Expired(L1, gs), Invalidated(L1, G1, w))
<1> DEFINE L2 == Expired(L1, gs)
           G2 == Invalidated(L1, G1, w)
<1>1. L2 \in LightsType /\ SameScenes(L1, L2, Lights)
  BY ExpiredType
<1>2. /\ G2 \in GroupsType
      /\ \A g \in Siblings[w] : ~G2[g].sceneCurrent
      /\ \A g \in Groups \ Siblings[w] : G2[g] = G1[g]
  BY InvalidatedType
<1> HIDE DEF L2, G2
<1>3. SameScenes(L, L2, Lights \ Targets[w])
  BY <1>1 DEF SameScenes
<1>4. \A g \in Addressed[w] \cup Siblings[w] : ~G2[g].sceneCurrent
  BY <1>2, WiresType
<1>5. \A g \in Groups \ (Addressed[w] \cup Siblings[w]) : G2[g] = G[g]
  BY <1>2
<1>6. SceneAgrees(L2, G2)
  BY <1>3, <1>4, <1>5, ScenesCommanded DEF Sound
<1> QED
  BY <1>1, <1>2, <1>6 DEF Sound, L2, G2

LEMMA ApplyLevelSound ==
    ASSUME LevelAssumption, NEW w \in Wires, NEW L, NEW G, Sound(L, G),
           NEW v \in Int, NEW duration \in Nat
    PROVE  LET r == ApplyLevel(L, G, w, v, duration) IN Sound(r.light, r.group)
<1> DEFINE L1 == [l \in Lights |-> IF l \in Targets[w] THEN SetLevel(L[l], v, duration, w) ELSE L[l]]
           G1 == [g \in Groups |-> IF g \in Addressed[w]
                                   THEN [G[g] EXCEPT !.level = ClampLevel(v), !.sceneCurrent = FALSE]
                                   ELSE G[g]]
           r == ApplyLevel(L, G, w, v, duration)
<1>1. MaxArc \in Nat
  BY DEF LevelAssumption
<1>2. r.light = Expired(L1, Siblings[w]) /\ r.group = Invalidated(L1, G1, w)
  BY DEF ApplyLevel, Outcome
<1>3. L1 \in LightsType /\ SameScenes(L, L1, Lights \ Targets[w])
  BY <1>1, SetLevelType DEF Sound, LightsType, SameScenes
<1>4. /\ G1 \in GroupsType
      /\ \A g \in Addressed[w] : ~G1[g].sceneCurrent
      /\ \A g \in Groups \ Addressed[w] : G1[g] = G[g]
  <2>1. ClampLevel(v) \in Levels
    BY <1>1, ClampType
  <2> QED
    BY <2>1, WiresType DEF Sound, GroupsType, GroupType
<1> HIDE DEF L1, G1, r
<1>5. Sound(Expired(L1, Siblings[w]), Invalidated(L1, G1, w))
  BY <1>1, <1>3, <1>4, ScenesLeft
<1> QED
  BY <1>2, <1>5 DEF r

LEMMA ApplyPerLightLevelSound ==
    ASSUME LevelAssumption, NEW w \in Wires, NEW L, NEW G, Sound(L, G), NEW choice \in Choices
    PROVE  LET r == ApplyPerLightLevel(L, G, w, choice) IN Sound(r.light, r.group)
<1> DEFINE L1 == [l \in Lights |-> IF l \in Targets[w]
                                   THEN SetLevel(L[l], ChosenLevel(choice, l, L[l]), 0, w)
                                   ELSE L[l]]
           G1 == [g \in Groups |-> IF g \in Addressed[w]
                                   THEN [G[g] EXCEPT !.level = SyncedLevel(L1, G, g), !.sceneCurrent = FALSE]
                                   ELSE G[g]]
           r == ApplyPerLightLevel(L, G, w, choice)
<1>1. MaxArc \in Nat
  BY DEF LevelAssumption
<1>2. r.light = Expired(L1, Addressed[w] \cup Siblings[w]) /\ r.group = Invalidated(L1, G1, w)
  BY DEF ApplyPerLightLevel, Outcome
<1>3. L1 \in LightsType /\ SameScenes(L, L1, Lights \ Targets[w])
  <2>1. \A l \in Lights : L[l] \in GearType /\ ChosenLevel(choice, l, L[l]) \in Int
    BY ChosenLevelType DEF Sound, LightsType
  <2> QED
    BY <1>1, <2>1, SetLevelType DEF LightsType, SameScenes
<1>4. /\ G1 \in GroupsType
      /\ \A g \in Addressed[w] : ~G1[g].sceneCurrent
      /\ \A g \in Groups \ Addressed[w] : G1[g] = G[g]
  <2> HIDE DEF L1
  <2>1. \A g \in Groups : SyncedLevel(L1, G, g) \in Levels \cup {Mixed}
    BY <1>1, <1>3, GroupLevelType DEF Sound
  <2> QED
    BY <2>1, WiresType DEF Sound, GroupsType, GroupType
<1> HIDE DEF L1, G1, r
<1>5. Sound(Expired(L1, Addressed[w] \cup Siblings[w]), Invalidated(L1, G1, w))
  BY <1>1, <1>3, <1>4, ScenesLeft
<1> QED
  BY <1>2, <1>5 DEF r

LEMMA ApplyColourSound ==
    ASSUME LevelAssumption, NEW w \in Wires, NEW L, NEW G, Sound(L, G), NEW c \in Colours
    PROVE  LET r == ApplyColour(L, G, w, c) IN Sound(r.light, r.group)
<1> DEFINE L1 == [l \in Lights |-> IF l \in Targets[w] THEN SetColour(L[l], c) ELSE L[l]]
           G1 == [g \in Groups |-> IF g \in Addressed[w]
                                   THEN [G[g] EXCEPT !.sceneCurrent = FALSE] ELSE G[g]]
           r == ApplyColour(L, G, w, c)
<1>1. MaxArc \in Nat
  BY DEF LevelAssumption
<1>2. r.light = Expired(L1, Siblings[w]) /\ r.group = Invalidated(L1, G1, w)
  BY DEF ApplyColour, Outcome
<1>3. L1 \in LightsType /\ SameScenes(L, L1, Lights \ Targets[w])
  BY SetColourType DEF Sound, LightsType, SameScenes
<1>4. /\ G1 \in GroupsType
      /\ \A g \in Addressed[w] : ~G1[g].sceneCurrent
      /\ \A g \in Groups \ Addressed[w] : G1[g] = G[g]
  BY WiresType DEF Sound, GroupsType, GroupType
<1> HIDE DEF L1, G1, r
<1>5. Sound(Expired(L1, Siblings[w]), Invalidated(L1, G1, w))
  BY <1>1, <1>3, <1>4, ScenesLeft
<1> QED
  BY <1>2, <1>5 DEF r

\* A broadcast has no sibling groups and a group is none of its own: a scene
\* recall invalidates no group it has just put into the scene.
LEMMA ApplySceneSound ==
    ASSUME LevelAssumption, SceneAssumption, NEW w \in Wires, NEW L, NEW G, Sound(L, G),
           NEW s \in Scenes, NEW duration \in Nat
    PROVE  LET r == ApplyScene(L, G, w, s, duration) IN Sound(r.light, r.group)
<1> DEFINE L1 == [l \in Lights |-> IF l \in Targets[w] THEN RecallScene(l, L[l], s, duration, w) ELSE L[l]]
           G1 == [g \in Groups |-> IF g \in Addressed[w]
                                   THEN [level |-> SyncedLevel(L1, G, g), lastScene |-> s, sceneCurrent |-> TRUE]
                                   ELSE G[g]]
           r == ApplyScene(L, G, w, s, duration)
           L2 == Expired(L1, Addressed[w] \cup Siblings[w])
           G2 == Invalidated(L1, G1, w)
<1>1. MaxArc \in Nat
  BY DEF LevelAssumption
<1>2. r.light = L2 /\ r.group = G2
  BY DEF ApplyScene, Outcome
<1>3. /\ L1 \in LightsType
      /\ SameScenes(L, L1, Lights \ Targets[w])
      /\ \A l \in Targets[w] : L1[l].sceneCurrent /\ L1[l].lastScene = s
  <2>1. ASSUME NEW l \in Lights
        PROVE  /\ RecallScene(l, L[l], s, duration, w) \in GearType
               /\ RecallScene(l, L[l], s, duration, w).sceneCurrent
               /\ RecallScene(l, L[l], s, duration, w).lastScene = s
    <3>1. L[l] \in GearType
      BY DEF Sound, LightsType
    <3> QED
      BY <1>1, <3>1, RecallSceneType
  <2> QED
    BY <2>1, WiresType DEF Sound, LightsType, SameScenes
<1> HIDE DEF L1, r
<1>4. /\ G1 \in GroupsType
      /\ \A g \in Addressed[w] : G1[g].lastScene = s
      /\ \A g \in Groups \ Addressed[w] : G1[g] = G[g]
  <2>1. \A g \in Groups : SyncedLevel(L1, G, g) \in Levels \cup {Mixed}
    BY <1>1, <1>3, GroupLevelType DEF Sound
  <2> QED
    BY <2>1, WiresType DEF Sound, GroupsType, GroupType
<1> HIDE DEF G1
<1>5. L2 \in LightsType /\ SameScenes(L1, L2, Lights)
  BY <1>1, <1>3, ExpiredType
<1>6. /\ G2 \in GroupsType
      /\ \A g \in Siblings[w] : ~G2[g].sceneCurrent
      /\ \A g \in Groups \ Siblings[w] : G2[g] = G1[g]
  BY <1>1, <1>3, <1>4, InvalidatedType
<1> HIDE DEF L2, G2
<1>7. SameScenes(L, L2, Lights \ Targets[w])
  BY <1>3, <1>5 DEF SameScenes
<1>8. ASSUME NEW g \in Addressed[w] \cup Siblings[w], G2[g].sceneCurrent, NEW m \in Members[g]
      PROVE  L2[m].sceneCurrent /\ L2[m].lastScene = G2[g].lastScene
  <2>1. g \in Addressed[w] /\ g \in Groups /\ G2[g] = G1[g]
    BY <1>6, <1>8, WiresType
  <2>2. m \in Targets[w] /\ m \in Lights
    <3>1. w = Broadcast \/ w = g
      BY <2>1 DEF Addressed
    <3> QED
      BY <2>1, <3>1, MembersType DEF Targets
  <2> QED
    BY <1>3, <1>4, <1>5, <2>1, <2>2 DEF SameScenes
<1>9. \A g \in Groups \ (Addressed[w] \cup Siblings[w]) : G2[g] = G[g]
  BY <1>4, <1>6
<1>10. SceneAgrees(L2, G2)
  BY <1>7, <1>8, <1>9, ScenesCommanded DEF Sound
<1> QED
  BY <1>2, <1>5, <1>6, <1>10 DEF Sound, r

-----------------------------------------------------------------------------
(* What sets no scene: STOP_FADE, the progress loop, queries and time        *)

LEMMA SceneUnset ==
    ASSUME NEW L, NEW G, Sound(L, G),
           NEW L1 \in LightsType, SameScenes(L, L1, Lights),
           NEW G1 \in GroupsType,
           \A g \in Groups : /\ G1[g].sceneCurrent => G[g].sceneCurrent
                             /\ G1[g].lastScene = G[g].lastScene
    PROVE  Sound(L1, G1)
<1>1. SceneAgrees(L1, G1)
  BY ScenesKept DEF Sound
<1> QED
  BY <1>1 DEF Sound

LEMMA StopFadeSound ==
    ASSUME LevelAssumption, NEW w \in Wires, NEW L, NEW G, Sound(L, G)
    PROVE  LET r == StopFadeOn(L, G, w) IN Sound(r.light, r.group)
<1> DEFINE stopped == {l \in Targets[w] : StartedOn(L[l], w)}
           L1 == [l \in Lights |-> IF l \in stopped THEN Freeze(L[l]) ELSE L[l]]
           touched == IF w = Broadcast THEN Groups
                      ELSE IF stopped = {} THEN {}
                      ELSE IF w \in Groups THEN {w} ELSE Siblings[w]
           agreed == {g \in touched : GroupLevel(L1, G, g) # Mixed}
           cleared == IF w \in Lights THEN touched
                      ELSE IF w \in Groups THEN touched \ agreed ELSE {}
           G1 == [g \in Groups |-> IF g \in touched
                                   THEN [G[g] EXCEPT !.level = SyncedLevel(L1, G, g),
                                                     !.sceneCurrent = @ /\ g \notin cleared]
                                   ELSE G[g]]
           r == StopFadeOn(L, G, w)
<1>1. MaxArc \in Nat
  BY DEF LevelAssumption
<1>2. r.light = Expired(L1, touched) /\ r.group = G1
  BY DEF StopFadeOn, Outcome
<1> HIDE DEF stopped, touched, r
<1>3. L1 \in LightsType /\ SameScenes(L, L1, Lights)
  BY <1>1, FreezeType DEF Sound, LightsType, SameScenes
<1> HIDE DEF L1, cleared
<1>4. /\ G1 \in GroupsType
      /\ \A g \in Groups : /\ G1[g].sceneCurrent => G[g].sceneCurrent
                           /\ G1[g].lastScene = G[g].lastScene
  <2>1. ASSUME NEW g \in Groups
        PROVE  /\ G1[g] \in GroupType
               /\ G1[g].sceneCurrent => G[g].sceneCurrent
               /\ G1[g].lastScene = G[g].lastScene
    <3> DEFINE level == SyncedLevel(L1, G, g)
               flag == G[g].sceneCurrent /\ g \notin cleared
    <3>1. level \in Levels \cup {Mixed} /\ G[g] \in GroupType
      BY <1>1, <1>3, GroupLevelType DEF Sound, GroupsType
    <3>2. flag \in BOOLEAN /\ (flag => G[g].sceneCurrent)
      BY <3>1 DEF GroupType
    <3>3. G1[g] = IF g \in touched THEN [G[g] EXCEPT !.level = level, !.sceneCurrent = flag] ELSE G[g]
      OBVIOUS
    <3> HIDE DEF G1, level, flag
    <3> QED
      BY <3>1, <3>2, <3>3 DEF GroupType
  <2>2. G1 = [g \in Groups |-> G1[g]]
    OBVIOUS
  <2> HIDE DEF G1
  <2> QED
    BY <2>1, <2>2 DEF GroupsType
<1> HIDE DEF G1
<1>5. /\ Expired(L1, touched) \in LightsType
      /\ SameScenes(L, Expired(L1, touched), Lights)
  BY <1>1, <1>3, ExpiredType DEF SameScenes
<1>6. Sound(Expired(L1, touched), G1)
  BY <1>4, <1>5, SceneUnset
<1> QED
  BY <1>2, <1>6 DEF r

LEMMA FadeProgressSound ==
    ASSUME LevelAssumption, NEW L, NEW G, Sound(L, G)
    PROVE  LET r == FadeProgress(L, G) IN Sound(r.light, r.group)
<1> DEFINE pending == {l \in Lights : Reportable(L[l])}
           L1 == [l \in Lights |-> IF l \in pending THEN ExpireFade(L[l]) ELSE L[l]]
           pool(g, origin) == {l \in pending \cap Members[g] : L[l].fade.origin = origin}
           report(l) == [cur |-> Visible(L1[l]), to |-> Destination(L1[l])]
           agreed(g, origin) == pool(g, origin) # {} /\ Agree(pool(g, origin), report)
           what(g, origin) == report(CHOOSE l \in pool(g, origin) : TRUE)
           complete(g, origin) == agreed(g, origin) /\ what(g, origin).cur = what(g, origin).to
           G1 == [g \in Groups |->
                    IF complete(g, Broadcast) THEN [G[g] EXCEPT !.level = what(g, Broadcast).to]
                    ELSE IF complete(g, g) THEN [G[g] EXCEPT !.level = what(g, g).to]
                    ELSE G[g]]
           r == FadeProgress(L, G)
<1>1. MaxArc \in Nat
  BY DEF LevelAssumption
<1>2. r.light = L1 /\ r.group = G1
  BY DEF FadeProgress, Outcome
<1> HIDE DEF r
<1>3. L1 \in LightsType /\ SameScenes(L, L1, Lights)
  BY <1>1, ExpireFadeType DEF Sound, LightsType, SameScenes
<1> HIDE DEF L1
<1>4. ASSUME NEW g \in Groups, NEW origin, complete(g, origin)
      PROVE  what(g, origin).to \in Levels
  <2> DEFINE l == CHOOSE l \in pool(g, origin) : TRUE
  <2>1. l \in pool(g, origin)
    BY <1>4
  <2>2. L1[l] \in GearType
    BY <2>1, <1>3, MembersType DEF LightsType
  <2>3. Destination(L1[l]) \in Levels
    BY <1>1, <2>2, VisibleType
  <2> QED
    BY <2>3
<1> HIDE DEF pool, report, agreed, what, complete
<1>5. /\ G1 \in GroupsType
      /\ \A g \in Groups : /\ G1[g].sceneCurrent = G[g].sceneCurrent
                           /\ G1[g].lastScene = G[g].lastScene
  BY <1>4 DEF Sound, GroupsType, GroupType
<1> HIDE DEF G1
<1>6. Sound(L1, G1)
  BY <1>3, <1>5, SceneUnset
<1> QED
  BY <1>2, <1>6 DEF r

\* A query changes no group, and of a light only its fade and its status.
LEMMA AnsweredSound ==
    ASSUME LevelAssumption, NEW L, NEW G, Sound(L, G), NEW S,
           NEW A, A = [l \in Lights |-> IF l \in S THEN ExpireFade(L[l]) ELSE L[l]]
    PROVE  Sound(A, G)
<1>1. MaxArc \in Nat
  BY DEF LevelAssumption
<1>2. A \in LightsType /\ SameScenes(L, A, Lights)
  BY <1>1, ExpireFadeType DEF Sound, LightsType, SameScenes
<1> QED
  BY <1>2, SceneUnset DEF Sound

LEMMA RefreshedSound ==
    ASSUME LevelAssumption, NEW L, NEW G, Sound(L, G), NEW S,
           NEW A, A = [l \in Lights |-> IF l \in S THEN RefreshStatus(L[l]) ELSE L[l]]
    PROVE  Sound(A, G)
<1>1. MaxArc \in Nat
  BY DEF LevelAssumption
<1>2. A \in LightsType /\ SameScenes(L, A, Lights)
  BY <1>1, RefreshStatusType DEF Sound, LightsType, SameScenes
<1> QED
  BY <1>2, SceneUnset DEF Sound

-----------------------------------------------------------------------------
(* The invariant                                                             *)

IInv == Sound(light, group) /\ ticked \in BOOLEAN

LEMMA InvMeaning == IInv <=> TypeOK /\ GroupSceneAgrees
BY DEF IInv, Sound, LightsType, GroupsType, SceneAgrees, TypeOK, GroupSceneAgrees

LEMMA InitInv == Init => IInv
<1> SUFFICES ASSUME Init PROVE IInv
  OBVIOUS
<1>1. MaxArc \in Nat \ {0}
  BY LevelAssumption DEF LevelAssumption
<1>2. LoadedLight \subseteq GearType
  <2> SUFFICES ASSUME NEW v \in StartLevels, NEW r \in StartActive, NEW s \in Scenes,
                      NEW c \in BOOLEAN, NEW k \in Colours \cup {NoColour}
               PROVE  [level |-> v, lastActive |-> IF v > 0 THEN v ELSE r,
                       lastScene |-> s, sceneCurrent |-> c, colour |-> k,
                       lampOn |-> v > 0, fadeBit |-> FALSE, fade |-> NoFade] \in GearType
    BY DEF LoadedLight
  <2> DEFINE active == IF v > 0 THEN v ELSE r
             lamp == v > 0
  <2>1. v \in Levels /\ v \in Int /\ r \in 1 .. MaxArc
    BY InputAssumption DEF InputAssumption, Levels
  <2>2. active \in 1 .. MaxArc /\ lamp \in BOOLEAN
    BY <1>1, <2>1 DEF Levels
  <2>3. NoFade \in FadeType
    BY <1>1, NoFadeType
  <2> HIDE DEF active, lamp
  <2>4. [level |-> v, lastActive |-> active, lastScene |-> s, sceneCurrent |-> c,
         colour |-> k, lampOn |-> lamp, fadeBit |-> FALSE, fade |-> NoFade] \in GearType
    BY <2>1, <2>2, <2>3 DEF GearType
  <2> QED
    BY <2>4 DEF active, lamp
<1>3. LoadedGroup \subseteq GroupType /\ \A x \in LoadedGroup : ~x.sceneCurrent
  <2> SUFFICES ASSUME NEW v \in StartGroupLevels, NEW s \in {CHOOSE s \in Scenes : TRUE}
               PROVE  [level |-> v, lastScene |-> s, sceneCurrent |-> FALSE] \in GroupType
    BY DEF LoadedGroup
  <2> QED
    BY InputAssumption, SceneAssumption DEF InputAssumption, SceneAssumption, GroupType
<1>4. light \in LightsType /\ group \in GroupsType
  BY <1>2, <1>3 DEF Init, LightsType, GroupsType
<1>5. SceneAgrees(light, group)
  BY <1>3 DEF Init, SceneAgrees
<1> QED
  BY <1>4, <1>5 DEF Init, IInv, Sound

LEMMA CommitInv ==
    ASSUME NEW outcome, NEW kind, NEW w, IInv, Commit(outcome, kind, w),
           Sound(outcome.light, outcome.group)
    PROVE  IInv'
BY DEF Commit, IInv

LEMMA NextInv == IInv /\ [Next]_vars => IInv'
<1> SUFFICES ASSUME IInv, [Next]_vars PROVE IInv'
  OBVIOUS
<1> USE LevelAssumption, SceneAssumption, InputAssumption
<1>0. /\ Sound(light, group)
      /\ ArcLevels \subseteq Int
      /\ Mixed \in Int
  BY DEF IInv, InputAssumption, LevelAssumption, Levels, Mixed
<1>1. ASSUME NEW w \in Wires, NEW v \in ArcLevels, SetArcLevel(w, v) PROVE IInv'
  <2>1. LET r == ApplyLevel(light, group, w, v, 0) IN Sound(r.light, r.group)
    BY <1>0, ApplyLevelSound
  <2> QED
    BY <1>1, <2>1, CommitInv DEF SetArcLevel
<1>2. ASSUME NEW w \in Wires, NEW v \in ArcLevels, NEW d \in Durations, CustomFade(w, v, d) PROVE IInv'
  <2>1. LET r == ApplyLevel(light, group, w, v, d) IN Sound(r.light, r.group)
    BY <1>0, ApplyLevelSound DEF InputAssumption
  <2> QED
    BY <1>2, <2>1, CommitInv DEF CustomFade
<1>3. ASSUME NEW w \in Wires, NEW choice \in Relatives, Relative(w, choice) PROVE IInv'
  <2>1. LET r == ApplyPerLightLevel(light, group, w, choice) IN Sound(r.light, r.group)
    BY <1>0, ApplyPerLightLevelSound DEF InputAssumption
  <2> QED
    BY <1>3, <2>1, CommitInv DEF Relative
<1>4. ASSUME NEW w \in Wires, NEW s \in Scenes, RecallSceneOn(w, s) PROVE IInv'
  <2>1. LET r == ApplyScene(light, group, w, s, SceneFade) IN Sound(r.light, r.group)
    BY <1>0, ApplySceneSound DEF InputAssumption
  <2> QED
    BY <1>4, <2>1, CommitInv DEF RecallSceneOn
<1>5. ASSUME NEW w \in Wires, NEW c \in Colours, NEW v \in ArcLevels \cup {Mixed}, DaliColour(w, c, v)
      PROVE  IInv'
  <2> DEFINE first == ApplyColour(light, group, w, c)
             second == ApplyLevel(first.light, first.group, w, v, 0)
             both == [second EXCEPT !.events.colour = first.events.colour]
  <2>1. Sound(first.light, first.group)
    BY <1>0, ApplyColourSound
  <2>2. Sound(second.light, second.group)
    BY <1>0, <2>1, ApplyLevelSound
  <2>3. both.light = second.light /\ both.group = second.group
    BY DEF ApplyLevel, Outcome
  <2>4. Commit(first, "colour", w) \/ Commit(both, "colour", w)
    BY <1>5 DEF DaliColour
  <2> HIDE DEF first, second, both
  <2> QED
    BY <2>1, <2>2, <2>3, <2>4, CommitInv
<1>6. ASSUME NEW w \in Wires, StopFade(w) PROVE IInv'
  <2>1. LET r == StopFadeOn(light, group, w) IN Sound(r.light, r.group)
    BY <1>0, StopFadeSound
  <2> QED
    BY <1>6, <2>1, CommitInv DEF StopFade
<1>7. ASSUME NEW L, NEW w, Answered(L, w), Sound(L, group) PROVE IInv'
  BY <1>7, CommitInv DEF Answered, Outcome
<1>8. ASSUME NEW w \in Wires, QueryLevel(w) PROVE IInv'
  <2> DEFINE A == [l \in Lights |-> IF l \in Targets[w] THEN ExpireFade(light[l]) ELSE light[l]]
  <2>1. Sound(A, group)
    BY <1>0, AnsweredSound
  <2> QED
    BY <1>7, <1>8, <2>1 DEF QueryLevel
<1>9. ASSUME NEW w \in Wires, QueryStatus(w) PROVE IInv'
  <2> DEFINE A == [l \in Lights |-> IF l \in Targets[w] THEN RefreshStatus(light[l]) ELSE light[l]]
  <2>1. Sound(A, group)
    BY <1>0, RefreshedSound
  <2> QED
    BY <1>7, <1>9, <2>1 DEF QueryStatus
<1>10. ASSUME NEW w \in Wires, QueryGroupStatus(w) PROVE IInv'
  <2> DEFINE L == Expired(light, {w})
  <2>1. L \in LightsType /\ Sound(L, group)
    <3>1. MaxArc \in Nat
      BY DEF LevelAssumption
    <3>2. L \in LightsType /\ SameScenes(light, L, Lights)
      BY <1>0, <3>1, ExpiredType DEF Sound
    <3> QED
      BY <1>0, <3>2, SceneUnset DEF Sound
  <2>2. ASSUME NEW m \in Members[w] PROVE Sound([L EXCEPT ![m] = RefreshStatus(@)], group)
    <3> HIDE DEF L
    <3> DEFINE A == [l \in Lights |-> IF l \in {m} THEN RefreshStatus(L[l]) ELSE L[l]]
    <3>1. Sound(A, group)
      BY <2>1, RefreshedSound
    <3>2. [L EXCEPT ![m] = RefreshStatus(@)] = A
      BY <2>1 DEF LightsType
    <3> QED
      BY <3>1, <3>2
  <2>3. \/ Answered(L, w)
        \/ \E m \in Members[w] : Answered([L EXCEPT ![m] = RefreshStatus(@)], w)
    BY <1>10 DEF QueryGroupStatus
  <2> HIDE DEF L
  <2> QED
    BY <1>7, <2>1, <2>2, <2>3
<1>11. CASE FadeTick
  <2>1. LET r == FadeProgress(light, group) IN Sound(r.light, r.group)
    BY <1>0, FadeProgressSound
  <2> QED
    BY <1>11, <2>1 DEF FadeTick, IInv
<1>12. CASE TimePasses
  <2>2. light' \in LightsType /\ SameScenes(light, light', Lights)
    BY <1>0, <1>12, AdvanceType DEF TimePasses, Sound, LightsType, SameScenes
  <2>3. group' = group /\ ticked' = FALSE
    BY <1>12 DEF TimePasses
  <2>4. Sound(light', group)
    BY <1>0, <2>2, SceneUnset DEF Sound
  <2> QED
    BY <2>3, <2>4 DEF IInv
<1>13. CASE UNCHANGED vars
  BY <1>13 DEF vars, IInv
<1> QED
  BY <1>1, <1>2, <1>3, <1>4, <1>5, <1>6, <1>8, <1>9, <1>10, <1>11, <1>12, <1>13 DEF Next, Commands, Looks

THEOREM InvTheorem == Spec => []IInv
BY InitInv, NextInv, PTL DEF Spec

\* The fields of World, Light and Group keep the values their users expect:
\* no command stores a level above 254 in a light or above 255 in a group.
THEOREM TypeCorrect == Spec => []TypeOK
BY InvTheorem, InvMeaning, PTL

\* DALI_QUERY_LAST_SCENE_IS_CURRENT never says more of a group than of its
\* members, however many groups share a light and whatever wires commands use.
THEOREM GroupScenesAgree == Spec => []GroupSceneAgrees
BY InvTheorem, InvMeaning, PTL

-----------------------------------------------------------------------------
(* What a step does to the lights, whatever it does to the groups            *)

Sane(L) == L \in LightsType /\ \A l \in Lights : Coherent(L[l])

\* Somebody read levels, or the progress loop did: every light shows the same.
Looked(L, L1) == \A l \in Lights : Seen(L[l], L1[l])

\* The change of a destination is announced on the wire of the light.
Announced(L, L1, events) ==
    \A l \in Lights : Destination(L1[l]) # Destination(L[l]) =>
        \E e \in events : e.wire = l /\ e.to = Destination(L1[l])

\* No lamp that fades has jumped.
Unmoved(L, L1) == \A l \in Lights : Fading(L1[l]) => Visible(L1[l]) = Visible(L[l])

\* No lamp has moved at all.
Lit(L, L1) == \A l \in Lights : Visible(L1[l]) = Visible(L[l])

\* A command on w: out of its reach nothing is seen, fades begin where the lamps are,
\* every change of a destination is announced, what is announced for a group is true
\* of all of it, and a light that stays in its scene is still at the scene's level.
Commanded(L, L1, w, events) ==
    /\ Sane(L1)
    /\ \A l \in Lights \ Targets[w] : Seen(L[l], L1[l])
    /\ Unmoved(L, L1)
    /\ Announced(L, L1, events)
    /\ \A e \in events : e.wire \in Groups =>
           \A m \in Members[e.wire] : Destination(L1[m]) = e.to
    /\ \A l \in Lights : HoldsScene(L[l], l) => HoldsScene(L1[l], l)

\* A stop on w: no lamp moves, and only fades that were started on w change.
Stopped(L, L1, w, events) ==
    /\ Sane(L1)
    /\ \A l \in Lights : /\ Visible(L1[l]) = Visible(L[l])
                         /\ Seen(L[l], L1[l]) \/ (l \in Targets[w] /\ StartedOn(L[l], w))
    /\ Announced(L, L1, events)

\* A run of the progress loop: it ends what is due, and reports it.
Ticked(L, L1, events) ==
    /\ Looked(L, L1)
    /\ \A l \in Lights : Due(L[l]) =>
           /\ ~Fading(L1[l])
           /\ LevelEvent(l, L[l].fade.to, L[l].fade.to) \in events

LEMMA LookedSane ==
    ASSUME NEW L, NEW L1, L1 = [l \in Lights |-> L1[l]], Looked(L, L1)
    PROVE  Sane(L1)
BY DEF Looked, Seen, Sane, LightsType

LEMMA LookedHolds ==
    ASSUME NEW x, NEW y, Seen(x, y), NEW l \in Lights, HoldsScene(x, l) PROVE HoldsScene(y, l)
BY DEF Seen, HoldsScene

LEMMA ExpiredLooked ==
    ASSUME MaxArc \in Nat, NEW L, Sane(L), NEW gs
    PROVE  Looked(L, Expired(L, gs)) /\ Sane(Expired(L, gs))
<1>1. ASSUME NEW l \in Lights PROVE Seen(L[l], Expired(L, gs)[l])
  <2>1. L[l] \in GearType /\ Coherent(L[l])
    BY DEF Sane, LightsType
  <2>2. Expired(L, gs)[l] = L[l] \/ Expired(L, gs)[l] = ExpireFade(L[l])
    BY DEF Expired
  <2> QED
    BY <2>1, <2>2, SeenItself, ExpireFadeSeen
<1>2. Looked(L, Expired(L, gs))
  BY <1>1 DEF Looked
<1>3. Expired(L, gs) = [l \in Lights |-> Expired(L, gs)[l]]
  BY DEF Expired
<1> QED
  BY <1>2, <1>3, LookedSane

\* Looking at the lights after a command undoes nothing of it.
LEMMA CommandedThenLooked ==
    ASSUME NEW L, NEW L1, NEW L2, NEW w \in Wires, NEW events,
           Commanded(L, L1, w, events), Looked(L1, L2), Sane(L2)
    PROVE  Commanded(L, L2, w, events)
<1>1. \A l \in Lights : Destination(L2[l]) = Destination(L1[l])
  BY DEF Looked, Seen
<1>2. \A l \in Lights \ Targets[w] : Seen(L[l], L2[l])
  BY SeenTwice DEF Commanded, Looked
<1>3. Announced(L, L2, events)
  BY <1>1 DEF Commanded, Announced
<1>4. \A e \in events : e.wire \in Groups =>
          \A m \in Members[e.wire] : Destination(L2[m]) = e.to
  BY <1>1, MembersType DEF Commanded
<1>5. \A l \in Lights : HoldsScene(L[l], l) => HoldsScene(L2[l], l)
  BY LookedHolds DEF Commanded, Looked
<1>6. Unmoved(L, L2)
  BY DEF Commanded, Unmoved, Looked, Seen, Due, Fading
<1> QED
  BY <1>2, <1>3, <1>4, <1>5, <1>6 DEF Commanded

\* A command that announces nothing and moves no lamp, and then another on the same wire.
LEMMA CommandedTwice ==
    ASSUME NEW L, NEW L1, NEW L2, NEW w \in Wires, NEW events,
           Commanded(L, L1, w, {}), Commanded(L1, L2, w, events),
           Lit(L, L1)
    PROVE  Commanded(L, L2, w, events)
<1>1. \A l \in Lights : Destination(L1[l]) = Destination(L[l])
  BY DEF Commanded, Announced
<1>2. \A l \in Lights \ Targets[w] : Seen(L[l], L2[l])
  BY SeenTwice DEF Commanded
<1>3. Announced(L, L2, events)
  BY <1>1 DEF Commanded, Announced
<1>4. Unmoved(L, L2)
  BY DEF Commanded, Unmoved, Lit
<1> QED
  BY <1>2, <1>3, <1>4 DEF Commanded

\* The reports for the targets announce whatever happened to them.
LEMMA TargetsAnnounced ==
    ASSUME NEW L, NEW L1, NEW w \in Wires,
           \A l \in Lights \ Targets[w] : Destination(L1[l]) = Destination(L[l]),
           NEW groups
    PROVE  Announced(L, L1, GearReports(L, L1, w) \cup groups)
<1> SUFFICES ASSUME NEW l \in Lights, Destination(L1[l]) # Destination(L[l])
             PROVE  \E e \in GearReports(L, L1, w) : e.wire = l /\ e.to = Destination(L1[l])
  BY DEF Announced
<1> DEFINE e == LevelEvent(l, Visible(L[l]), Destination(L1[l]))
<1>1. l \in Targets[w]
  OBVIOUS
<1>2. e \in GearReports(L, L1, w)
  BY <1>1 DEF GearReports
<1>3. e.wire = l /\ e.to = Destination(L1[l])
  BY DEF LevelEvent
<1> QED
  BY <1>2, <1>3

\* What is reported for a light is on no wire of a group.
LEMMA GearReportsOnLights ==
    ASSUME NEW L, NEW L1, NEW w \in Wires, NEW e \in GearReports(L, L1, w)
    PROVE  e.wire \notin Groups
<1>1. PICK l \in Targets[w] : e = LevelEvent(l, Visible(L[l]), Destination(L1[l]))
  BY DEF GearReports
<1>2. e.wire = l /\ l \in Lights
  BY <1>1, WiresType DEF LevelEvent
<1> QED
  BY <1>2, WiresAssumption DEF WiresAssumption

\* The members of a group a command addresses are among its targets.
LEMMA AddressedReached ==
    ASSUME NEW w \in Wires, NEW g \in Addressed[w] PROVE Members[g] \subseteq Targets[w]
<1>1. g \in Groups /\ (w = Broadcast \/ w = g)
  BY WiresType DEF Addressed
<1> QED
  BY <1>1, MembersType DEF Targets

-----------------------------------------------------------------------------
(* Every command is such a step                                              *)

LEMMA ApplyLevelCommands ==
    ASSUME LevelAssumption, NEW w \in Wires, NEW L, NEW G, Sane(L),
           NEW v \in Int, NEW duration \in Nat
    PROVE  LET r == ApplyLevel(L, G, w, v, duration)
           IN  Commanded(L, r.light, w, r.events.level)
<1> DEFINE L1 == [l \in Lights |-> IF l \in Targets[w] THEN SetLevel(L[l], v, duration, w) ELSE L[l]]
           prev(g) == IF w = Broadcast THEN G[g].level ELSE EventPrev(L, G, g)
           reports == {LevelEvent(g, prev(g), ClampLevel(v)) : g \in Addressed[w]}
           r == ApplyLevel(L, G, w, v, duration)
<1>1. MaxArc \in Nat
  BY DEF LevelAssumption
<1>2. r.light = Expired(L1, Siblings[w]) /\ r.events.level = GearReports(L, L1, w) \cup reports
  BY DEF ApplyLevel, Outcome
<1>3. /\ Sane(L1) /\ Unmoved(L, L1)
      /\ \A l \in Targets[w] : Destination(L1[l]) = ClampLevel(v) /\ ~L1[l].sceneCurrent
      /\ \A l \in Lights \ Targets[w] : L1[l] = L[l]
  <2>1. ASSUME NEW l \in Lights
        PROVE  LET y == SetLevel(L[l], v, duration, w)
               IN  /\ y \in GearType /\ Coherent(y) /\ Destination(y) = ClampLevel(v) /\ ~y.sceneCurrent
                   /\ Fading(y) => Visible(y) = Visible(L[l])
    BY <1>1, SetLevelType, SetLevelSeen, SetLevelStarts DEF Sane, LightsType
  <2> QED
    BY <2>1, WiresType DEF Sane, LightsType, Unmoved
<1> HIDE DEF L1, r
<1>4. \A e \in reports : e.wire \in Addressed[w] /\ e.to = ClampLevel(v)
  BY DEF LevelEvent
<1> HIDE DEF reports
<1>5. \A l \in Lights \ Targets[w] : Seen(L[l], L1[l])
  BY <1>3, SeenItself DEF Sane, LightsType
<1>6. Announced(L, L1, GearReports(L, L1, w) \cup reports)
  BY <1>3, TargetsAnnounced
<1>7. \A e \in GearReports(L, L1, w) \cup reports : e.wire \in Groups =>
          \A m \in Members[e.wire] : Destination(L1[m]) = e.to
  BY <1>3, <1>4, GearReportsOnLights, AddressedReached
<1>8. \A l \in Lights : HoldsScene(L[l], l) => HoldsScene(L1[l], l)
  BY <1>3 DEF HoldsScene
<1>9. Commanded(L, L1, w, GearReports(L, L1, w) \cup reports)
  BY <1>3, <1>5, <1>6, <1>7, <1>8 DEF Commanded
<1>10. Looked(L1, Expired(L1, Siblings[w])) /\ Sane(Expired(L1, Siblings[w]))
  BY <1>1, <1>3, ExpiredLooked
<1>11. Commanded(L, r.light, w, r.events.level)
  BY <1>2, <1>9, <1>10, CommandedThenLooked
<1> QED
  BY <1>11 DEF r

LEMMA ApplyPerLightLevelCommands ==
    ASSUME LevelAssumption, NEW w \in Wires, NEW L, NEW G, Sane(L), NEW choice \in Choices
    PROVE  LET r == ApplyPerLightLevel(L, G, w, choice)
           IN  Commanded(L, r.light, w, r.events.level)
<1> DEFINE L1 == [l \in Lights |-> IF l \in Targets[w]
                                   THEN SetLevel(L[l], ChosenLevel(choice, l, L[l]), 0, w)
                                   ELSE L[l]]
           prev(g) == IF w = Broadcast THEN G[g].level ELSE EventPrev(L, G, g)
           agreed == {g \in Addressed[w] : GroupLevel(L1, G, g) # Mixed}
           reports == {LevelEvent(g, prev(g), GroupLevel(L1, G, g)) : g \in agreed}
           gs == Addressed[w] \cup Siblings[w]
           r == ApplyPerLightLevel(L, G, w, choice)
<1>1. MaxArc \in Nat
  BY DEF LevelAssumption
<1>2. r.light = Expired(L1, gs) /\ r.events.level = GearReports(L, L1, w) \cup reports
  BY DEF ApplyPerLightLevel, Outcome
<1>3. /\ Sane(L1) /\ Unmoved(L, L1)
      /\ \A l \in Targets[w] : L1[l].fade = NoFade /\ ~L1[l].sceneCurrent
      /\ \A l \in Lights \ Targets[w] : L1[l] = L[l]
  <2>1. ASSUME NEW l \in Lights
        PROVE  LET y == SetLevel(L[l], ChosenLevel(choice, l, L[l]), 0, w)
               IN  y \in GearType /\ Coherent(y) /\ y.fade = NoFade /\ ~y.sceneCurrent
    <3>1. L[l] \in GearType /\ ChosenLevel(choice, l, L[l]) \in Int /\ 0 \in Nat
      BY ChosenLevelType DEF Sane, LightsType
    <3> QED
      BY <1>1, <3>1, SetLevelType, SetLevelSeen
  <2> QED
    BY <2>1, RestShow, WiresType DEF Sane, LightsType, Unmoved
<1> HIDE DEF L1, r, gs
<1>4. ASSUME NEW g \in agreed, NEW m \in Members[g] PROVE Destination(L1[m]) = GroupLevel(L1, G, g)
  <2>1. g \in Addressed[w] /\ GroupLevel(L1, G, g) # Mixed
    OBVIOUS
  <2>2. \A a, b \in Members[g] : Visible(L1[a]) = Visible(L1[b])
    BY <2>1 DEF GroupLevel, Agree
  <2>3. GroupLevel(L1, G, g) = Visible(L1[m])
    BY <2>2 DEF GroupLevel, Agree
  <2>4. L1[m].fade = NoFade
    BY <1>3, <2>1, AddressedReached
  <2> QED
    BY <2>3, <2>4, RestShow
<1>5. \A e \in reports : e.wire \in agreed /\ e.to = GroupLevel(L1, G, e.wire)
  BY DEF LevelEvent
<1> HIDE DEF reports, agreed
<1>6. \A l \in Lights \ Targets[w] : Seen(L[l], L1[l])
  BY <1>3, SeenItself DEF Sane, LightsType
<1>7. Announced(L, L1, GearReports(L, L1, w) \cup reports)
  BY <1>3, TargetsAnnounced
<1>8. \A e \in GearReports(L, L1, w) \cup reports : e.wire \in Groups =>
          \A m \in Members[e.wire] : Destination(L1[m]) = e.to
  BY <1>4, <1>5, GearReportsOnLights
<1>9. \A l \in Lights : HoldsScene(L[l], l) => HoldsScene(L1[l], l)
  BY <1>3 DEF HoldsScene
<1>10. Commanded(L, L1, w, GearReports(L, L1, w) \cup reports)
  BY <1>3, <1>6, <1>7, <1>8, <1>9 DEF Commanded
<1>11. Looked(L1, Expired(L1, gs)) /\ Sane(Expired(L1, gs))
  BY <1>1, <1>3, ExpiredLooked
<1>12. Commanded(L, r.light, w, r.events.level)
  BY <1>2, <1>10, <1>11, CommandedThenLooked
<1> QED
  BY <1>12 DEF r

LEMMA ApplyColourCommands ==
    ASSUME LevelAssumption, NEW w \in Wires, NEW L, NEW G, Sane(L), NEW c \in Colours
    PROVE  /\ Commanded(L, ApplyColour(L, G, w, c).light, w, {})
           /\ Lit(L, ApplyColour(L, G, w, c).light)
<1> DEFINE L1 == [l \in Lights |-> IF l \in Targets[w] THEN SetColour(L[l], c) ELSE L[l]]
<1>1. MaxArc \in Nat
  BY DEF LevelAssumption
<1>2. ApplyColour(L, G, w, c).light = Expired(L1, Siblings[w])
  BY DEF ApplyColour, Outcome
<1>3. /\ Sane(L1)
      /\ \A l \in Lights : Destination(L1[l]) = Destination(L[l]) /\ Visible(L1[l]) = Visible(L[l])
      /\ \A l \in Targets[w] : ~L1[l].sceneCurrent
      /\ \A l \in Lights \ Targets[w] : L1[l] = L[l]
  BY SetColourType, SetColourSeen, WiresType DEF Sane, LightsType
<1> HIDE DEF L1
<1>4. \A l \in Lights \ Targets[w] : Seen(L[l], L1[l])
  BY <1>3, SeenItself DEF Sane, LightsType
<1>5. \A l \in Lights : HoldsScene(L[l], l) => HoldsScene(L1[l], l)
  BY <1>3 DEF HoldsScene
<1>6. Commanded(L, L1, w, {})
  BY <1>3, <1>4, <1>5 DEF Commanded, Announced, Unmoved
<1>7. Looked(L1, Expired(L1, Siblings[w])) /\ Sane(Expired(L1, Siblings[w]))
  BY <1>1, <1>3, ExpiredLooked
<1>8. Lit(L, Expired(L1, Siblings[w]))
  BY <1>3, <1>7 DEF Looked, Seen, Lit
<1> QED
  BY <1>2, <1>6, <1>7, <1>8, CommandedThenLooked

\* A scene with a level for a light leaves it there; another leaves it where it was
\* going, and the light holds a scene without a level trivially.
LEMMA ApplySceneCommands ==
    ASSUME LevelAssumption, SceneAssumption, NEW w \in Wires, NEW L, NEW G, Sane(L),
           NEW s \in Scenes, NEW duration \in Nat
    PROVE  LET r == ApplyScene(L, G, w, s, duration)
           IN  Commanded(L, r.light, w, r.events.level)
<1> DEFINE L1 == [l \in Lights |-> IF l \in Targets[w] THEN RecallScene(l, L[l], s, duration, w) ELSE L[l]]
           prev(g) == EventPrev(IF w = Broadcast THEN L1 ELSE L, G, g)
           unanimous == {g \in Addressed[w] : Members[g] # {} /\ Agree(Members[g], LAMBDA m : Destination(L1[m]))}
           first(g) == Destination(L1[CHOOSE m \in Members[g] : TRUE])
           reports == {LevelEvent(g, prev(g), first(g)) : g \in unanimous}
           gs == Addressed[w] \cup Siblings[w]
           r == ApplyScene(L, G, w, s, duration)
<1>1. MaxArc \in Nat
  BY DEF LevelAssumption
<1>2. r.light = Expired(L1, gs) /\ r.events.level = GearReports(L, L1, w) \cup reports
  BY DEF ApplyScene, Outcome
<1>3. /\ Sane(L1) /\ Unmoved(L, L1)
      /\ \A l \in Targets[w] : HoldsScene(L1[l], l)
      /\ \A l \in Lights \ Targets[w] : L1[l] = L[l]
  <2>1. ASSUME NEW l \in Lights
        PROVE  LET y == RecallScene(l, L[l], s, duration, w)
               IN  /\ y \in GearType /\ Coherent(y) /\ HoldsScene(y, l)
                   /\ Fading(y) => Visible(y) = Visible(L[l])
    <3> DEFINE y == RecallScene(l, L[l], s, duration, w)
    <3>1. L[l] \in GearType /\ Coherent(L[l])
      BY DEF Sane, LightsType
    <3>2. y \in GearType /\ y.lastScene = s
      BY <1>1, <3>1, RecallSceneType
    <3>3. Coherent(y) /\ (SceneLevel[l][s] # NoLevel => y.level = SceneLevel[l][s])
      BY <1>1, <3>1, RecallSceneSeen
    <3>5. Fading(y) => Visible(y) = Visible(L[l])
      BY <1>1, <3>1, RecallSceneStarts
    <3> HIDE DEF y
    <3>4. HoldsScene(y, l)
      BY <3>2, <3>3 DEF HoldsScene
    <3> QED
      BY <3>2, <3>3, <3>4, <3>5 DEF y
  <2> QED
    BY <2>1, WiresType DEF Sane, LightsType, Unmoved
<1> HIDE DEF L1, r, gs
<1>4. ASSUME NEW g \in unanimous, NEW m \in Members[g]
      PROVE  Destination(L1[m]) = first(g)
  <2>1. \A x, y \in {Destination(L1[k]) : k \in Members[g]} : x = y
    BY DEF Agree
  <2> DEFINE k0 == CHOOSE k \in Members[g] : TRUE
  <2>2. k0 \in Members[g]
    OBVIOUS
  <2>3. \A k \in Members[g] : Destination(L1[k]) \in {Destination(L1[j]) : j \in Members[g]}
    OBVIOUS
  <2> QED
    BY <2>1, <2>2, <2>3
<1> HIDE DEF first, unanimous, prev
<1>5. \A e \in reports : e.wire \in unanimous /\ e.to = first(e.wire)
  BY DEF LevelEvent
<1> HIDE DEF reports
<1>6. \A l \in Lights \ Targets[w] : Seen(L[l], L1[l])
  BY <1>3, SeenItself DEF Sane, LightsType
<1>7. Announced(L, L1, GearReports(L, L1, w) \cup reports)
  BY <1>3, TargetsAnnounced
<1>8. \A e \in GearReports(L, L1, w) \cup reports : e.wire \in Groups =>
          \A m \in Members[e.wire] : Destination(L1[m]) = e.to
  BY <1>4, <1>5, GearReportsOnLights
<1>9. \A l \in Lights : HoldsScene(L[l], l) => HoldsScene(L1[l], l)
  BY <1>3 DEF HoldsScene
<1>10. Commanded(L, L1, w, GearReports(L, L1, w) \cup reports)
  BY <1>3, <1>6, <1>7, <1>8, <1>9 DEF Commanded
<1>11. Looked(L1, Expired(L1, gs)) /\ Sane(Expired(L1, gs))
  BY <1>1, <1>3, ExpiredLooked
<1>12. Commanded(L, r.light, w, r.events.level)
  BY <1>2, <1>10, <1>11, CommandedThenLooked
<1> QED
  BY <1>12 DEF r

LEMMA StopFadeStops ==
    ASSUME LevelAssumption, NEW w \in Wires, NEW L, NEW G, Sane(L)
    PROVE  LET r == StopFadeOn(L, G, w)
           IN  Stopped(L, r.light, w, r.events.level)
<1> DEFINE stopped == {l \in Targets[w] : StartedOn(L[l], w)}
           L1 == [l \in Lights |-> IF l \in stopped THEN Freeze(L[l]) ELSE L[l]]
           reports == {LevelEvent(l, Visible(L[l]), L1[l].level) : l \in stopped}
           r == StopFadeOn(L, G, w)
<1>1. MaxArc \in Nat
  BY DEF LevelAssumption
<1>2. /\ \E gs : r.light = Expired(L1, gs)
      /\ reports \subseteq r.events.level
  BY DEF StopFadeOn, Outcome
<1>3. /\ Sane(L1)
      /\ \A l \in Lights : Visible(L1[l]) = Visible(L[l])
      /\ \A l \in stopped : Destination(L1[l]) = L1[l].level
      /\ \A l \in Lights \ stopped : L1[l] = L[l]
  <2>1. ASSUME NEW l \in stopped
        PROVE  /\ L1[l] \in GearType /\ Coherent(L1[l])
               /\ Visible(L1[l]) = Visible(L[l]) /\ Destination(L1[l]) = L1[l].level
    <3>1. l \in Lights /\ L[l] \in GearType /\ Coherent(L[l]) /\ Fading(L[l])
      BY WiresType DEF Sane, LightsType, StartedOn
    <3>2. L1[l] = Freeze(L[l])
      BY <3>1
    <3> QED
      BY <1>1, <3>1, <3>2, FreezeSeen
  <2>2. \A l \in Lights \ stopped : L1[l] = L[l]
    OBVIOUS
  <2>3. L1 = [l \in Lights |-> L1[l]]
    OBVIOUS
  <2> HIDE DEF L1, stopped
  <2> QED
    BY <2>1, <2>2, <2>3 DEF Sane, LightsType
<1>4. \A l \in stopped : \E e \in reports : e.wire = l /\ e.to = L1[l].level
  <2> TAKE l \in stopped
  <2>1. LevelEvent(l, Visible(L[l]), L1[l].level) \in reports
    OBVIOUS
  <2> QED
    BY <2>1 DEF LevelEvent
<1>5. \A l \in Lights \ stopped : Seen(L[l], L1[l])
  BY <1>3, SeenItself DEF Sane, LightsType
<1> HIDE DEF L1, r, reports
<1>6. PICK gs : r.light = Expired(L1, gs)
  BY <1>2
<1>7. Looked(L1, r.light) /\ Sane(r.light)
  BY <1>1, <1>3, <1>6, ExpiredLooked
<1>8. \A l \in Lights : /\ Visible(r.light[l]) = Visible(L[l])
                        /\ Seen(L[l], r.light[l]) \/ l \in stopped
  BY <1>3, <1>5, <1>7, SeenTwice DEF Looked, Seen
<1>9. Announced(L, r.light, r.events.level)
  BY <1>2, <1>3, <1>4, <1>7 DEF Announced, Looked, Seen
<1> QED
  BY <1>7, <1>8, <1>9 DEF Stopped, r, stopped

\* What the loop finds due it reports at its target, where it leaves the light.
LEMMA FadeProgressTicks ==
    ASSUME LevelAssumption, NEW L, NEW G, Sane(L)
    PROVE  LET r == FadeProgress(L, G)
           IN  Sane(r.light) /\ Ticked(L, r.light, r.events.level)
<1> DEFINE pending == {l \in Lights : Reportable(L[l])}
           L1 == [l \in Lights |-> IF l \in pending THEN ExpireFade(L[l]) ELSE L[l]]
           reports == {LevelEvent(l, Visible(L1[l]), Destination(L1[l])) : l \in pending}
           r == FadeProgress(L, G)
<1>1. MaxArc \in Nat
  BY DEF LevelAssumption
<1>2. r.light = L1 /\ reports \subseteq r.events.level
  BY DEF FadeProgress, Outcome
<1>3. \A l \in Lights : L[l] \in GearType /\ Coherent(L[l])
  BY DEF Sane, LightsType
<1>4. \A l \in Lights : Seen(L[l], L1[l])
  BY <1>1, <1>3, ExpireFadeSeen, SeenItself
<1>5. Sane(L1)
  BY <1>4, LookedSane DEF Looked
<1>6. ASSUME NEW l \in Lights, Due(L[l])
      PROVE  /\ ~Fading(L1[l])
             /\ LevelEvent(l, L[l].fade.to, L[l].fade.to) \in reports
  <2>1. l \in pending /\ Fading(L[l])
    BY <1>6 DEF Reportable, Due
  <2>2. L1[l] = ExpireFade(L[l])
    BY <2>1
  <2>3. Seen(L[l], L1[l])
    BY <1>4
  <2>4. LevelEvent(l, Visible(L1[l]), Destination(L1[l])) \in reports
    BY <2>1
  <2> HIDE DEF L1, reports, pending
  <2>5. ~Fading(L1[l])
    <3>1. ExpireFade(L[l]).fade = NoFade
      BY <1>3, <1>6 DEF ExpireFade, GearType
    <3> QED
      BY <2>2, <3>1 DEF Fading, NoFade
  <2>6. Visible(L1[l]) = L[l].fade.to /\ Destination(L1[l]) = L[l].fade.to
    BY <1>6, <2>1, <2>3 DEF Seen, Visible, Destination
  <2> QED
    BY <2>4, <2>5, <2>6
<1> HIDE DEF L1, reports, r
<1>7. Sane(r.light) /\ Ticked(L, r.light, r.events.level)
  BY <1>2, <1>4, <1>5, <1>6 DEF Ticked, Looked
<1> QED
  BY <1>7 DEF r

-----------------------------------------------------------------------------
(* Every step is of one of five sorts                                        *)

Moves(L, L1, o, events) ==
    \/ o.kind \in {"level", "scene", "colour"} /\ o.wire \in Wires /\ Commanded(L, L1, o.wire, events)
    \/ o.kind = "stop" /\ o.wire \in Wires /\ Stopped(L, L1, o.wire, events)
    \/ o.kind = "query" /\ Sane(L1) /\ Looked(L, L1)
    \/ o.kind = "tick" /\ Sane(L1) /\ Ticked(L, L1, events)
    \/ o.kind = "time" /\ Sane(L1) /\ \A l \in Lights : L1[l] = Advance(L[l])

\* The status byte of every light tells the truth, beside the types.
CInv == IInv /\ StatusCoherent

LEMMA CInvSane == CInv => Sane(light)
BY DEF CInv, IInv, Sound, Sane, StatusCoherent

LEMMA AnsweredMoves ==
    ASSUME NEW L, NEW w, Answered(L, w), L = [l \in Lights |-> L[l]], Looked(light, L)
    PROVE  Moves(light, light', op', emitted'.level)
<1>1. Sane(L)
  BY LookedSane
<1> QED
  BY <1>1 DEF Answered, Commit, Outcome, Op, Moves

LEMMA CommitMoves ==
    ASSUME NEW outcome, NEW w \in Wires, NEW kind \in {"level", "scene", "colour"},
           Commit(outcome, kind, w),
           Commanded(light, outcome.light, w, outcome.events.level)
    PROVE  Moves(light, light', op', emitted'.level)
BY DEF Commit, Op, Moves

LEMMA NextMoves == CInv /\ Next => Moves(light, light', op', emitted'.level)
<1> SUFFICES ASSUME CInv, Next PROVE Moves(light, light', op', emitted'.level)
  OBVIOUS
<1> USE LevelAssumption, SceneAssumption, InputAssumption
<1>0. /\ Sane(light) /\ MaxArc \in Nat
      /\ ArcLevels \subseteq Int
      /\ Mixed \in Int
  BY CInvSane DEF InputAssumption, LevelAssumption, Levels, Mixed
<1>1. ASSUME NEW w \in Wires, NEW v \in ArcLevels, NEW d \in Durations \cup {0},
             Commit(ApplyLevel(light, group, w, v, d), "level", w)
      PROVE  Moves(light, light', op', emitted'.level)
  <2>1. v \in Int /\ d \in Nat
    BY <1>0 DEF InputAssumption
  <2> QED
    BY <1>0, <1>1, <2>1, ApplyLevelCommands, CommitMoves
<1>2. ASSUME NEW w \in Wires, NEW choice \in Relatives, Relative(w, choice)
      PROVE  Moves(light, light', op', emitted'.level)
  <2>1. choice \in Choices
    BY DEF InputAssumption
  <2> QED
    BY <1>0, <1>2, <2>1, ApplyPerLightLevelCommands, CommitMoves DEF Relative
<1>3. ASSUME NEW w \in Wires, NEW s \in Scenes, RecallSceneOn(w, s)
      PROVE  Moves(light, light', op', emitted'.level)
  <2>1. SceneFade \in Nat
    BY DEF InputAssumption
  <2> QED
    BY <1>0, <1>3, <2>1, ApplySceneCommands, CommitMoves DEF RecallSceneOn
<1>4. ASSUME NEW w \in Wires, NEW c \in Colours, NEW v \in ArcLevels \cup {Mixed}, DaliColour(w, c, v)
      PROVE  Moves(light, light', op', emitted'.level)
  <2> DEFINE first == ApplyColour(light, group, w, c)
             second == ApplyLevel(first.light, first.group, w, v, 0)
             both == [second EXCEPT !.events.colour = first.events.colour]
  <2>1. /\ Commanded(light, first.light, w, {}) /\ Lit(light, first.light)
        /\ first.events.level = {}
    <3>1. first.events.level = {}
      BY DEF ApplyColour, Outcome
    <3> QED
      BY <1>0, <3>1, ApplyColourCommands
  <2>2. Commanded(first.light, second.light, w, second.events.level)
    <3>1. Sane(first.light) /\ v \in Int /\ 0 \in Nat
      BY <1>0, <2>1 DEF Commanded
    <3> HIDE DEF first
    <3> QED
      BY <3>1, ApplyLevelCommands
  <2>3. both.light = second.light /\ both.events.level = second.events.level
    <3> HIDE DEF first
    <3> QED
      BY DEF ApplyLevel, Outcome
  <2>4. Commit(first, "colour", w) \/ Commit(both, "colour", w)
    BY <1>4 DEF DaliColour
  <2> HIDE DEF first, second, both
  <2>5. Commanded(light, second.light, w, second.events.level)
    BY <2>1, <2>2, CommandedTwice
  <2> QED
    BY <2>1, <2>3, <2>4, <2>5, CommitMoves
<1>5. ASSUME NEW w \in Wires, StopFade(w) PROVE Moves(light, light', op', emitted'.level)
  <2> DEFINE r == StopFadeOn(light, group, w)
  <2>1. Stopped(light, r.light, w, r.events.level)
    BY <1>0, StopFadeStops
  <2>2. light' = r.light /\ emitted' = r.events /\ op' = Op("stop", w)
    BY <1>5 DEF StopFade, Commit
  <2> HIDE DEF r
  <2> QED
    BY <2>1, <2>2 DEF Moves, Op
<1>6. \A l \in Lights : light[l] \in GearType /\ Coherent(light[l])
  BY <1>0 DEF Sane, LightsType
<1>7. ASSUME NEW w \in Wires, QueryLevel(w) PROVE Moves(light, light', op', emitted'.level)
  <2> DEFINE A == [l \in Lights |-> IF l \in Targets[w] THEN ExpireFade(light[l]) ELSE light[l]]
  <2>1. Looked(light, A)
    BY <1>0, <1>6, ExpireFadeSeen, SeenItself DEF Looked
  <2>2. A = [l \in Lights |-> A[l]] /\ Answered(A, w)
    BY <1>7 DEF QueryLevel
  <2> HIDE DEF A
  <2> QED
    BY <2>1, <2>2, AnsweredMoves
<1>8. ASSUME NEW w \in Wires, QueryStatus(w) PROVE Moves(light, light', op', emitted'.level)
  <2> DEFINE A == [l \in Lights |-> IF l \in Targets[w] THEN RefreshStatus(light[l]) ELSE light[l]]
  <2>1. Looked(light, A)
    BY <1>0, <1>6, RefreshStatusSeen, SeenItself DEF Looked
  <2>2. A = [l \in Lights |-> A[l]] /\ Answered(A, w)
    BY <1>8 DEF QueryStatus
  <2> HIDE DEF A
  <2> QED
    BY <2>1, <2>2, AnsweredMoves
<1>9. ASSUME NEW w \in Wires, QueryGroupStatus(w) PROVE Moves(light, light', op', emitted'.level)
  <2> DEFINE L == Expired(light, {w})
  <2>1. Looked(light, L) /\ Sane(L) /\ L = [l \in Lights |-> L[l]]
    <3>1. L = [l \in Lights |-> L[l]]
      BY DEF Expired
    <3> QED
      BY <1>0, <3>1, ExpiredLooked
  <2>2. \/ Answered(L, w)
        \/ \E m \in Members[w] : Answered([L EXCEPT ![m] = RefreshStatus(@)], w)
    BY <1>9 DEF QueryGroupStatus
  <2> HIDE DEF L
  <2>3. CASE Answered(L, w)
    BY <2>1, <2>3, AnsweredMoves
  <2>4. ASSUME NEW m \in Members[w], Answered([L EXCEPT ![m] = RefreshStatus(@)], w)
        PROVE  Moves(light, light', op', emitted'.level)
    <3> DEFINE A == [L EXCEPT ![m] = RefreshStatus(@)]
    <3>1. \A l \in Lights : L[l] \in GearType /\ Coherent(L[l])
      BY <2>1 DEF Sane, LightsType
    <3>2. A = [l \in Lights |-> IF l = m THEN RefreshStatus(L[l]) ELSE L[l]]
      BY <2>1
    <3> HIDE DEF A
    <3>3. \A l \in Lights : Seen(L[l], A[l])
      BY <1>0, <3>1, <3>2, RefreshStatusSeen, SeenItself
    <3>4. Looked(light, A)
      BY <2>1, <3>3, SeenTwice DEF Looked
    <3>5. A = [l \in Lights |-> A[l]]
      BY <3>2
    <3> QED
      BY <2>4, <3>4, <3>5, AnsweredMoves DEF A
  <2> QED
    BY <2>2, <2>3, <2>4
<1>10. CASE FadeTick
  <2> DEFINE r == FadeProgress(light, group)
  <2>1. Sane(r.light) /\ Ticked(light, r.light, r.events.level)
    BY <1>0, FadeProgressTicks
  <2>2. light' = r.light /\ emitted' = r.events /\ op' = Op("tick", Broadcast)
    BY <1>10 DEF FadeTick
  <2> HIDE DEF r
  <2> QED
    BY <2>1, <2>2 DEF Moves, Op
<1>11. CASE TimePasses
  <2>1. \A l \in Lights : light'[l] = Advance(light[l])
    BY <1>11 DEF TimePasses
  <2>2. \A l \in Lights : Advance(light[l]) \in GearType /\ Coherent(Advance(light[l]))
    BY <1>0, <1>6, AdvanceType, AdvanceSeen
  <2>3. light' = [l \in Lights |-> light'[l]]
    BY <1>11 DEF TimePasses
  <2>4. Sane(light')
    BY <2>1, <2>2, <2>3 DEF Sane, LightsType
  <2>5. op'.kind = "time"
    BY <1>11 DEF TimePasses, Op
  <2> QED
    BY <2>1, <2>4, <2>5 DEF Moves
<1> QED
  BY <1>1, <1>2, <1>3, <1>4, <1>5, <1>7, <1>8, <1>9, <1>10, <1>11 DEF Next, Commands, Looks, SetArcLevel, CustomFade

LEMMA InitCInv == Init => CInv
<1> SUFFICES ASSUME Init PROVE CInv
  OBVIOUS
<1>1. \A x \in LoadedLight : Coherent(x)
  <2> SUFFICES ASSUME NEW v \in StartLevels, NEW r \in StartActive, NEW s \in Scenes,
                      NEW c \in BOOLEAN, NEW k \in Colours \cup {NoColour}
               PROVE  Coherent([level |-> v, lastActive |-> IF v > 0 THEN v ELSE r,
                                lastScene |-> s, sceneCurrent |-> c, colour |-> k,
                                lampOn |-> v > 0, fadeBit |-> FALSE, fade |-> NoFade])
    BY DEF LoadedLight
  <2> QED
    BY RestCoherent
<1>2. StatusCoherent
  BY <1>1 DEF Init, StatusCoherent
<1> QED
  BY <1>2, InitInv DEF CInv

LEMMA NextCInv == CInv /\ [Next]_vars => CInv'
<1> SUFFICES ASSUME CInv, [Next]_vars PROVE CInv'
  OBVIOUS
<1>1. IInv'
  BY NextInv DEF CInv
<1>2. CASE Next
  <2>1. Sane(light')
    BY <1>2, NextMoves DEF Moves, Commanded, Stopped
  <2> QED
    BY <1>1, <2>1 DEF CInv, Sane, StatusCoherent
<1>3. CASE UNCHANGED vars
  BY <1>1, <1>3 DEF CInv, StatusCoherent, vars
<1> QED
  BY <1>2, <1>3

THEOREM CInvTheorem == Spec => []CInv
BY InitCInv, NextCInv, PTL DEF Spec

\* The status byte of a light says FADE_RUNNING while it fades and LAMP_ON while it
\* burns, whatever mixture of commands, stops, queries and ticks came before.
THEOREM StatusIsCoherent == Spec => []StatusCoherent
<1>1. CInv => StatusCoherent
  BY DEF CInv
<1> QED
  BY <1>1, CInvTheorem, PTL

-----------------------------------------------------------------------------
(* The action properties                                                     *)

\* A query, a tick, a stop or the start of a fade moves no lamp, and time moves it
\* only towards the level it is heading for: rounding never makes a fade step back.
THEOREM FadesStaySmooth == Spec => FadesAreSmooth
<1>1. ASSUME CInv, Next, NEW l \in Lights
      PROVE  /\ op'.kind \in {"query", "tick", "stop"} => Visible(light'[l]) = Visible(light[l])
             /\ (op'.kind \in {"level", "scene", "colour"} /\ Fading(light'[l])) =>
                   Visible(light'[l]) = Visible(light[l])
             /\ op'.kind = "time" =>
                   Between(Visible(light'[l]), Visible(light[l]), Destination(light[l]))
  <2>1. Moves(light, light', op', emitted'.level)
    BY <1>1, NextMoves
  <2>2. light[l] \in GearType /\ Coherent(light[l]) /\ MaxArc \in Nat
    BY <1>1, CInvSane, LevelAssumption DEF Sane, LightsType, LevelAssumption
  <2>3. op'.kind \in {"query", "tick", "stop"} => Visible(light'[l]) = Visible(light[l])
    BY <2>1 DEF Moves, Looked, Ticked, Stopped, Seen
  <2>4. op'.kind = "time" => light'[l] = Advance(light[l])
    BY <2>1 DEF Moves
  <2>5. (op'.kind \in {"level", "scene", "colour"} /\ Fading(light'[l])) =>
           Visible(light'[l]) = Visible(light[l])
    BY <2>1 DEF Moves, Commanded, Unmoved
  <2> QED
    BY <2>2, <2>3, <2>4, <2>5, AdvanceSeen DEF Between
<1>2. CInv /\ [Next]_vars => [\A l \in Lights :
          /\ op'.kind \in {"query", "tick", "stop"} => Visible(light'[l]) = Visible(light[l])
          /\ (op'.kind \in {"level", "scene", "colour"} /\ Fading(light'[l])) =>
                Visible(light'[l]) = Visible(light[l])
          /\ op'.kind = "time" =>
                Between(Visible(light'[l]), Visible(light[l]), Destination(light[l]))]_vars
  BY <1>1
<1> QED
  BY <1>2, CInvTheorem, PTL DEF Spec, FadesAreSmooth

\* A running fade belongs to the wire that started it: another command only
\* touches it where it reaches the light, and STOP_FADE only from that wire.
THEOREM FadesHaveOneOwner == Spec => FadeHasOneOwner
<1>1. ASSUME CInv, Next, NEW l \in Lights,
             Fading(light[l]), ~Due(light[l]), op'.kind # "time", light'[l].fade # light[l].fade
      PROVE  /\ op'.kind \in {"level", "scene", "colour", "stop"}
             /\ l \in Targets[op'.wire]
             /\ op'.kind = "stop" => op'.wire = light[l].fade.origin
  <2>1. Moves(light, light', op', emitted'.level)
    BY <1>1, NextMoves
  <2>2. ~Seen(light[l], light'[l])
    BY <1>1 DEF Seen
  <2> QED
    BY <1>1, <2>1, <2>2 DEF Moves, Commanded, Stopped, Looked, Ticked, StartedOn
<1>2. CInv /\ [Next]_vars => [\A l \in Lights :
          (/\ Fading(light[l]) /\ ~Due(light[l])
           /\ op'.kind # "time"
           /\ light'[l].fade # light[l].fade) =>
              /\ op'.kind \in {"level", "scene", "colour", "stop"}
              /\ l \in Targets[op'.wire]
              /\ op'.kind = "stop" => op'.wire = light[l].fade.origin]_vars
  BY <1>1
<1> QED
  BY <1>2, CInvTheorem, PTL DEF Spec, FadeHasOneOwner

\* A subscriber that keeps the last announced target of every light knows where
\* each is heading: no handler, query or tick changes a destination silently.
THEOREM NoChangeIsSilent == Spec => NoSilentChange
<1>1. ASSUME CInv, Next, NEW l \in Lights, Destination(light'[l]) # Destination(light[l])
      PROVE  \E e \in emitted'.level : e.wire = l /\ e.to = Destination(light'[l])
  <2>1. Moves(light, light', op', emitted'.level)
    BY <1>1, NextMoves
  <2>2. light[l] \in GearType /\ Coherent(light[l]) /\ MaxArc \in Nat
    BY <1>1, CInvSane, LevelAssumption DEF Sane, LightsType, LevelAssumption
  <2>3. op'.kind # "time"
    BY <1>1, <2>1, <2>2, AdvanceSeen DEF Moves
  <2> QED
    BY <1>1, <2>1, <2>3 DEF Moves, Commanded, Stopped, Announced, Looked, Ticked, Seen
<1>2. CInv /\ [Next]_vars => [\A l \in Lights :
          Destination(light'[l]) # Destination(light[l]) =>
              \E e \in emitted'.level : e.wire = l /\ e.to = Destination(light'[l])]_vars
  BY <1>1
<1> QED
  BY <1>2, CInvTheorem, PTL DEF Spec, NoSilentChange

\* A tick leaves no due fade behind and reports every completion it makes.
THEOREM TicksComplete == Spec => TickCompletes
<1>1. ASSUME CInv, Next, op'.kind = "tick", NEW l \in Lights, Due(light[l])
      PROVE  /\ ~Fading(light'[l])
             /\ LevelEvent(l, light[l].fade.to, light[l].fade.to) \in emitted'.level
  BY <1>1, NextMoves DEF Moves, Ticked
<1>2. CInv /\ [Next]_vars => [op'.kind = "tick" =>
          \A l \in Lights : Due(light[l]) =>
              /\ ~Fading(light'[l])
              /\ LevelEvent(l, light[l].fade.to, light[l].fade.to) \in emitted'.level]_vars
  BY <1>1
<1> QED
  BY <1>2, CInvTheorem, PTL DEF Spec, TickCompletes

\* A target a command announces for a group is the target of every member, with
\* fades or without, also where the members choose their levels each for itself.
THEOREM GroupTargetsAreShared == Spec => GroupTargetIsShared
<1>1. ASSUME CInv, Next, op'.kind \in {"level", "scene", "colour"},
             NEW e \in emitted'.level, e.wire \in Groups, NEW m \in Members[e.wire]
      PROVE  Destination(light'[m]) = e.to
  BY <1>1, NextMoves DEF Moves, Commanded
<1>2. CInv /\ [Next]_vars => [op'.kind \in {"level", "scene", "colour"} =>
          \A e \in emitted'.level : e.wire \in Groups =>
              \A m \in Members[e.wire] : Destination(light'[m]) = e.to]_vars
  BY <1>1
<1> QED
  BY <1>2, CInvTheorem, PTL DEF Spec, GroupTargetIsShared

\* Only a stop takes a light that counts as being in its scene from the level of
\* the scene: every command, query and tick keeps the two together.
THEOREM SceneLevelHeldButForStops ==
    Spec => [][op'.kind # "stop" =>
                  \A l \in Lights : HoldsScene(light[l], l) => HoldsScene(light'[l], l)]_vars
<1>1. ASSUME CInv, Next, op'.kind # "stop", NEW l \in Lights, HoldsScene(light[l], l)
      PROVE  HoldsScene(light'[l], l)
  <2>1. Moves(light, light', op', emitted'.level)
    BY <1>1, NextMoves
  <2>2. Seen(light[l], light'[l]) => HoldsScene(light'[l], l)
    BY <1>1, LookedHolds
  <2>3. CASE op'.kind = "time"
    <3>1. light[l] \in GearType /\ Coherent(light[l]) /\ MaxArc \in Nat
      BY <1>1, CInvSane, LevelAssumption DEF Sane, LightsType, LevelAssumption
    <3>2. light'[l] = Advance(light[l])
      BY <2>1, <2>3 DEF Moves
    <3> QED
      BY <1>1, <3>1, <3>2, AdvanceSeen, AdvanceType DEF HoldsScene
  <2> QED
    BY <1>1, <2>1, <2>2, <2>3 DEF Moves, Commanded, Looked, Ticked
<1>2. CInv /\ [Next]_vars => [op'.kind # "stop" =>
          \A l \in Lights : HoldsScene(light[l], l) => HoldsScene(light'[l], l)]_vars
  BY <1>1
<1> QED
  BY <1>2, CInvTheorem, PTL DEF Spec

-----------------------------------------------------------------------------
(* Without fades: dim_time_ms is 0 and no client asks for a duration.        *)

Resting(L) == \A l \in Lights : L[l].fade = NoFade

SyncKept(L, G, L1, G1) == \A g \in Groups : InSync(L, G, g) => InSync(L1, G1, g)

\* What a command needs of the world, and of the setting.
Calm(L, G) == Sound(L, G) /\ Sane(L) /\ Resting(L)

LEMMA RestExpired ==
    ASSUME NEW L, L = [l \in Lights |-> L[l]], Resting(L), NEW gs
    PROVE  Expired(L, gs) = L
BY RestStays DEF Resting, Expired

\* A group whose level was just synced is in sync.
LEMMA SyncedInSync ==
    ASSUME NEW L, NEW G, NEW G1, NEW g \in Groups, G1[g].level = SyncedLevel(L, G, g)
    PROVE  InSync(L, G1, g)
<1>1. CASE Members[g] = {}
  BY <1>1 DEF InSync, GroupLevel
<1>2. CASE Members[g] # {}
  <2>1. GroupLevel(L, G1, g) = GroupLevel(L, G, g)
    BY <1>2 DEF GroupLevel
  <2> QED
    BY <2>1 DEF InSync, SyncedLevel, EventPrev
<1> QED
  BY <1>1, <1>2

\* A group whose members all show what they showed stays in sync.
LEMMA SameSync ==
    ASSUME NEW L, NEW L1, NEW G, NEW G1, NEW g \in Groups,
           \A m \in Members[g] : Visible(L1[m]) = Visible(L[m]),
           G1[g].level = G[g].level, InSync(L, G, g)
    PROVE  InSync(L1, G1, g)
<1>1. CASE Members[g] = {}
  BY <1>1 DEF InSync, GroupLevel
<1>2. CASE Members[g] # {}
  <2> DEFINE first == CHOOSE m \in Members[g] : TRUE
             same == \A a, b \in Members[g] : Visible(L[a]) = Visible(L[b])
  <2>1. first \in Members[g]
    BY <1>2
  <2>2. GroupLevel(L, G, g) = IF same THEN Visible(L[first]) ELSE Mixed
    BY <1>2 DEF GroupLevel, Agree
  <2>3. GroupLevel(L1, G1, g) = IF same THEN Visible(L1[first]) ELSE Mixed
    <3>1. same <=> \A a, b \in Members[g] : Visible(L1[a]) = Visible(L1[b])
      OBVIOUS
    <3> HIDE DEF same
    <3> QED
      BY <1>2, <3>1 DEF GroupLevel, Agree
  <2> HIDE DEF first, same
  <2> QED
    BY <2>1, <2>2, <2>3 DEF InSync
<1> QED
  BY <1>1, <1>2

\* Siblings are synced by the invalidation, and the others are out of reach.
LEMMA CommandSync ==
    ASSUME MaxArc \in Nat, NEW w \in Wires, NEW L, NEW G,
           NEW L1 \in LightsType, \A l \in Lights \ Targets[w] : L1[l] = L[l],
           NEW G1 \in GroupsType, \A g \in Groups \ Addressed[w] : G1[g] = G[g],
           \A g \in Addressed[w] : InSync(L, G, g) => InSync(L1, G1, g)
    PROVE  SyncKept(L, G, L1, Invalidated(L1, G1, w))
<1> DEFINE G2 == Invalidated(L1, G1, w)
<1> SUFFICES ASSUME NEW g \in Groups, InSync(L, G, g) PROVE InSync(L1, G2, g)
  BY DEF SyncKept
<1>1. CASE g \in Siblings[w]
  <2>1. G2[g].level = SyncedLevel(L1, G1, g)
    <3> DEFINE level == SyncedLevel(L1, G1, g)
    <3>1. G2[g] = [G1[g] EXCEPT !.level = level, !.sceneCurrent = FALSE]
      BY <1>1 DEF Invalidated
    <3> HIDE DEF level, G2
    <3> QED
      BY <3>1 DEF GroupsType, GroupType, level
  <2> HIDE DEF G2
  <2> QED
    BY <2>1, SyncedInSync
<1>2. CASE g \notin Siblings[w]
  <2>1. G2[g] = G1[g]
    BY <1>2 DEF Invalidated
  <2> HIDE DEF G2
  <2>2. CASE g \in Addressed[w]
    <3>1. InSync(L1, G1, g)
      BY <2>2
    <3>2. \A m \in Members[g] : Visible(L1[m]) = Visible(L1[m])
      OBVIOUS
    <3> QED
      BY <2>1, <3>1, <3>2, SameSync
  <2>3. CASE g \notin Addressed[w]
    <3>1. \A m \in Members[g] : L1[m] = L[m]
      BY <1>2, <2>3, OutOfReach, MembersType
    <3>2. G2[g].level = G[g].level
      BY <2>1, <2>3
    <3> QED
      BY <3>1, <3>2, SameSync
  <2> QED
    BY <2>2, <2>3
<1> QED
  BY <1>1, <1>2

LEMMA ApplyLevelSync ==
    ASSUME LevelAssumption, NEW w \in Wires, NEW L, NEW G, Calm(L, G), NEW v \in Int
    PROVE  LET r == ApplyLevel(L, G, w, v, 0)
           IN  Resting(r.light) /\ SyncKept(L, G, r.light, r.group)
<1> DEFINE L1 == [l \in Lights |-> IF l \in Targets[w] THEN SetLevel(L[l], v, 0, w) ELSE L[l]]
           G1 == [g \in Groups |-> IF g \in Addressed[w]
                                   THEN [G[g] EXCEPT !.level = ClampLevel(v), !.sceneCurrent = FALSE]
                                   ELSE G[g]]
           r == ApplyLevel(L, G, w, v, 0)
<1>1. MaxArc \in Nat
  BY DEF LevelAssumption
<1>2. r.light = Expired(L1, Siblings[w]) /\ r.group = Invalidated(L1, G1, w)
  BY DEF ApplyLevel, Outcome
<1>3. /\ L1 \in LightsType /\ Resting(L1)
      /\ \A l \in Targets[w] : L1[l].level = ClampLevel(v)
      /\ \A l \in Lights \ Targets[w] : L1[l] = L[l]
  <2>1. ASSUME NEW l \in Lights
        PROVE  LET y == SetLevel(L[l], v, 0, w)
               IN  y \in GearType /\ y.fade = NoFade /\ y.level = ClampLevel(v)
    <3>1. L[l] \in GearType /\ 0 \in Nat
      BY DEF Calm, Sane, LightsType
    <3> QED
      BY <1>1, <3>1, SetLevelType, SetLevelSeen
  <2> QED
    BY <2>1, WiresType DEF Calm, Sane, LightsType, Resting
<1>4. /\ G1 \in GroupsType
      /\ \A g \in Addressed[w] : G1[g].level = ClampLevel(v)
      /\ \A g \in Groups \ Addressed[w] : G1[g] = G[g]
  <2>1. ClampLevel(v) \in Levels
    BY <1>1, ClampType
  <2> QED
    BY <2>1, WiresType DEF Calm, Sound, GroupsType, GroupType
<1>5. L1 = [l \in Lights |-> L1[l]]
  OBVIOUS
<1> HIDE DEF L1, G1
<1>6. r.light = L1
  BY <1>2, <1>3, <1>5, RestExpired
<1>7. ASSUME NEW g \in Addressed[w] PROVE InSync(L1, G1, g)
  <2>1. CASE Members[g] = {}
    BY <2>1 DEF InSync, GroupLevel
  <2>2. CASE Members[g] # {}
    <3>1. \A m \in Members[g] : Visible(L1[m]) = ClampLevel(v)
      BY <1>3, AddressedReached, MembersType, WiresType, RestShow DEF Resting
    <3>2. GroupLevel(L1, G1, g) = ClampLevel(v)
      BY <2>2, <3>1 DEF GroupLevel, Agree
    <3> QED
      BY <1>4, <3>2 DEF InSync
  <2> QED
    BY <2>1, <2>2
<1>8. SyncKept(L, G, L1, Invalidated(L1, G1, w))
  BY <1>1, <1>3, <1>4, <1>7, CommandSync
<1> QED
  BY <1>2, <1>3, <1>6, <1>8

LEMMA ApplyPerLightLevelSync ==
    ASSUME LevelAssumption, NEW w \in Wires, NEW L, NEW G, Calm(L, G), NEW choice \in Choices
    PROVE  LET r == ApplyPerLightLevel(L, G, w, choice)
           IN  Resting(r.light) /\ SyncKept(L, G, r.light, r.group)
<1> DEFINE L1 == [l \in Lights |-> IF l \in Targets[w]
                                   THEN SetLevel(L[l], ChosenLevel(choice, l, L[l]), 0, w)
                                   ELSE L[l]]
           G1 == [g \in Groups |-> IF g \in Addressed[w]
                                   THEN [G[g] EXCEPT !.level = SyncedLevel(L1, G, g), !.sceneCurrent = FALSE]
                                   ELSE G[g]]
           gs == Addressed[w] \cup Siblings[w]
           r == ApplyPerLightLevel(L, G, w, choice)
<1>1. MaxArc \in Nat
  BY DEF LevelAssumption
<1>2. r.light = Expired(L1, gs) /\ r.group = Invalidated(L1, G1, w)
  BY DEF ApplyPerLightLevel, Outcome
<1>3. /\ L1 \in LightsType /\ Resting(L1)
      /\ \A l \in Lights \ Targets[w] : L1[l] = L[l]
  <2>1. ASSUME NEW l \in Lights
        PROVE  LET y == SetLevel(L[l], ChosenLevel(choice, l, L[l]), 0, w)
               IN  y \in GearType /\ y.fade = NoFade
    <3>1. L[l] \in GearType /\ ChosenLevel(choice, l, L[l]) \in Int /\ 0 \in Nat
      BY ChosenLevelType DEF Calm, Sane, LightsType
    <3> QED
      BY <1>1, <3>1, SetLevelType, SetLevelSeen
  <2> QED
    BY <2>1, WiresType DEF Calm, Sane, LightsType, Resting
<1>4. L1 = [l \in Lights |-> L1[l]]
  OBVIOUS
<1> HIDE DEF L1, gs
<1>5. \A g \in Groups : SyncedLevel(L1, G, g) \in Levels \cup {Mixed}
  BY <1>1, <1>3, GroupLevelType DEF Calm, Sound
<1>6. /\ G1 \in GroupsType
      /\ \A g \in Addressed[w] : G1[g].level = SyncedLevel(L1, G, g)
      /\ \A g \in Groups \ Addressed[w] : G1[g] = G[g]
  BY <1>5, WiresType DEF Calm, Sound, GroupsType, GroupType
<1> HIDE DEF G1
<1>7. r.light = L1
  BY <1>2, <1>3, <1>4, RestExpired
<1>8. \A g \in Addressed[w] : InSync(L1, G1, g)
  BY <1>6, SyncedInSync, WiresType
<1>9. SyncKept(L, G, L1, Invalidated(L1, G1, w))
  BY <1>1, <1>3, <1>6, <1>8, CommandSync
<1> QED
  BY <1>2, <1>3, <1>7, <1>9

LEMMA ApplySceneSync ==
    ASSUME LevelAssumption, SceneAssumption, NEW w \in Wires, NEW L, NEW G, Calm(L, G),
           NEW s \in Scenes
    PROVE  LET r == ApplyScene(L, G, w, s, 0)
           IN  Resting(r.light) /\ SyncKept(L, G, r.light, r.group)
<1> DEFINE L1 == [l \in Lights |-> IF l \in Targets[w] THEN RecallScene(l, L[l], s, 0, w) ELSE L[l]]
           G1 == [g \in Groups |-> IF g \in Addressed[w]
                                   THEN [level |-> SyncedLevel(L1, G, g), lastScene |-> s, sceneCurrent |-> TRUE]
                                   ELSE G[g]]
           gs == Addressed[w] \cup Siblings[w]
           r == ApplyScene(L, G, w, s, 0)
<1>1. MaxArc \in Nat
  BY DEF LevelAssumption
<1>2. r.light = Expired(L1, gs) /\ r.group = Invalidated(L1, G1, w)
  BY DEF ApplyScene, Outcome
<1>3. /\ L1 \in LightsType /\ Resting(L1)
      /\ \A l \in Lights \ Targets[w] : L1[l] = L[l]
  <2>1. ASSUME NEW l \in Lights
        PROVE  LET y == RecallScene(l, L[l], s, 0, w) IN y \in GearType /\ y.fade = NoFade
    <3>1. L[l] \in GearType /\ Coherent(L[l]) /\ L[l].fade = NoFade /\ 0 \in Nat
      BY DEF Calm, Sane, LightsType, Resting
    <3> QED
      BY <1>1, <3>1, RecallSceneType, RecallSceneSeen
  <2> QED
    BY <2>1, WiresType DEF Calm, Sane, LightsType, Resting
<1>4. L1 = [l \in Lights |-> L1[l]]
  OBVIOUS
<1> HIDE DEF L1, gs
<1>5. \A g \in Groups : SyncedLevel(L1, G, g) \in Levels \cup {Mixed}
  BY <1>1, <1>3, GroupLevelType DEF Calm, Sound
<1>6. /\ G1 \in GroupsType
      /\ \A g \in Addressed[w] : G1[g].level = SyncedLevel(L1, G, g)
      /\ \A g \in Groups \ Addressed[w] : G1[g] = G[g]
  BY <1>5, WiresType DEF Calm, Sound, GroupsType, GroupType
<1> HIDE DEF G1
<1>7. r.light = L1
  BY <1>2, <1>3, <1>4, RestExpired
<1>8. \A g \in Addressed[w] : InSync(L1, G1, g)
  BY <1>6, SyncedInSync, WiresType
<1>9. SyncKept(L, G, L1, Invalidated(L1, G1, w))
  BY <1>1, <1>3, <1>6, <1>8, CommandSync
<1> QED
  BY <1>2, <1>3, <1>7, <1>9

LEMMA ApplyColourSync ==
    ASSUME LevelAssumption, NEW w \in Wires, NEW L, NEW G, Calm(L, G), NEW c \in Colours
    PROVE  LET r == ApplyColour(L, G, w, c)
           IN  Resting(r.light) /\ SyncKept(L, G, r.light, r.group)
<1> DEFINE L1 == [l \in Lights |-> IF l \in Targets[w] THEN SetColour(L[l], c) ELSE L[l]]
           G1 == [g \in Groups |-> IF g \in Addressed[w]
                                   THEN [G[g] EXCEPT !.sceneCurrent = FALSE] ELSE G[g]]
           r == ApplyColour(L, G, w, c)
<1>1. MaxArc \in Nat
  BY DEF LevelAssumption
<1>2. r.light = Expired(L1, Siblings[w]) /\ r.group = Invalidated(L1, G1, w)
  BY DEF ApplyColour, Outcome
<1>3. /\ L1 \in LightsType /\ Resting(L1)
      /\ \A l \in Lights : L1[l].level = L[l].level
      /\ \A l \in Lights \ Targets[w] : L1[l] = L[l]
  <2>1. ASSUME NEW l \in Lights
        PROVE  LET y == SetColour(L[l], c)
               IN  y \in GearType /\ y.fade = NoFade /\ y.level = L[l].level
    <3>1. L[l] \in GearType /\ L[l].fade = NoFade
      BY DEF Calm, Sane, LightsType, Resting
    <3> QED
      BY <3>1, SetColourType DEF SetColour, GearType
  <2> QED
    BY <2>1, WiresType DEF Calm, Sane, LightsType, Resting
<1>4. /\ G1 \in GroupsType
      /\ \A g \in Groups : G1[g].level = G[g].level
      /\ \A g \in Groups \ Addressed[w] : G1[g] = G[g]
  BY WiresType DEF Calm, Sound, GroupsType, GroupType
<1>5. L1 = [l \in Lights |-> L1[l]]
  OBVIOUS
<1> HIDE DEF L1, G1
<1>6. r.light = L1
  BY <1>2, <1>3, <1>5, RestExpired
<1>7. \A l \in Lights : Visible(L1[l]) = Visible(L[l])
  BY <1>3, RestShow DEF Calm, Resting
<1>8. ASSUME NEW g \in Addressed[w], InSync(L, G, g) PROVE InSync(L1, G1, g)
  <2>1. g \in Groups /\ \A m \in Members[g] : Visible(L1[m]) = Visible(L[m])
    BY <1>7, WiresType, MembersType
  <2> QED
    BY <1>4, <1>8, <2>1, SameSync
<1>9. SyncKept(L, G, L1, Invalidated(L1, G1, w))
  BY <1>1, <1>3, <1>4, <1>8, CommandSync
<1> QED
  BY <1>2, <1>3, <1>6, <1>9

\* There is nothing to stop; a broadcast stop still syncs every group.
LEMMA StopFadeSync ==
    ASSUME LevelAssumption, NEW w \in Wires, NEW L, NEW G, Calm(L, G)
    PROVE  LET r == StopFadeOn(L, G, w)
           IN  r.light = L /\ SyncKept(L, G, r.light, r.group)
<1> DEFINE stopped == {l \in Targets[w] : StartedOn(L[l], w)}
           L1 == [l \in Lights |-> IF l \in stopped THEN Freeze(L[l]) ELSE L[l]]
           touched == IF w = Broadcast THEN Groups
                      ELSE IF stopped = {} THEN {}
                      ELSE IF w \in Groups THEN {w} ELSE Siblings[w]
           agreed == {g \in touched : GroupLevel(L1, G, g) # Mixed}
           cleared == IF w \in Lights THEN touched
                      ELSE IF w \in Groups THEN touched \ agreed ELSE {}
           G1 == [g \in Groups |-> IF g \in touched
                                   THEN [G[g] EXCEPT !.level = SyncedLevel(L1, G, g),
                                                     !.sceneCurrent = @ /\ g \notin cleared]
                                   ELSE G[g]]
           r == StopFadeOn(L, G, w)
<1>1. r.light = Expired(L1, touched) /\ r.group = G1
  BY DEF StopFadeOn, Outcome
<1>2. L = [l \in Lights |-> L[l]] /\ Resting(L) /\ G \in GroupsType
  BY DEF Calm, Sane, Sound, LightsType
<1>3. \A l \in Targets[w] : l \notin stopped
  BY WiresType, RestShow DEF Calm, Resting, StartedOn
<1>4. \A l \in Lights : L1[l] = L[l]
  BY <1>3
<1>5. L1 = [l \in Lights |-> L1[l]]
  OBVIOUS
<1> HIDE DEF L1, stopped, touched, cleared, r
<1>6. L1 = L
  BY <1>2, <1>4, <1>5
<1>7. r.light = L
  BY <1>1, <1>2, <1>6, RestExpired
<1>8. ASSUME NEW g \in Groups, InSync(L, G, g) PROVE InSync(L, G1, g)
  <2>1. CASE g \in touched
    <3> DEFINE level == SyncedLevel(L1, G, g)
               flag == G[g].sceneCurrent /\ g \notin cleared
    <3>1. G1[g] = [G[g] EXCEPT !.level = level, !.sceneCurrent = flag]
      BY <2>1
    <3> HIDE DEF level, flag, G1
    <3>2. G1[g].level = SyncedLevel(L, G, g)
      BY <1>2, <1>6, <3>1 DEF GroupsType, GroupType, level
    <3> QED
      BY <3>2, SyncedInSync
  <2>2. CASE g \notin touched
    <3>1. G1[g].level = G[g].level /\ \A m \in Members[g] : Visible(L[m]) = Visible(L[m])
      BY <2>2
    <3> HIDE DEF G1
    <3> QED
      BY <1>8, <3>1, SameSync
  <2> QED
    BY <2>1, <2>2
<1> HIDE DEF G1
<1>9. SyncKept(L, G, r.light, r.group)
  BY <1>1, <1>7, <1>8 DEF SyncKept
<1> QED
  BY <1>7, <1>9 DEF r

\* The progress loop finds nothing to report.
LEMMA FadeProgressSync ==
    ASSUME NEW L, NEW G, Calm(L, G)
    PROVE  LET r == FadeProgress(L, G) IN r.light = L /\ r.group = G
<1> DEFINE pending == {l \in Lights : Reportable(L[l])}
           L1 == [l \in Lights |-> IF l \in pending THEN ExpireFade(L[l]) ELSE L[l]]
           pool(g, origin) == {l \in pending \cap Members[g] : L[l].fade.origin = origin}
           report(l) == [cur |-> Visible(L1[l]), to |-> Destination(L1[l])]
           agreed(g, origin) == pool(g, origin) # {} /\ Agree(pool(g, origin), report)
           what(g, origin) == report(CHOOSE l \in pool(g, origin) : TRUE)
           complete(g, origin) == agreed(g, origin) /\ what(g, origin).cur = what(g, origin).to
           G1 == [g \in Groups |->
                    IF complete(g, Broadcast) THEN [G[g] EXCEPT !.level = what(g, Broadcast).to]
                    ELSE IF complete(g, g) THEN [G[g] EXCEPT !.level = what(g, g).to]
                    ELSE G[g]]
           r == FadeProgress(L, G)
<1>1. r.light = L1 /\ r.group = G1
  BY DEF FadeProgress, Outcome
<1>2. pending = {}
  BY RestShow DEF Calm, Resting, Reportable
<1>3. \A g, o : ~complete(g, o)
  BY <1>2
<1>4. L = [l \in Lights |-> L[l]] /\ G = [g \in Groups |-> G[g]]
  BY DEF Calm, Sound, LightsType, GroupsType
<1>5. L1 = L
  BY <1>2, <1>4
<1> HIDE DEF complete, what
<1>6. G1 = G
  BY <1>3, <1>4
<1> QED
  BY <1>1, <1>5, <1>6

NoFades == Durations \subseteq {0} /\ SceneFade = 0

RInv == CInv /\ Resting(light)

LEMMA AnsweredRests ==
    ASSUME NEW L, NEW w, RInv, Answered(L, w), L = [l \in Lights |-> L[l]],
           \A l \in Lights : L[l] = light[l]
    PROVE  light' = light /\ group' = group /\ op'.kind = "query"
<1>1. light = [l \in Lights |-> light[l]]
  BY CInvSane DEF RInv, Sane, LightsType
<1>2. L = light
  BY <1>1
<1> QED
  BY <1>2 DEF Answered, Commit, Outcome, Op

\* One step without fades: no light starts to fade, groups in sync stay so, and a
\* stop does nothing.
LEMMA RestStep ==
    ASSUME NoFades, RInv, Next
    PROVE  /\ Resting(light')
           /\ SyncKept(light, group, light', group')
           /\ op'.kind = "stop" => light' = light
<1> USE LevelAssumption, SceneAssumption, InputAssumption
<1>0. /\ Calm(light, group)
      /\ ArcLevels \subseteq Int
      /\ Mixed \in Int
  BY CInvSane DEF RInv, CInv, IInv, Calm, InputAssumption, LevelAssumption, Levels, Mixed
<1> DEFINE Done == /\ Resting(light')
                   /\ SyncKept(light, group, light', group')
                   /\ op'.kind = "stop" => light' = light
<1>1. ASSUME NEW w \in Wires, NEW v \in ArcLevels, NEW d \in Durations \cup {0},
             Commit(ApplyLevel(light, group, w, v, d), "level", w)
      PROVE  Done
  <2> DEFINE r == ApplyLevel(light, group, w, v, d)
  <2>1. v \in Int /\ d = 0
    BY <1>0 DEF NoFades
  <2>2. Resting(r.light) /\ SyncKept(light, group, r.light, r.group)
    BY <1>0, <2>1, ApplyLevelSync
  <2> HIDE DEF r
  <2> QED
    BY <1>1, <2>2 DEF Commit, Op, r
<1>2. ASSUME NEW w \in Wires, NEW choice \in Relatives, Relative(w, choice) PROVE Done
  <2> DEFINE r == ApplyPerLightLevel(light, group, w, choice)
  <2>1. choice \in Choices
    BY DEF InputAssumption
  <2>2. Resting(r.light) /\ SyncKept(light, group, r.light, r.group)
    BY <1>0, <2>1, ApplyPerLightLevelSync
  <2>3. Commit(r, "level", w)
    BY <1>2 DEF Relative
  <2> HIDE DEF r
  <2> QED
    BY <2>2, <2>3 DEF Commit, Op
<1>3. ASSUME NEW w \in Wires, NEW s \in Scenes, RecallSceneOn(w, s) PROVE Done
  <2> DEFINE r == ApplyScene(light, group, w, s, 0)
  <2>1. Resting(r.light) /\ SyncKept(light, group, r.light, r.group)
    BY <1>0, ApplySceneSync
  <2>2. Commit(r, "scene", w)
    BY <1>3 DEF RecallSceneOn, NoFades
  <2> HIDE DEF r
  <2> QED
    BY <2>1, <2>2 DEF Commit, Op
<1>4. ASSUME NEW w \in Wires, NEW c \in Colours, NEW v \in ArcLevels \cup {Mixed}, DaliColour(w, c, v)
      PROVE  Done
  <2> DEFINE first == ApplyColour(light, group, w, c)
             second == ApplyLevel(first.light, first.group, w, v, 0)
             both == [second EXCEPT !.events.colour = first.events.colour]
  <2>1. Calm(first.light, first.group) /\ SyncKept(light, group, first.light, first.group)
    <3>1. Sound(first.light, first.group)
      BY <1>0, ApplyColourSound DEF Calm
    <3>2. Sane(first.light)
      BY <1>0, ApplyColourCommands DEF Calm, Commanded
    <3>3. Resting(first.light) /\ SyncKept(light, group, first.light, first.group)
      BY <1>0, ApplyColourSync
    <3> QED
      BY <3>1, <3>2, <3>3 DEF Calm
  <2>2. Resting(second.light) /\ SyncKept(first.light, first.group, second.light, second.group)
    <3>1. v \in Int
      BY <1>0
    <3> HIDE DEF first
    <3> QED
      BY <2>1, <3>1, ApplyLevelSync
  <2>3. both.light = second.light /\ both.group = second.group
    <3> HIDE DEF first
    <3> QED
      BY DEF ApplyLevel, Outcome
  <2>4. Commit(first, "colour", w) \/ Commit(both, "colour", w)
    BY <1>4 DEF DaliColour
  <2> HIDE DEF first, second, both
  <2> QED
    BY <2>1, <2>2, <2>3, <2>4 DEF Commit, Op, Calm, SyncKept
<1>5. ASSUME NEW w \in Wires, StopFade(w) PROVE Done
  <2> DEFINE r == StopFadeOn(light, group, w)
  <2>1. r.light = light /\ SyncKept(light, group, r.light, r.group)
    BY <1>0, StopFadeSync
  <2>2. Commit(r, "stop", w)
    BY <1>5 DEF StopFade
  <2> HIDE DEF r
  <2> QED
    BY <1>0, <2>1, <2>2 DEF Commit, Calm
<1>6. ASSUME light' = light, group' = group PROVE Done
  BY <1>0, <1>6 DEF Calm, SyncKept
<1>7. ASSUME NEW w \in Wires, QueryLevel(w) PROVE Done
  <2> DEFINE A == [l \in Lights |-> IF l \in Targets[w] THEN ExpireFade(light[l]) ELSE light[l]]
  <2>1. A = [l \in Lights |-> A[l]] /\ \A l \in Lights : A[l] = light[l]
    BY <1>0, RestStays DEF Calm, Resting
  <2>2. Answered(A, w)
    BY <1>7 DEF QueryLevel
  <2> HIDE DEF A
  <2> QED
    BY <1>6, <2>1, <2>2, AnsweredRests
<1>8. ASSUME NEW w \in Wires, QueryStatus(w) PROVE Done
  <2> DEFINE A == [l \in Lights |-> IF l \in Targets[w] THEN RefreshStatus(light[l]) ELSE light[l]]
  <2>1. A = [l \in Lights |-> A[l]] /\ \A l \in Lights : A[l] = light[l]
    BY <1>0, RestStays DEF Calm, Resting
  <2>2. Answered(A, w)
    BY <1>8 DEF QueryStatus
  <2> HIDE DEF A
  <2> QED
    BY <1>6, <2>1, <2>2, AnsweredRests
<1>9. ASSUME NEW w \in Wires, QueryGroupStatus(w) PROVE Done
  <2> DEFINE L == Expired(light, {w})
  <2>1. light = [l \in Lights |-> light[l]] /\ Resting(light)
    BY <1>0 DEF Calm, Sane, LightsType
  <2>2. L = light
    BY <2>1, RestExpired
  <2>3. ASSUME NEW m \in Members[w] PROVE ~light[m].fadeBit
    <3>1. m \in Lights
      BY <1>9, MembersType DEF QueryGroupStatus
    <3>2. ~Fading(light[m])
      BY <2>1, <3>1, RestShow DEF Resting
    <3> QED
      BY <1>0, <3>1, <3>2 DEF Calm, Sane, Coherent
  <2>4. Answered(L, w)
    BY <1>9, <2>2, <2>3 DEF QueryGroupStatus
  <2> HIDE DEF L
  <2> QED
    BY <1>6, <2>1, <2>2, <2>4, AnsweredRests
<1>10. CASE FadeTick
  <2> DEFINE r == FadeProgress(light, group)
  <2>1. r.light = light /\ r.group = group
    BY <1>0, FadeProgressSync
  <2>2. light' = r.light /\ group' = r.group
    BY <1>10 DEF FadeTick
  <2> HIDE DEF r
  <2> QED
    BY <1>6, <2>1, <2>2
<1>11. CASE TimePasses
  <2>1. \A l \in Lights : Advance(light[l]) = light[l]
    BY <1>0, RestStays DEF Calm, Resting
  <2>2. light = [l \in Lights |-> light[l]]
    BY <1>0 DEF Calm, Sane, LightsType
  <2>3. light' = light /\ group' = group
    BY <1>11, <2>1, <2>2 DEF TimePasses
  <2> QED
    BY <1>6, <2>3
<1> QED
  BY <1>1, <1>2, <1>3, <1>4, <1>5, <1>7, <1>8, <1>9, <1>10, <1>11 DEF Next, Commands, Looks, SetArcLevel, CustomFade

LEMMA RInvTheorem == ASSUME NoFades PROVE Spec => []RInv
<1>1. Init => RInv
  <2>1. Init => \A l \in Lights : light[l].fade = NoFade
    BY DEF Init, LoadedLight
  <2> QED
    BY <2>1, InitCInv DEF RInv, Resting
<1>2. RInv /\ [Next]_vars => RInv'
  <2> SUFFICES ASSUME RInv, [Next]_vars PROVE RInv'
    OBVIOUS
  <2>1. CInv'
    BY NextCInv DEF RInv
  <2>2. CASE Next
    BY <2>1, <2>2, RestStep DEF RInv
  <2>3. CASE UNCHANGED vars
    BY <2>1, <2>3 DEF RInv, Resting, vars
  <2> QED
    BY <2>2, <2>3
<1> QED
  BY <1>1, <1>2, PTL DEF Spec

\* With no fades about, the level stored for a group keeps up with members that
\* agree, through commands on the group, on single lights, on other groups that
\* share them, and on all.
THEOREM GroupLevelsKept == ASSUME NoFades PROVE Spec => GroupLevelKept
<1>1. RInv /\ [Next]_vars =>
          [\A g \in Groups : InSync(light, group, g) => InSync(light', group', g)]_vars
  BY RestStep DEF SyncKept
<1> QED
  BY <1>1, RInvTheorem, PTL DEF Spec, GroupLevelKept

\* With no fades about, a light that counts as being in its scene is at the level
\* of the scene, stops included.
THEOREM SceneLevelsHeld == ASSUME NoFades PROVE Spec => SceneLevelHeld
<1>1. RInv /\ [op'.kind # "stop" =>
                  \A l \in Lights : HoldsScene(light[l], l) => HoldsScene(light'[l], l)]_vars
           /\ [Next]_vars =>
          [\A l \in Lights : HoldsScene(light[l], l) => HoldsScene(light'[l], l)]_vars
  BY RestStep
<1> QED
  BY <1>1, RInvTheorem, SceneLevelHeldButForStops, PTL DEF Spec, SceneLevelHeld

=============================================================================
