-------------------------------- MODULE Gear --------------------------------
(***************************************************************************)
(* One control gear (class Light in world.py) and the wires that address   *)
(* it.  A gear is a record; the methods of Light are operators from a gear *)
(* to the gear the method leaves behind.                                   *)
(*                                                                         *)
(* Time.  The code compares time.time() with absolute deadlines; only      *)
(* differences matter, so a running fade carries how long it lasts (total) *)
(* and how much of that has passed (elapsed, which stops at total).  The   *)
(* unit is one period of the fade progress loop.                           *)
(***************************************************************************)
EXTENDS Integers

CONSTANTS
    Lights,       \* addresses of the control gear (ECG wires 0-63)
    Groups,       \* group numbers (wires 64-79)
    Broadcast,    \* wire 255
    MemberOf,     \* light.groups of every light
    MaxArc,       \* highest arc level, 254 in the code
    MinLevel,     \* min_level of every light
    MaxLevel,     \* max_level of every light
    Scenes,       \* scene numbers
    SceneLevel,   \* scene_levels of every light
    SceneColour,  \* scene_colours of every light
    NoLevel,      \* a scene that leaves the level of a light alone
    Colours,      \* colours a client may send
    NoColour      \* a light, or a scene, without a colour

Levels == 0 .. MaxArc
Mixed == MaxArc + 1      \* 255: the members of a group disagree

Wires == Lights \cup Groups \cup {Broadcast}

ASSUME WiresAssumption ==
    /\ Lights \cap Groups = {}
    /\ Broadcast \notin Lights \cup Groups
    /\ MemberOf \in [Lights -> SUBSET Groups]

ASSUME LevelAssumption ==
    /\ MaxArc \in Nat \ {0}
    /\ NoLevel \notin Levels
    /\ MinLevel \in [Lights -> Levels]
    /\ MaxLevel \in [Lights -> Levels]

ASSUME SceneAssumption ==
    /\ Scenes # {}
    /\ NoColour \notin Colours
    /\ SceneLevel \in [Lights -> [Scenes -> Levels \cup {NoLevel}]]
    /\ SceneColour \in [Lights -> [Scenes -> Colours \cup {NoColour}]]

-----------------------------------------------------------------------------
(* Wires *)

Members == [g \in Groups |-> {l \in Lights : g \in MemberOf[l]}]

\* The lights a command on a wire reaches.
Targets == [w \in Wires |-> IF w = Broadcast THEN Lights
                            ELSE IF w \in Groups THEN Members[w] ELSE {w}]

\* The groups a command on a wire addresses: all of them, itself, or none.
Addressed == [w \in Wires |-> IF w = Broadcast THEN Groups ELSE Groups \cap {w}]

\* Mutant: a command on a group forgets that its members may be in others.
SiblingsOfLightsOnly ==
    [w \in Wires |-> IF w \in Lights THEN MemberOf[w] ELSE {}]

\* The other groups of the lights a command reaches.  A broadcast
\* addresses every group and has no siblings.
Siblings ==
    [w \in Wires |->
        IF w = Broadcast THEN {}
        ELSE {g \in Groups \ {w} : \E l \in Targets[w] : g \in MemberOf[l]}]

-----------------------------------------------------------------------------
(* Fades *)

\* The fade fields of a light that is not fading.  They are set together and
\* cleared together; total = 0 stands for fading_until = None.
NoFade == [from |-> 0, to |-> 0, origin |-> Broadcast, total |-> 0, elapsed |-> 0]

FadeTo(from, to, origin, total) ==
    [from |-> from, to |-> to, origin |-> origin, total |-> total, elapsed |-> 0]

FadeType == [from : Levels, to : Levels, origin : Wires, total : Nat, elapsed : Nat]

GearType ==
    [level : Levels, lastActive : 1 .. MaxArc, lastScene : Scenes, sceneCurrent : BOOLEAN,
     colour : Colours \cup {NoColour}, lampOn : BOOLEAN, fadeBit : BOOLEAN, fade : FadeType]

Fading(x) == x.fade.total > 0
Due(x) == Fading(x) /\ x.fade.elapsed >= x.fade.total

\* int(round(n / d)): the nearest integer, a tie going to the even one.
RoundDiv(n, d) ==
    LET q == n \div d
        r == n % d
    IN  IF 2 * r > d \/ (2 * r = d /\ q % 2 = 1) THEN q + 1 ELSE q

Interpolate(from, to, elapsed, total) ==
    RoundDiv(from * (total - elapsed) + to * elapsed, total)

\* visible_level: the level a query reports, interpolated during a fade.
Visible(x) ==
    IF ~Fading(x) THEN x.level
    ELSE IF Due(x) THEN x.fade.to
    ELSE Interpolate(x.fade.from, x.fade.to, x.fade.elapsed, x.fade.total)

\* destination_level: where the light is heading.
Destination(x) == IF Fading(x) THEN x.fade.to ELSE x.level

\* One period passes for a light.
Advance(x) ==
    IF Fading(x) /\ ~Due(x) THEN [x EXCEPT !.fade = [x.fade EXCEPT !.elapsed = x.fade.elapsed + 1]] ELSE x

\* Mutant: the status byte keeps FADE_RUNNING.
ExpireFadeKeepBit(x) ==
    IF Due(x) THEN [x EXCEPT !.level = x.fade.to, !.fade = NoFade, !.lampOn = x.fade.to > 0] ELSE x

\* _expire_fade_if_due: whoever reads the level of a light first after the
\* deadline takes the fade away.
ExpireFade(x) ==
    IF Due(x)
    THEN [x EXCEPT !.level = x.fade.to, !.fade = NoFade,
                   !.fadeBit = FALSE, !.lampOn = x.fade.to > 0]
    ELSE x

\* refresh_status: the lamp bit follows the visible level during a fade.
RefreshStatus(x) ==
    LET y == ExpireFade(x)
    IN  IF Fading(y) THEN [y EXCEPT !.lampOn = Visible(y) > 0] ELSE y

\* clear_fade(freeze=True): stop where the light is now.
Freeze(x) ==
    IF Fading(x)
    THEN [x EXCEPT !.level = Visible(x), !.fade = NoFade,
                   !.fadeBit = FALSE, !.lampOn = Visible(x) > 0]
    ELSE x

\* FADE_RUNNING is set exactly while the fade fields are, a running fade has the
\* stored level as its target, and the lamp bit of a light at rest is that of its
\* level.
Coherent(x) ==
    /\ x.fadeBit <=> Fading(x)
    /\ Fading(x) => /\ x.level = x.fade.to
                    /\ x.fade.elapsed <= x.fade.total
    /\ ~Fading(x) => (x.lampOn <=> x.level > 0)

-----------------------------------------------------------------------------
(* Commands on one light *)

\* Mutant: no upper bound, so 255 is stored.
ClampAtZero(v) == IF v < 0 THEN 0 ELSE v

ClampLevel(v) == IF v < 0 THEN 0 ELSE IF v > MaxArc THEN MaxArc ELSE v

\* Mutant: the light still counts as being in its last scene.
SetLevelKeepScene(x, v, duration, origin) ==
    LET to == ClampLevel(v)
    IN  [x EXCEPT !.level = to, !.lastActive = IF to > 0 THEN to ELSE @,
                  !.fade = IF duration > 0 THEN FadeTo(Visible(x), to, origin, duration) ELSE NoFade,
                  !.fadeBit = duration > 0,
                  !.lampOn = IF duration > 0 THEN Visible(x) > 0 ELSE to > 0]

\* Mutant: a fade starts from the stored level, where a running one was heading.
SetLevelFromStored(x, v, duration, origin) ==
    LET to == ClampLevel(v)
    IN  [x EXCEPT !.level = to, !.lastActive = IF to > 0 THEN to ELSE @, !.sceneCurrent = FALSE,
                  !.fade = IF duration > 0 THEN FadeTo(x.level, to, origin, duration) ELSE NoFade,
                  !.fadeBit = duration > 0,
                  !.lampOn = IF duration > 0 THEN x.level > 0 ELSE to > 0]

\* Light.set_level: level is the destination from the first instant of a fade
\* on, and the lamp bit the visible level the fade starts at.
SetLevel(x, v, duration, origin) ==
    LET to == ClampLevel(v)
        from == Visible(x)
        fades == duration > 0
    IN  [x EXCEPT !.level = to,
                  !.lastActive = IF to > 0 THEN to ELSE @,
                  !.sceneCurrent = FALSE,
                  !.fade = IF fades THEN FadeTo(from, to, origin, duration) ELSE NoFade,
                  !.fadeBit = fades,
                  !.lampOn = (IF fades THEN from ELSE to) > 0]

SetColour(x, c) == [x EXCEPT !.colour = c, !.sceneCurrent = FALSE]

\* Mutant: the flag set_level cleared is not set again.
RecallSceneFlagFirst(l, x, s, duration, origin) ==
    LET y == [ExpireFade(x) EXCEPT !.lastScene = s, !.sceneCurrent = TRUE]
        z == IF SceneLevel[l][s] = NoLevel THEN y
             ELSE SetLevel(y, SceneLevel[l][s], duration, origin)
    IN  [z EXCEPT !.colour = IF SceneColour[l][s] = NoColour THEN @ ELSE SceneColour[l][s]]

\* _apply_ecg and Light.apply_scene: a scene without a level leaves the level,
\* and a fade that is still running, alone.
RecallScene(l, x, s, duration, origin) ==
    LET y == ExpireFade(x)
        z == IF SceneLevel[l][s] = NoLevel THEN y
             ELSE SetLevel(y, SceneLevel[l][s], duration, origin)
    IN  [z EXCEPT !.lastScene = s, !.sceneCurrent = TRUE,
                  !.colour = IF SceneColour[l][s] = NoColour THEN @ ELSE SceneColour[l][s]]

-----------------------------------------------------------------------------
(* Per-light level choices of the relative commands *)

Choices == {"recall_max", "recall_min", "last_active",
            "on_step_up", "step_down_off", "up", "down"}

\* choose() in _step.  Only ON_STEP_UP lights a lamp that is off and only
\* STEP_DOWN_OFF puts one out at its minimum.
StepLevel(l, x, delta, onIfOff, offAtMin) ==
    LET current == Visible(x)
        target == current + delta
        low == MinLevel[l]
        capped == IF target > MaxLevel[l] THEN MaxLevel[l] ELSE target
    IN  IF current = 0 THEN (IF ~onIfOff THEN 0 ELSE IF low > 1 THEN low ELSE 1)
        ELSE IF current <= low /\ offAtMin THEN 0
        ELSE IF current <= low /\ delta < 0 THEN current
        ELSE IF target <= 0 THEN (IF offAtMin THEN 0 ELSE low)
        ELSE IF capped < low THEN low ELSE capped

ChosenLevel(choice, l, x) ==
    CASE choice = "recall_max"    -> MaxLevel[l]
      [] choice = "recall_min"    -> MinLevel[l]
      [] choice = "last_active"   -> IF x.lastActive = 0 THEN MaxArc ELSE x.lastActive
      [] choice = "on_step_up"    -> StepLevel(l, x, 1, TRUE, FALSE)
      [] choice = "step_down_off" -> StepLevel(l, x, -1, FALSE, TRUE)
      [] choice = "up"            -> StepLevel(l, x, 1, FALSE, FALSE)
      [] choice = "down"          -> StepLevel(l, x, -1, FALSE, FALSE)

=============================================================================
