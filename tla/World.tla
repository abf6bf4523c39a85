------------------------------- MODULE World -------------------------------
(***************************************************************************)
(* The lighting half of the controller: class World in world.py with the   *)
(* level, scene, colour and fade handlers of handlers.py in front of it    *)
(* and the fade progress loop of server.py behind it.                      *)
(*                                                                         *)
(* The program is one asyncio event loop and no handler awaits, so every   *)
(* handler, and every run of the loop, is one action.  What interleaves is *)
(* the order of commands, queries, ticks and the passage of time.          *)
(***************************************************************************)
EXTENDS Gear

CONSTANTS
    Durations,        \* DALI_CUSTOM_FADE durations a client sends (0: at once)
    SceneFade,        \* dim_time_ms: duration of scene fades
    ProgressMin,      \* FADE_PROGRESS_MIN_MS
    ArcLevels,        \* levels a client sends
    Relatives,        \* relative level commands a client sends
    StartLevels,      \* levels of lights in the configuration file
    StartActive,      \* last_active_level there of lights that are off
    StartGroupLevels  \* levels of groups in the configuration file

ASSUME InputAssumption ==
    /\ Durations \subseteq Nat
    /\ SceneFade \in Nat
    /\ ProgressMin \in Nat
    /\ Relatives \subseteq Choices
    /\ ArcLevels \subseteq Levels \cup {Mixed}
    /\ StartLevels \subseteq Levels
    /\ StartActive \subseteq 1 .. MaxArc
    /\ StartGroupLevels \subseteq Levels \cup {Mixed}

VARIABLES
    light,    \* the gear at every address
    group,    \* stored level, last scene and scene-current flag of each group
    ticked,   \* the progress loop has run in this period
    op,       \* history: the operation of the last step and its wire
    emitted   \* history: the events the last step handed to the emitter

vars == <<light, group, ticked, op, emitted>>

\* No action reads the two history variables, and no property reads them in the
\* state before a step: states that differ only there have the same future.
Present == <<light, group, ticked>>

Op(kind, wire) == [kind |-> kind, wire |-> wire]
NoEvents == [level |-> {}, scene |-> {}, colour |-> {}]
LevelEvent(wire, cur, to) == [wire |-> wire, cur |-> cur, to |-> to]

-----------------------------------------------------------------------------
(* Reading groups.  L and G stand for the values of light and group at the  *)
(* point where the code reads them.                                         *)

\* Every light of S shows the same value of F.
Agree(S, F(_)) ==
    LET shown == {F(m) : m \in S}
    IN  \A x, y \in shown : x = y

\* Mutant: the first member speaks for the group.
GroupLevelOfFirst(L, G, g) ==
    IF Members[g] = {} THEN G[g].level ELSE Visible(L[CHOOSE m \in Members[g] : TRUE])

\* group_level: Mixed when the members disagree.
GroupLevel(L, G, g) ==
    IF Members[g] = {} THEN G[g].level
    ELSE IF Agree(Members[g], LAMBDA m : Visible(L[m]))
         THEN Visible(L[CHOOSE m \in Members[g] : TRUE])
         ELSE Mixed

\* event_prev_for_group, and the level sync_group_level leaves stored: the
\* agreed level, else the level that was stored.
EventPrev(L, G, g) ==
    LET level == GroupLevel(L, G, g)
    IN  IF level = Mixed THEN G[g].level ELSE level
SyncedLevel(L, G, g) == EventPrev(L, G, g)

\* Reading the level of a group expires the due fades of its members.
Expired(L, gs) ==
    [l \in Lights |-> IF \E g \in gs : l \in Members[g] THEN ExpireFade(L[l]) ELSE L[l]]

\* Mutant: the scene-current flag is cleared but the level is not stored again.
InvalidatedFlagOnly(L, G, w) ==
    [g \in Groups |-> IF g \in Siblings[w] THEN [G[g] EXCEPT !.sceneCurrent = FALSE] ELSE G[g]]

\* invalidate_groups_sharing, for the siblings of the wire w.
Invalidated(L, G, w) ==
    [g \in Groups |-> IF g \in Siblings[w]
                      THEN [G[g] EXCEPT !.level = SyncedLevel(L, G, g), !.sceneCurrent = FALSE]
                      ELSE G[g]]

\* One outcome of a command: what it leaves behind and what it reports.
Outcome(L, G, levels, scenes, colours) ==
    [light |-> L, group |-> G,
     events |-> [level |-> levels, scene |-> scenes, colour |-> colours]]

-----------------------------------------------------------------------------
(* World.apply_level, apply_per_light_level, apply_colour, apply_scene       *)

\* Mutant: a command on a group or on all reports that wire and not its members.
OwnReportOnly(L, L1, w) ==
    {LevelEvent(l, Visible(L[l]), Destination(L1[l])) : l \in Targets[w] \cap {w}}

\* The reports for the lights a command reached.
GearReports(L, L1, w) ==
    {LevelEvent(l, Visible(L[l]), Destination(L1[l])) : l \in Targets[w]}

ApplyLevel(L, G, w, v, duration) ==
    LET L1 == [l \in Lights |-> IF l \in Targets[w] THEN SetLevel(L[l], v, duration, w) ELSE L[l]]
        G1 == [g \in Groups |-> IF g \in Addressed[w]
                                THEN [G[g] EXCEPT !.level = ClampLevel(v), !.sceneCurrent = FALSE]
                                ELSE G[g]]
        prev(g) == IF w = Broadcast THEN G[g].level ELSE EventPrev(L, G, g)
    IN  Outcome(Expired(L1, Siblings[w]), Invalidated(L1, G1, w),
                GearReports(L, L1, w)
                    \cup {LevelEvent(g, prev(g), ClampLevel(v)) : g \in Addressed[w]},
                {}, {})

ApplyPerLightLevel(L, G, w, choice) ==
    LET L1 == [l \in Lights |-> IF l \in Targets[w]
                                THEN SetLevel(L[l], ChosenLevel(choice, l, L[l]), 0, w)
                                ELSE L[l]]
        agreed == {g \in Addressed[w] : GroupLevel(L1, G, g) # Mixed}
        G1 == [g \in Groups |-> IF g \in Addressed[w]
                                THEN [G[g] EXCEPT !.level = SyncedLevel(L1, G, g), !.sceneCurrent = FALSE]
                                ELSE G[g]]
        prev(g) == IF w = Broadcast THEN G[g].level ELSE EventPrev(L, G, g)
    IN  Outcome(Expired(L1, Addressed[w] \cup Siblings[w]), Invalidated(L1, G1, w),
                GearReports(L, L1, w)
                    \cup {LevelEvent(g, prev(g), GroupLevel(L1, G, g)) : g \in agreed},
                {}, {})

ApplyColour(L, G, w, c) ==
    LET L1 == [l \in Lights |-> IF l \in Targets[w] THEN SetColour(L[l], c) ELSE L[l]]
        G1 == [g \in Groups |-> IF g \in Addressed[w]
                                THEN [G[g] EXCEPT !.sceneCurrent = FALSE] ELSE G[g]]
    IN  Outcome(Expired(L1, Siblings[w]), Invalidated(L1, G1, w), {}, {},
                {[wire |-> x, colour |-> c] : x \in Targets[w] \cup Addressed[w]})

\* agreed_member_colour: the colour every coloured member has, if there is one.
AgreedColours(L, g) ==
    LET cs == {L[m].colour : m \in Members[g]} \ {NoColour}
    IN  {c \in cs : cs = {c}}

ApplyScene(L, G, w, s, duration) ==
    LET L1 == [l \in Lights |-> IF l \in Targets[w] THEN RecallScene(l, L[l], s, duration, w) ELSE L[l]]
        G1 == [g \in Groups |-> IF g \in Addressed[w]
                                THEN [level |-> SyncedLevel(L1, G, g), lastScene |-> s, sceneCurrent |-> TRUE]
                                ELSE G[g]]
        prev(g) == EventPrev(IF w = Broadcast THEN L1 ELSE L, G, g)
        unanimous == {g \in Addressed[w] : Members[g] # {} /\ Agree(Members[g], LAMBDA m : Destination(L1[m]))}
        coloured == {l \in Lights : SceneColour[l][s] # NoColour}
    IN  Outcome(Expired(L1, Addressed[w] \cup Siblings[w]), Invalidated(L1, G1, w),
                GearReports(L, L1, w)
                    \cup {LevelEvent(g, prev(g), Destination(L1[CHOOSE m \in Members[g] : TRUE])) : g \in unanimous},
                Targets[w] \cup Addressed[w],
                {[wire |-> l, colour |-> L1[l].colour] : l \in Targets[w] \cap coloured}
                    \cup UNION {{[wire |-> g, colour |-> c] : c \in AgreedColours(L1, g)} :
                                   g \in {h \in Addressed[w] : Members[h] \cap coloured # {}}})

-----------------------------------------------------------------------------
(* World.clear_fade and World.collect_fade_progress                          *)

\* Mutant: a stop on any wire that reaches the light stops its fade.
StartedAnywhere(x, w) == Fading(x)

\* Only fades that were started on the wire w are stopped.
StartedOn(x, w) == Fading(x) /\ x.fade.origin = w

StopFadeOn(L, G, w) ==
    LET stopped == {l \in Targets[w] : StartedOn(L[l], w)}
        L1 == [l \in Lights |-> IF l \in stopped THEN Freeze(L[l]) ELSE L[l]]
        touched == IF w = Broadcast THEN Groups
                   ELSE IF stopped = {} THEN {}
                   ELSE IF w \in Groups THEN {w} ELSE Siblings[w]
        agreed == {g \in touched : GroupLevel(L1, G, g) # Mixed}
        cleared == IF w \in Lights THEN touched
                   ELSE IF w \in Groups THEN touched \ agreed ELSE {}
        G1 == [g \in Groups |-> IF g \in touched
                                THEN [G[g] EXCEPT !.level = SyncedLevel(L1, G, g),
                                                  !.sceneCurrent = @ /\ g \notin cleared]
                                ELSE G[g]]
        reporting == IF w \in Lights THEN {}
                     ELSE {g \in agreed : w = Broadcast => GroupLevel(L1, G, g) # G[g].level}
    IN  Outcome(Expired(L1, touched), G1,
                {LevelEvent(l, Visible(L[l]), L1[l].level) : l \in stopped}
                    \cup {LevelEvent(g, G[g].level, GroupLevel(L1, G, g)) : g \in reporting},
                {}, {})

\* Mutant: short fades are left out for good.
LongFade(x) == Fading(x) /\ x.fade.total > ProgressMin

\* Long fades are reported on every tick, others when the tick finds them due.
Reportable(x) == Fading(x) /\ (Due(x) \/ x.fade.total > ProgressMin)

\* A group wire is reported when its members among the fades of one origin
\* agree, once for its own fades and once for those of a broadcast.
FadeProgress(L, G) ==
    LET pending == {l \in Lights : Reportable(L[l])}
        L1 == [l \in Lights |-> IF l \in pending THEN ExpireFade(L[l]) ELSE L[l]]
        pool(g, origin) == {l \in pending \cap Members[g] : L[l].fade.origin = origin}
        report(l) == [cur |-> Visible(L1[l]), to |-> Destination(L1[l])]
        agreed(g, origin) == pool(g, origin) # {} /\ Agree(pool(g, origin), report)
        what(g, origin) == report(CHOOSE l \in pool(g, origin) : TRUE)
        complete(g, origin) == agreed(g, origin) /\ what(g, origin).cur = what(g, origin).to
        G1 == [g \in Groups |->
                 IF complete(g, Broadcast) THEN [G[g] EXCEPT !.level = what(g, Broadcast).to]
                 ELSE IF complete(g, g) THEN [G[g] EXCEPT !.level = what(g, g).to]
                 ELSE G[g]]
    IN  Outcome(L1, G1,
                {LevelEvent(l, report(l).cur, report(l).to) : l \in pending}
                    \cup UNION {{LevelEvent(g, what(g, o).cur, what(g, o).to) :
                                    o \in {p \in {g, Broadcast} : agreed(g, p)}} : g \in Groups},
                {}, {})

-----------------------------------------------------------------------------
(* Initial states: what load_world makes of a configuration file whose       *)
(* status bytes agree with its levels, as those of both shipped files do.    *)

LoadedLight ==
    {[level |-> v, lastActive |-> IF v > 0 THEN v ELSE r,
      lastScene |-> s, sceneCurrent |-> c, colour |-> k,
      lampOn |-> v > 0, fadeBit |-> FALSE, fade |-> NoFade] :
        v \in StartLevels, r \in StartActive, s \in Scenes, c \in BOOLEAN, k \in Colours \cup {NoColour}}

LoadedGroup ==
    {[level |-> v, lastScene |-> s, sceneCurrent |-> FALSE] :
        v \in StartGroupLevels, s \in {CHOOSE s \in Scenes : TRUE}}

Init ==
    /\ light \in [Lights -> LoadedLight]
    /\ group \in [Groups -> LoadedGroup]
    /\ ticked = FALSE
    /\ op = Op("load", Broadcast)
    /\ emitted = NoEvents

-----------------------------------------------------------------------------
(* Commands.  A wire that names no light and no group is refused before any  *)
(* of this (_check_level_target), so w ranges over the wires that exist.     *)

Commit(outcome, kind, w) ==
    /\ light' = outcome.light
    /\ group' = outcome.group
    /\ emitted' = outcome.events
    /\ op' = Op(kind, w)
    /\ UNCHANGED ticked

\* DALI_ARC_LEVEL and, with level 0, DALI_OFF.
SetArcLevel(w, v) == Commit(ApplyLevel(light, group, w, v, 0), "level", w)

\* DALI_CUSTOM_FADE
CustomFade(w, v, duration) == Commit(ApplyLevel(light, group, w, v, duration), "level", w)

\* RECALL_MAX, RECALL_MIN, GO_TO_LAST_ACTIVE_LEVEL and the four step commands.
Relative(w, choice) == Commit(ApplyPerLightLevel(light, group, w, choice), "level", w)

\* DALI_SCENE: scenes fade over dim_time_ms.
RecallSceneOn(w, s) == Commit(ApplyScene(light, group, w, s, SceneFade), "scene", w)

\* DALI_COLOUR: the colour and then, unless it is 255, the level, in one handler.
DaliColour(w, c, v) ==
    LET first == ApplyColour(light, group, w, c)
        second == ApplyLevel(first.light, first.group, w, v, 0)
    IN  IF v = Mixed THEN Commit(first, "colour", w)
        ELSE Commit([second EXCEPT !.events.colour = first.events.colour], "colour", w)

\* DALI_STOP_FADE
StopFade(w) == Commit(StopFadeOn(light, group, w), "stop", w)

-----------------------------------------------------------------------------
(* Queries.  They report the visible level and take away fades that are due. *)

Answered(L, w) == Commit(Outcome(L, group, {}, {}, {}), "query", w)

\* DALI_QUERY_LEVEL of a light or a group, QUERY_GROUP_BY_NUMBER.
QueryLevel(w) ==
    /\ w # Broadcast
    /\ Answered([l \in Lights |-> IF l \in Targets[w] THEN ExpireFade(light[l]) ELSE light[l]], w)

\* DALI_QUERY_FADE_RUNNING, and DALI_QUERY_CONTROL_GEAR_STATUS of a light and
\* of the broadcast wire, refresh the status of every target.
QueryStatus(w) ==
    /\ w \notin Groups
    /\ Answered([l \in Lights |-> IF l \in Targets[w] THEN RefreshStatus(light[l]) ELSE light[l]], w)

\* The status of a group stops refreshing at its first member with FADE_RUNNING set;
\* which one that is depends on the order of the lights in the file.  The members
\* before it are not fading: their status is as it was.
QueryGroupStatus(w) ==
    /\ w \in Groups
    /\ LET L == Expired(light, {w})
           running == {m \in Members[w] : L[m].fadeBit}
       IN  \/ /\ running = {}
              /\ Answered(L, w)
           \/ \E m \in running : Answered([L EXCEPT ![m] = RefreshStatus(@)], w)

-----------------------------------------------------------------------------
(* The fade progress loop and the clock.                                     *)

\* tick_fade_progress runs once in a period, at any point of it.
FadeTick ==
    /\ ~ticked
    /\ LET r == FadeProgress(light, group)
       IN  /\ light' = r.light
           /\ group' = r.group
           /\ emitted' = r.events
    /\ op' = Op("tick", Broadcast)
    /\ ticked' = TRUE

TimePasses ==
    /\ light' = [l \in Lights |-> Advance(light[l])]
    /\ op' = Op("time", Broadcast)
    /\ emitted' = NoEvents
    /\ ticked' = FALSE
    /\ UNCHANGED group

Commands == \E w \in Wires :
    \/ \E v \in ArcLevels : SetArcLevel(w, v)
    \/ \E v \in ArcLevels, d \in Durations : CustomFade(w, v, d)
    \/ \E choice \in Relatives : Relative(w, choice)
    \/ \E s \in Scenes : RecallSceneOn(w, s)
    \/ \E c \in Colours, v \in ArcLevels \cup {Mixed} : DaliColour(w, c, v)
    \/ StopFade(w)

\* Whoever looks at the lights may find that a fade is over.
Looks ==
    \/ \E w \in Wires : QueryLevel(w) \/ QueryStatus(w) \/ QueryGroupStatus(w)
    \/ FadeTick
    \/ TimePasses

Next == Commands \/ Looks

Spec == Init /\ [][Next]_vars

\* The event loop always comes back to the progress loop, and time passes.  Only
\* FadeTick sets ticked and only TimePasses clears it for good, so this is weak
\* fairness of both.
LoopRuns == []<>ticked /\ []<>(~ticked)

FairSpec == Spec /\ LoopRuns

-----------------------------------------------------------------------------
(* What must hold of every state                                             *)

GroupType == [level : Levels \cup {Mixed}, lastScene : Scenes, sceneCurrent : BOOLEAN]

\* The values the fields of World, Light and Group take.
TypeOK ==
    /\ light \in [Lights -> GearType]
    /\ group \in [Groups -> GroupType]
    /\ ticked \in BOOLEAN

\* A group answers DALI_QUERY_LAST_SCENE_IS_CURRENT with true only while each of
\* its members does and names the same scene: whatever wire a level, a colour or
\* another scene came in on, it invalidated this group too.
GroupSceneAgrees ==
    \A g \in Groups : group[g].sceneCurrent =>
        \A m \in Members[g] : /\ light[m].sceneCurrent
                              /\ light[m].lastScene = group[g].lastScene

\* The status byte tells the truth about fades and lamps.
StatusCoherent == \A l \in Lights : Coherent(light[l])

-----------------------------------------------------------------------------
(* What no step may do                                                       *)

Between(x, a, b) == (a <= x /\ x <= b) \/ (b <= x /\ x <= a)

\* Nobody sees a lamp jump when its fade starts or ends: a command that leaves it
\* fading, over another fade or not, expiring a fade in a query, completing it in a
\* tick and freezing it leave the visible level where it is, and time only moves it
\* towards the target.
FadesAreSmooth ==
    [][\A l \in Lights :
          /\ op'.kind \in {"query", "tick", "stop"} => Visible(light'[l]) = Visible(light[l])
          /\ (op'.kind \in {"level", "scene", "colour"} /\ Fading(light'[l])) =>
                Visible(light'[l]) = Visible(light[l])
          /\ op'.kind = "time" =>
                Between(Visible(light'[l]), Visible(light[l]), Destination(light[l]))]_vars

\* A fade that is not due is touched only by a command whose wire reaches the
\* light; STOP_FADE must come in on the wire that started it.
FadeHasOneOwner ==
    [][\A l \in Lights :
          (/\ Fading(light[l]) /\ ~Due(light[l])
           /\ op'.kind # "time"
           /\ light'[l].fade # light[l].fade) =>
              /\ op'.kind \in {"level", "scene", "colour", "stop"}
              /\ l \in Targets[op'.wire]
              /\ op'.kind = "stop" => op'.wire = light[l].fade.origin]_vars

\* A light never changes its destination silently: a LEVEL_CHANGE_V2 on its own
\* wire announces the new one in the same step, whichever wire commanded it.
NoSilentChange ==
    [][\A l \in Lights :
          Destination(light'[l]) # Destination(light[l]) =>
              \E e \in emitted'.level : e.wire = l /\ e.to = Destination(light'[l])]_vars

\* When a command announces a target on the wire of a group, that is where every
\* member of the group is heading.
GroupTargetIsShared ==
    [][op'.kind \in {"level", "scene", "colour"} =>
          \A e \in emitted'.level : e.wire \in Groups =>
              \A m \in Members[e.wire] : Destination(light'[m]) = e.to]_vars

\* The tick that finds a fade due ends it and reports the completion.
TickCompletes ==
    [][op'.kind = "tick" =>
          \A l \in Lights : Due(light[l]) =>
              /\ ~Fading(light'[l])
              /\ LevelEvent(l, light[l].fade.to, light[l].fade.to) \in emitted'.level]_vars

\* SCENE_IS_CURRENT survives only commands that keep the light at the level of
\* its scene.
HoldsScene(x, l) ==
    (x.sceneCurrent /\ SceneLevel[l][x.lastScene] # NoLevel) => x.level = SceneLevel[l][x.lastScene]

SceneLevelHeld == [][\A l \in Lights : HoldsScene(light[l], l) => HoldsScene(light'[l], l)]_vars

\* The level stored for a group keeps up with members that agree.
InSync(L, G, g) == GroupLevel(L, G, g) # Mixed => G[g].level = GroupLevel(L, G, g)

GroupLevelKept == [][\A g \in Groups : InSync(light, group, g) => InSync(light', group', g)]_vars

\* Every fade ends, by itself unless commands start new ones for ever.
FadesEnd == \A l \in Lights : []<>(~Fading(light[l]) \/ light[l].fade.elapsed = 0)

-----------------------------------------------------------------------------
(* What the documentation says of the program                                *)

\* collect_fade_progress: "Completions (current == target) are always emitted
\* when a fade expires."
CompletionsReported ==
    [][\A l \in Lights :
          (Due(light[l]) /\ ~Fading(light'[l]) /\ op'.kind \in {"query", "tick"}) =>
              LevelEvent(l, light[l].fade.to, light[l].fade.to) \in emitted'.level]_vars

\* DALI_STOP_FADE "will stop any direct arc or scene fades current on the device":
\* after it, no target is fading to the level of the scene it has current.
StopEndsSceneFades ==
    [][op'.kind = "stop" =>
          \A l \in Targets[op'.wire] :
              (/\ Fading(light[l]) /\ ~Due(light[l])
               /\ light[l].sceneCurrent
               /\ light[l].fade.to = SceneLevel[l][light[l].lastScene])
              => ~Fading(light'[l])]_vars

=============================================================================
