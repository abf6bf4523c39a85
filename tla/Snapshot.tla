------------------------------ MODULE Snapshot ------------------------------
(***************************************************************************)
(* zencontrol-dump on a running controller and the simulator started from  *)
(* the file it writes: dump_controller of dump.py asks one question after  *)
(* the other while clients go on commanding, fades run and replies get     *)
(* lost; load_world makes a world of the answers.                          *)
(*                                                                         *)
(* The file holds what the questions about changing state brought in.      *)
(* Labels, memberships, level limits and scene tables, which no command    *)
(* changes, are those of the constants.                                    *)
(***************************************************************************)
EXTENDS World, Sequences

SE == INSTANCE SequencesExt

CONSTANTS
    GroupOrder,   \* the groups in the order of their numbers
    LightOrder,   \* the lights in the order of their addresses
    FirstScene,   \* scene 0
    ColourLights, \* the lights with COLOUR_CONTROL (8) in their cg_types
    ReadColour,   \* what a colour has become once asked for, written and loaded
    MaxLost,      \* bound on the replies a dump loses
    MaxDumps,     \* bound on the dumps, one after the load of another
    MaxCommands   \* bound on the commands of others during a dump

ASSUME OrderAssumption ==
    /\ GroupOrder \in Seq(Groups) /\ SE!IsInjective(GroupOrder) /\ SE!ToSet(GroupOrder) = Groups
    /\ LightOrder \in Seq(Lights) /\ SE!IsInjective(LightOrder) /\ SE!ToSet(LightOrder) = Lights
    /\ FirstScene \in Scenes
    /\ ColourLights \subseteq Lights
    /\ ReadColour \in [Colours -> Colours \cup {NoColour}]
    /\ MaxLost \in Nat /\ MaxDumps \in Nat /\ MaxCommands \in Nat

VARIABLE dump     \* whether a dump is going on, the questions it has behind it and
                  \* its file; as history, which dump it is, the replies lost, the
                  \* commands of others and the lights that were fading when it
                  \* began or changed since

\* What the file says of a light or a group that gave no answer.
DefaultLight == [present |-> FALSE, lampOn |-> FALSE, fadeBit |-> FALSE, level |-> 0,
                 lastScene |-> FirstScene, sceneCurrent |-> FALSE, colour |-> NoColour]
EmptyFile == [light |-> [l \in Lights |-> DefaultLight], group |-> [g \in Groups |-> 0]]

Idle == [on |-> FALSE, number |-> 0, asked |-> 0, file |-> EmptyFile, lost |-> 0, commands |-> 0, busy |-> {}]

snapshotVars == <<light, group, ticked, op, emitted, dump>>
SnapshotView == <<light, group, ticked, dump>>

-----------------------------------------------------------------------------
(* The questions about changing state, in the order of dump_controller       *)

\* The colour is asked only of a light that says it controls colour.  The cg_types
\* are asked as well: to lose that answer is to lose the colour.
LightQuestions(l) ==
    << <<"status", l>>, <<"level", l>>, <<"last scene", l>>, <<"scene current", l>> >>
        \o IF l \in ColourLights THEN << <<"colour", l>> >> ELSE <<>>

Questions ==
    [k \in 1 .. Len(GroupOrder) |-> <<"group level", GroupOrder[k]>>]
        \o SE!FlattenSeq([k \in 1 .. Len(LightOrder) |-> LightQuestions(LightOrder[k])])

\* DALI_QUERY_LEVEL of a group: one without members answers 0.
GroupAnswer(L, G, g) == IF Members[g] = {} THEN 0 ELSE GroupLevel(L, G, g)

\* What the question does to the controller.
Handle(kind, w) ==
    CASE kind \in {"level", "group level"} -> QueryLevel(w)
      [] kind = "status" -> QueryStatus(w)
      [] OTHER -> Answered(light, w)

\* Colour.to_bytes, the library that asks, _colour_dict and _parse_colour each have
\* defaults of their own (kelvin 0 is answered as 3000, a channel that is not given
\* as 255), so the colour that arrives need not be the one that is set.  A light
\* without a colour does not answer.
ColourRead(c) == IF c = NoColour THEN NoColour ELSE ReadColour[c]

\* The file with the answer written in.
Recorded(file, kind, w, L, G) ==
    CASE kind = "group level"   -> [file EXCEPT !.group[w] = GroupAnswer(L, G, w)]
      [] kind = "status"        -> [file EXCEPT !.light[w].present = TRUE,
                                                !.light[w].lampOn = L[w].lampOn,
                                                !.light[w].fadeBit = L[w].fadeBit]
      [] kind = "level"         -> [file EXCEPT !.light[w].level = Visible(L[w])]
      [] kind = "last scene"    -> [file EXCEPT !.light[w].lastScene = L[w].lastScene]
      [] kind = "scene current" -> [file EXCEPT !.light[w].sceneCurrent = L[w].sceneCurrent]
      [] kind = "colour"        -> [file EXCEPT !.light[w].colour = ColourRead(L[w].colour)]

\* The lights the dump may have seen in two states.
Busy == dump.busy \cup {l \in Lights : light'[l] # light[l]}

-----------------------------------------------------------------------------
(* The dump                                                                  *)

Done == dump.on /\ dump.asked = Len(Questions)

StartDump ==
    /\ ~dump.on
    /\ dump.number < MaxDumps
    /\ dump' = [dump EXCEPT !.on = TRUE, !.number = @ + 1, !.busy = {l \in Lights : Fading(light[l])}]
    /\ UNCHANGED vars

\* One question, one answer.
Ask ==
    /\ dump.on /\ ~Done
    /\ LET kind == Questions[dump.asked + 1][1]
           w == Questions[dump.asked + 1][2]
       IN  /\ Handle(kind, w)
           /\ dump' = [dump EXCEPT !.asked = @ + 1, !.busy = Busy,
                                   !.file = Recorded(@, kind, w, light', group')]

\* The request or its reply is lost.  The file keeps the default; a light that does
\* not answer its status is skipped.
AskInVain ==
    /\ dump.on /\ ~Done
    /\ dump.lost < MaxLost
    /\ LET kind == Questions[dump.asked + 1][1]
           w == Questions[dump.asked + 1][2]
       IN  /\ Handle(kind, w) \/ UNCHANGED vars
           /\ dump' = [dump EXCEPT !.asked = @ + (IF kind = "status" THEN Len(LightQuestions(w)) ELSE 1),
                                   !.lost = @ + 1, !.busy = Busy]

\* What a step of somebody else means for the dump.
Watched(commands) ==
    dump' = IF dump.on THEN [dump EXCEPT !.busy = Busy, !.commands = @ + commands] ELSE dump

OthersCommand ==
    /\ dump.on => dump.commands < MaxCommands
    /\ Commands
    /\ Watched(1)

OthersLook == Looks /\ Watched(0)

Others == OthersCommand \/ OthersLook

-----------------------------------------------------------------------------
(* load_world on the file                                                    *)

\* Mutant: no light starts in its scene, as no group does.
LoadedOutOfScene(x) ==
    [level |-> x.level, lastActive |-> IF x.level > 0 THEN x.level ELSE MaxArc,
     lastScene |-> x.lastScene, sceneCurrent |-> FALSE, colour |-> x.colour,
     lampOn |-> x.lampOn, fadeBit |-> x.fadeBit, fade |-> NoFade]

\* The status byte is taken as it is and no fade runs.
LoadedFrom(x) ==
    [level |-> x.level, lastActive |-> IF x.level > 0 THEN x.level ELSE MaxArc,
     lastScene |-> x.lastScene, sceneCurrent |-> x.sceneCurrent, colour |-> x.colour,
     lampOn |-> x.lampOn, fadeBit |-> x.fadeBit, fade |-> NoFade]

FileLights(file) == [l \in Lights |-> LoadedFrom(file.light[l])]

\* The file has no last scene of a group.
FileGroups(file) ==
    [g \in Groups |-> [level |-> file.group[g], lastScene |-> FirstScene, sceneCurrent |-> FALSE]]

\* Another simulator is started from the file.  A file that lacks a light is the
\* world of other constants.
Load ==
    /\ Done
    /\ \A l \in Lights : dump.file.light[l].present
    /\ light' = FileLights(dump.file)
    /\ group' = FileGroups(dump.file)
    /\ ticked' = FALSE
    /\ op' = Op("load", Broadcast)
    /\ emitted' = NoEvents
    /\ dump' = [Idle EXCEPT !.number = dump.number]

SnapshotInit ==
    /\ Init
    /\ dump = Idle

SnapshotNext == StartDump \/ Ask \/ AskInVain \/ Others \/ Load

SnapshotSpec == SnapshotInit /\ [][SnapshotNext]_snapshotVars

SnapshotFairSpec == SnapshotSpec /\ LoopRuns

-----------------------------------------------------------------------------
(* Properties                                                                *)

\* What the queries of the dump report of a light.
Reported(x) ==
    [level |-> Visible(x), lampOn |-> x.lampOn, fadeBit |-> x.fadeBit,
     lastScene |-> x.lastScene, sceneCurrent |-> x.sceneCurrent, colour |-> x.colour]

\* What it reports once dumped and loaded: all the same but for the colour, which
\* is read from a light that controls colour and lost from any other, though every
\* light stores the colour it is sent and answers it.
Carried(l, x) ==
    [Reported(x) EXCEPT !.colour = IF l \in ColourLights THEN ColourRead(x.colour) ELSE NoColour]

\* The loaded world answers for a light that nobody touched during the dump what the
\* controller answers, with the colour as it is carried over, and for a group of such
\* lights as well; the level stored for that group is the one its members show.  What
\* happened to other lights does not matter.
UntouchedIsExact ==
    (Done /\ dump.lost = 0) =>
        LET L == FileLights(dump.file)
            G == FileGroups(dump.file)
        IN  /\ \A l \in Lights \ dump.busy : Reported(L[l]) = Carried(l, light[l])
            /\ \A g \in Groups : Members[g] \cap dump.busy = {} =>
                  /\ GroupAnswer(L, G, g) = GroupAnswer(light, group, g)
                  /\ InSync(L, G, g)

\* A dump that lights change under may write a status byte that does not fit the
\* level, or FADE_RUNNING for a light that will load at rest.  The next level command
\* on the light puts that right, and no step makes it wrong again.
StatusRecovers ==
    [][op'.kind # "load" =>
          \A l \in Lights :
              (Coherent(light[l]) \/ (op'.kind = "level" /\ l \in Targets[op'.wire]))
                  => Coherent(light'[l])]_snapshotVars

=============================================================================
