------------------------------ MODULE MCSnapshot ------------------------------
(***************************************************************************)
(* A small instance of Snapshot: two lights in one group, with one scene.  *)
(***************************************************************************)
EXTENDS Snapshot

CONSTANTS a, b, gBoth, s0, k0

MCGroupOrder == <<gBoth>>
MCLightOrder == <<b, a>>

MCMemberOf == [l \in Lights |-> {gBoth}]

MCMinLevel == [l \in Lights |-> 1]
MCMaxLevel == [l \in Lights |-> MaxArc]

\* The scene fades a out and leaves the level of b alone.
MCSceneLevel == [l \in Lights |-> [s \in Scenes |-> IF l = a THEN 0 ELSE NoLevel]]
MCSceneColour == [l \in Lights |-> [s \in Scenes |-> NoColour]]

\* a controls colour and b does not; k0 comes out of the file as it went in.
MCColourLights == {a}
MCReadColour == [c \in Colours |-> c]

=============================================================================
