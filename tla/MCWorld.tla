------------------------------ MODULE MCWorld ------------------------------
(***************************************************************************)
(* Small instances of World: two lights, a group of both and a group of    *)
(* one of them.                                                            *)
(***************************************************************************)
EXTENDS World

CONSTANTS a, b, gBoth, gOne, s0, s1

\* b is in two groups, so its commands reach a sibling group.
MCMemberOf == [l \in Lights |-> IF l = b THEN {gBoth, gOne} ELSE {gBoth}]

MCMinLevel == [l \in Lights |-> IF l = b /\ MaxArc > 2 THEN 2 ELSE 1]
MCMaxLevel == [l \in Lights |-> IF l = b THEN MaxArc - 1 ELSE MaxArc]

\* Scene s0 sets both lights; s1 turns a off and has only a colour for b.
MCSceneLevel ==
    [l \in Lights |-> [s \in Scenes |->
        IF s = s0 THEN MaxArc - 1 ELSE IF l = a THEN 0 ELSE NoLevel]]

MCSceneColour ==
    [l \in Lights |-> [s \in Scenes |->
        IF s = s1 /\ Colours # {} THEN CHOOSE c \in Colours : TRUE ELSE NoColour]]

=============================================================================
