\* A hold longer than the sleep of the loop, and a loop that may wake late.
CONSTANTS
    s1 = s1
    s2 = s2
    g1 = g1
    g2 = g2
    g3 = g3
    Sensors = {s1, s2}
    Groups = {g1, g2, g3}
    Targets <- MCTargets
    Keepalive <- MCKeepalive
    Period = 3
    Cap = 4
    Hold = 5
    Late = 2
SPECIFICATION Spec
INVARIANTS TypeOK ReleasedInTime
PROPERTIES HeldLongEnough AnnouncesChanges OnlyMotionRestarts
VIEW Present
