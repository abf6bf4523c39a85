------------------------------ MODULE Occupancy ------------------------------
(***************************************************************************)
(* Occupancy: sensors whose motion is injected, the hold time of the       *)
(* groups they target (World.mark_group_occupied and                       *)
(* expire_group_occupancy), the keepalive and the loop that releases       *)
(* groups.  Motion, keepalive, loop and clock interleave in the event      *)
(* loop; the release loop wakes late when the event loop is busy.          *)
(***************************************************************************)
EXTENDS Naturals, FiniteSets

CONSTANTS
    Sensors,       \* instances of type occupancy sensor
    Groups,        \* numbers of World.groups
    Targets,       \* the groups in the three slots of Instance.groups; 0xFF and
                   \* groups the world does not have are left out
    Keepalive,     \* World.heartbeat_target, a set of at most one sensor
    Hold,          \* World.seconds_to_unoccupied
    Period,        \* GROUP_OCCUPANCY_INTERVAL_S
    Late,          \* bound on how late the event loop wakes the loop
    Cap            \* largest time since the last motion, 65535 in the code

ASSUME OccupancyAssumption ==
    /\ Targets \in [Sensors -> SUBSET Groups]
    /\ Keepalive \subseteq Sensors
    /\ Hold \in Nat /\ Period \in Nat \ {0} /\ Late \in Nat /\ Cap \in Nat

VARIABLES
    since,       \* seconds since Instance.timers.last_motion_at, up to Cap
    occupied,    \* groups whose occupied_until is not None
    left,        \* time until occupied_until, 0 once it has passed
    wake,        \* time until the release loop runs at the latest
    idle,        \* history: time since a sensor of the group saw motion
    op,          \* history: the last step
    news         \* history: the group events of the last step

vars == <<since, occupied, left, wake, idle, op, news>>
Present == <<since, occupied, left, wake, idle>>

\* idle counts no further than this.
Limit == Hold + Period + Late + 1

AtMost(bound, n) == IF n > bound THEN bound ELSE n
Less(n) == IF n = 0 THEN 0 ELSE n - 1

\* The file may give a sensor any time since its last motion.
Init ==
    /\ since \in [Sensors -> 0..Cap]
    /\ occupied = {}
    /\ left = [g \in Groups |-> 0]
    /\ wake = Period + Late
    /\ idle = [g \in Groups |-> Limit]
    /\ op = [kind |-> "start"]
    /\ news = {}

\* Mutant: an event that is no motion restarts the clock of the sensor.
NotedAlways(s, moved) == [since EXCEPT ![s] = 0]

\* note_motion is skipped for a raw event.
Noted(s, moved) == IF moved THEN [since EXCEPT ![s] = 0] ELSE since

\* Mutant: every motion is announced for the groups of the sensor.
NewlyAlways(gs) == gs

\* mark_group_occupied answers True for these.
Newly(gs) == gs \ occupied

\* Mutant: a motion during the hold leaves the first deadline standing.
HeldOnce(gs) == [g \in Groups |-> IF g \in gs \ occupied THEN Hold ELSE left[g]]

\* Mutant: a motion during the hold adds to what is left.
HeldLonger(gs) == [g \in Groups |-> IF g \in gs THEN left[g] + Hold ELSE left[g]]

\* Mutant: the deadline allows for the sleep of the loop.
HeldForSleep(gs) == [g \in Groups |-> IF g \in gs THEN Hold + Period ELSE left[g]]

\* Every motion sets the deadline anew.
Held(gs) == [g \in Groups |-> IF g \in gs THEN Hold ELSE left[g]]

\* EventEmitter.occupancy: a motion, or a raw event that only looks like one.
Motion(s, moved) ==
    LET gs == IF moved THEN Targets[s] ELSE {}
    IN  /\ since' = Noted(s, moved)
        /\ occupied' = occupied \cup gs
        /\ left' = Held(gs)
        /\ idle' = [g \in Groups |-> IF g \in gs THEN 0 ELSE idle[g]]
        /\ news' = Newly(gs) \X {TRUE}
        /\ op' = [kind |-> "motion", sensor |-> s, moved |-> moved]
        /\ UNCHANGED wake

\* occupancy_heartbeat sends the event of a motion and touches no timer.
Heartbeat ==
    \E s \in Keepalive :
        /\ op' = [kind |-> "heartbeat", sensor |-> s]
        /\ news' = {}
        /\ UNCHANGED <<since, occupied, left, wake, idle>>

\* The loop slept for Period and releases the groups whose hold has elapsed.
OccupancyTick ==
    LET expired == {g \in occupied : left[g] = 0}
    IN  /\ wake <= Late
        /\ occupied' = occupied \ expired
        /\ news' = expired \X {FALSE}
        /\ wake' = Period + Late
        /\ op' = [kind |-> "tick"]
        /\ UNCHANGED <<since, left, idle>>

TimePasses ==
    /\ wake > 0
    /\ wake' = wake - 1
    /\ since' = [s \in Sensors |-> AtMost(Cap, since[s] + 1)]
    /\ left' = [g \in Groups |-> Less(left[g])]
    /\ idle' = [g \in Groups |-> AtMost(Limit, idle[g] + 1)]
    /\ op' = [kind |-> "time"]
    /\ news' = {}
    /\ UNCHANGED occupied

Next ==
    \/ \E s \in Sensors, moved \in BOOLEAN : Motion(s, moved)
    \/ Heartbeat
    \/ OccupancyTick
    \/ TimePasses

Spec == Init /\ [][Next]_vars

-----------------------------------------------------------------------------
(* Properties                                                                *)

TypeOK ==
    /\ since \in [Sensors -> 0..Cap]
    /\ occupied \subseteq Groups
    /\ left \in [Groups -> 0..Hold]
    /\ wake \in 0..(Period + Late)
    /\ idle \in [Groups -> 0..Limit]

\* A group that lost its last motion is released before the next run of the
\* loop ends: it is never occupied for longer than its hold and one sleep of the
\* loop after the last motion of any of its sensors.
ReleasedInTime == \A g \in occupied : idle[g] <= Hold + Period + Late

\* A group is announced as not occupied only when no sensor that targets it saw
\* motion for the whole hold, whatever sensor began it.
HeldLongEnough == [][\A g \in Groups : <<g, FALSE>> \in news' => idle[g] >= Hold]_vars

\* A group event is sent on changes only, and on every change: "Does not send
\* occupied on every trigger from sensor, only on state changes."
AnnouncesChanges ==
    [][news' = ((occupied' \ occupied) \X {TRUE}) \cup ((occupied \ occupied') \X {FALSE})]_vars

\* Keepalives and raw events restart neither the clock of a sensor nor the hold
\* of a group; motion restarts those of its own sensor and groups.
OnlyMotionRestarts ==
    [][/\ \A s \in Sensors : since'[s] < since[s] =>
             op'.kind = "motion" /\ op'.sensor = s /\ op'.moved
       /\ \A g \in Groups : left'[g] > left[g] =>
             op'.kind = "motion" /\ op'.moved /\ g \in Targets[op'.sensor]]_vars

=============================================================================
