--------------------------- MODULE OccupancyProofs ---------------------------
(***************************************************************************)
(* The real-time promise of the group occupancy loop, for any sensors,     *)
(* groups, hold time, sleep of the loop and lateness of the event loop.    *)
(***************************************************************************)
EXTENDS Occupancy, TLAPS

\* A hold that runs has not used up its time; one that has elapsed waits for a
\* loop that is due before the promise would be broken.
Clocked(g) ==
    \/ left[g] + idle[g] = Hold
    \/ left[g] = 0 /\ Hold <= idle[g] /\ idle[g] + wake <= Hold + Period + Late

IInv == TypeOK /\ \A g \in occupied : Clocked(g)

LEMMA InitInv == Init => IInv
<1> SUFFICES ASSUME Init PROVE IInv
    OBVIOUS
<1>1. TypeOK
    BY OccupancyAssumption DEF Init, TypeOK, Limit
<1> QED
    BY <1>1 DEF Init, IInv

LEMMA MotionInv == ASSUME IInv, NEW s \in Sensors, NEW moved \in BOOLEAN, Motion(s, moved)
                   PROVE IInv'
<1> DEFINE gs == IF moved THEN Targets[s] ELSE {}
<1>1. gs \subseteq Groups
    BY OccupancyAssumption
<1>2. /\ since' = Noted(s, moved)
      /\ occupied' = occupied \cup gs
      /\ left' = [g \in Groups |-> IF g \in gs THEN Hold ELSE left[g]]
      /\ idle' = [g \in Groups |-> IF g \in gs THEN 0 ELSE idle[g]]
      /\ wake' = wake
    BY DEF Motion, Held
<1> HIDE DEF gs
<1>3. TypeOK'
  <2>1. since' \in [Sensors -> 0..Cap]
    BY <1>2, OccupancyAssumption DEF Noted, IInv, TypeOK
  <2>2. left' \in [Groups -> 0..Hold] /\ idle' \in [Groups -> 0..Limit]
    BY <1>2, OccupancyAssumption DEF IInv, TypeOK, Limit
  <2> QED
    BY <1>1, <1>2, <2>1, <2>2 DEF IInv, TypeOK
<1>4. ASSUME NEW g \in occupied' PROVE Clocked(g)'
  <2>1. CASE g \in gs
    BY <1>1, <1>2, <2>1, OccupancyAssumption DEF Clocked
  <2>2. CASE g \notin gs
    <3>1. g \in occupied /\ g \in Groups
        BY <1>2, <1>4, <2>2 DEF IInv, TypeOK
    <3>2. left'[g] = left[g] /\ idle'[g] = idle[g]
        BY <1>2, <2>2, <3>1
    <3> QED
        BY <1>2, <3>1, <3>2 DEF IInv, Clocked
  <2> QED
    BY <2>1, <2>2
<1> QED
    BY <1>3, <1>4 DEF IInv

LEMMA HeartbeatInv == IInv /\ Heartbeat => IInv'
BY DEF Heartbeat, IInv, TypeOK, Clocked

\* The groups the loop leaves occupied have time left.
LEMMA TickInv == ASSUME IInv, OccupancyTick PROVE IInv'
<1>1. /\ occupied' = occupied \ {g \in occupied : left[g] = 0}
      /\ wake' = Period + Late
      /\ UNCHANGED <<since, left, idle>>
    BY DEF OccupancyTick
<1>2. TypeOK'
    BY <1>1, OccupancyAssumption DEF IInv, TypeOK
<1>3. ASSUME NEW g \in occupied' PROVE Clocked(g)'
    BY <1>1, <1>3 DEF IInv, Clocked
<1> QED
    BY <1>2, <1>3 DEF IInv

LEMMA TimeInv == ASSUME IInv, TimePasses PROVE IInv'
<1>1. /\ wake > 0
      /\ wake' = wake - 1
      /\ since' = [s \in Sensors |-> AtMost(Cap, since[s] + 1)]
      /\ left' = [g \in Groups |-> Less(left[g])]
      /\ idle' = [g \in Groups |-> AtMost(Limit, idle[g] + 1)]
      /\ occupied' = occupied
    BY DEF TimePasses
<1>2. Limit \in Nat /\ Limit = Hold + Period + Late + 1
    BY OccupancyAssumption DEF Limit
<1>3. TypeOK'
  <2>1. since' \in [Sensors -> 0..Cap]
    BY <1>1, OccupancyAssumption DEF IInv, TypeOK, AtMost
  <2>2. left' \in [Groups -> 0..Hold]
    BY <1>1, OccupancyAssumption DEF IInv, TypeOK, Less
  <2>3. idle' \in [Groups -> 0..Limit]
    BY <1>1, <1>2 DEF IInv, TypeOK, AtMost
  <2>4. wake' \in 0..(Period + Late)
    BY <1>1, OccupancyAssumption DEF IInv, TypeOK
  <2> QED
    BY <1>1, <2>1, <2>2, <2>3, <2>4 DEF IInv, TypeOK
<1>4. ASSUME NEW g \in occupied' PROVE Clocked(g)'
  <2>1. g \in Groups /\ Clocked(g)
    BY <1>1, <1>4 DEF IInv, TypeOK
  <2>2. left[g] \in 0..Hold /\ idle[g] \in 0..Limit /\ wake \in 1..(Period + Late)
    BY <1>1, <2>1, OccupancyAssumption DEF IInv, TypeOK
  <2>3. idle'[g] = idle[g] + 1
    BY <1>1, <1>2, <2>1, <2>2, OccupancyAssumption DEF Clocked, AtMost
  <2>4. left'[g] = IF left[g] = 0 THEN 0 ELSE left[g] - 1
    BY <1>1, <2>1 DEF Less
  <2> QED
    BY <1>1, <2>1, <2>2, <2>3, <2>4, OccupancyAssumption DEF Clocked
<1> QED
    BY <1>3, <1>4 DEF IInv

LEMMA NextInv == IInv /\ [Next]_vars => IInv'
<1> SUFFICES ASSUME IInv, [Next]_vars PROVE IInv'
    OBVIOUS
<1>1. CASE \E s \in Sensors, moved \in BOOLEAN : Motion(s, moved)
    BY <1>1, MotionInv
<1>2. CASE Heartbeat
    BY <1>2, HeartbeatInv
<1>3. CASE OccupancyTick
    BY <1>3, TickInv
<1>4. CASE TimePasses
    BY <1>4, TimeInv
<1>5. CASE UNCHANGED vars
    BY <1>5 DEF vars, IInv, TypeOK, Clocked
<1> QED
    BY <1>1, <1>2, <1>3, <1>4, <1>5 DEF Next

LEMMA Invariance == Spec => []IInv
BY InitInv, NextInv, PTL DEF Spec

\* Sensors, holds and the loop keep values of their types.
THEOREM TypeCorrect == Spec => []TypeOK
<1>1. IInv => TypeOK
    BY DEF IInv
<1> QED
    BY <1>1, Invariance, PTL

\* A group is released at most one sleep of the loop after its hold, however its
\* sensors, the keepalive and the loop interleave.
THEOREM Released == Spec => []ReleasedInTime
<1>1. ASSUME IInv PROVE ReleasedInTime
  <2> SUFFICES ASSUME NEW g \in occupied PROVE idle[g] <= Hold + Period + Late
    BY DEF ReleasedInTime
  <2>1. Clocked(g) /\ left[g] \in 0..Hold /\ idle[g] \in 0..Limit /\ wake \in 0..(Period + Late)
    BY <1>1 DEF IInv, TypeOK
  <2> QED
    BY <2>1, OccupancyAssumption DEF Clocked, Limit
<1> QED
    BY <1>1, Invariance, PTL

\* A group is announced as not occupied only after a hold without motion.
THEOREM HeldForHold == Spec => HeldLongEnough
<1> DEFINE Quiet == \A g \in Groups : <<g, FALSE>> \in news' => idle[g] >= Hold
<1>1. ASSUME IInv, [Next]_vars PROVE [Quiet]_vars
  <2>1. CASE \E s \in Sensors, moved \in BOOLEAN : Motion(s, moved)
    BY <2>1 DEF Motion, Newly
  <2>2. CASE Heartbeat
    BY <2>2 DEF Heartbeat
  <2>3. CASE OccupancyTick
    <3> SUFFICES ASSUME NEW g \in Groups, <<g, FALSE>> \in news' PROVE idle[g] >= Hold
        OBVIOUS
    <3>1. g \in occupied /\ left[g] = 0
        BY <2>3 DEF OccupancyTick
    <3>2. idle[g] \in 0..Limit /\ Clocked(g)
        BY <1>1, <3>1 DEF IInv, TypeOK
    <3> QED
        BY <3>1, <3>2, OccupancyAssumption DEF Clocked, Limit
  <2>4. CASE TimePasses
    BY <2>4 DEF TimePasses
  <2> QED
    BY <1>1, <2>1, <2>2, <2>3, <2>4 DEF Next
<1> QED
    BY <1>1, Invariance, PTL DEF Spec, HeldLongEnough

\* A group event leaves for every change of a group and for nothing else: a motion
\* during the hold, a keepalive or a raw event says nothing new.
THEOREM ChangesAreAnnounced == Spec => AnnouncesChanges
<1> DEFINE Told == news' = ((occupied' \ occupied) \X {TRUE}) \cup ((occupied \ occupied') \X {FALSE})
<1>1. ASSUME IInv, [Next]_vars PROVE [Told]_vars
  <2>1. ASSUME NEW s \in Sensors, NEW moved \in BOOLEAN, Motion(s, moved) PROVE Told
    <3> DEFINE gs == IF moved THEN Targets[s] ELSE {}
    <3>1. occupied' = occupied \cup gs /\ news' = (gs \ occupied) \X {TRUE}
      BY <2>1 DEF Motion, Newly
    <3> HIDE DEF gs
    <3>2. occupied' \ occupied = gs \ occupied /\ occupied \ occupied' = {}
      BY <3>1
    <3>3. ((gs \ occupied) \X {TRUE}) \cup ({} \X {FALSE}) = (gs \ occupied) \X {TRUE}
      OBVIOUS
    <3> QED
      BY <3>1, <3>2, <3>3
  <2>2. CASE Heartbeat
    <3>1. occupied' \ occupied = {} /\ occupied \ occupied' = {} /\ news' = {}
      BY <2>2 DEF Heartbeat
    <3> QED
      BY <3>1
  <2>3. CASE OccupancyTick
    <3> DEFINE expired == {g \in occupied : left[g] = 0}
    <3>1. occupied' = occupied \ expired /\ news' = expired \X {FALSE} /\ expired \subseteq occupied
      BY <2>3 DEF OccupancyTick
    <3> HIDE DEF expired
    <3>2. occupied' \ occupied = {} /\ occupied \ occupied' = expired
      BY <3>1
    <3> QED
      BY <3>1, <3>2
  <2>4. CASE TimePasses
    <3>1. occupied' \ occupied = {} /\ occupied \ occupied' = {} /\ news' = {}
      BY <2>4 DEF TimePasses
    <3> QED
      BY <3>1
  <2> QED
    BY <1>1, <2>1, <2>2, <2>3, <2>4 DEF Next
<1> QED
  BY <1>1, Invariance, PTL DEF Spec, AnnouncesChanges

\* The clock of a sensor and the hold of a group start again only with a motion of
\* that sensor, or of one that targets the group.
THEOREM MotionRestarts == Spec => OnlyMotionRestarts
<1> DEFINE Restarts ==
             /\ \A s \in Sensors : since'[s] < since[s] =>
                   op'.kind = "motion" /\ op'.sensor = s /\ op'.moved
             /\ \A g \in Groups : left'[g] > left[g] =>
                   op'.kind = "motion" /\ op'.moved /\ g \in Targets[op'.sensor]
<1>1. ASSUME IInv, [Next]_vars PROVE [Restarts]_vars
  <2>0. since \in [Sensors -> 0..Cap] /\ left \in [Groups -> 0..Hold] /\ Cap \in Nat /\ Hold \in Nat
    BY <1>1, OccupancyAssumption DEF IInv, TypeOK
  <2>1. ASSUME NEW s \in Sensors, NEW moved \in BOOLEAN, Motion(s, moved) PROVE Restarts
    <3>1. op'.kind = "motion" /\ op'.sensor = s /\ op'.moved = moved
      BY <2>1 DEF Motion
    <3>2. \A t \in Sensors : since'[t] # since[t] => t = s /\ moved
      BY <2>0, <2>1 DEF Motion, Noted
    <3>3. \A g \in Groups : left'[g] # left[g] => moved /\ g \in Targets[s]
      BY <2>0, <2>1 DEF Motion, Held
    <3> QED
      BY <2>0, <3>1, <3>2, <3>3
  <2>2. CASE Heartbeat \/ OccupancyTick
    <3>1. since' = since /\ left' = left
      BY <2>2 DEF Heartbeat, OccupancyTick
    <3>2. (\A s \in Sensors : ~(since[s] < since[s])) /\ (\A g \in Groups : ~(left[g] > left[g]))
      BY <2>0
    <3> QED
      BY <3>1, <3>2
  <2>3. CASE TimePasses
    <3>1. \A s \in Sensors : since'[s] = AtMost(Cap, since[s] + 1)
      BY <2>3 DEF TimePasses
    <3>2. \A g \in Groups : left'[g] = Less(left[g])
      BY <2>3 DEF TimePasses
    <3>3. \A s \in Sensors : ~(since'[s] < since[s])
      BY <2>0, <3>1 DEF AtMost
    <3>4. \A g \in Groups : ~(left'[g] > left[g])
      BY <2>0, <3>2 DEF Less
    <3> QED
      BY <3>3, <3>4
  <2> QED
    BY <1>1, <2>1, <2>2, <2>3 DEF Next
<1> QED
  BY <1>1, Invariance, PTL DEF Spec, OnlyMotionRestarts

=============================================================================
