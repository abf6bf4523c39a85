--------------------------- MODULE RegistersProofs ---------------------------
(***************************************************************************)
(* What clients believe about profiles and system variables is true, for   *)
(* any registers, clients, values and delays; and what a scan for system   *)
(* variables finds, for every set of ids, every limit and every pattern of *)
(* lost replies.                                                           *)
(***************************************************************************)
EXTENDS VariableScan, SequenceTheorems, TLAPS

\* A reply in flight that no event has overtaken carries the current value.
FlightCurrent ==
    \A c \in Clients : \A k \in 1 .. Len(flight[c]) :
        flight[c][k].overtaken \/ flight[c][k].value = held[flight[c][k].name]

IInv == TypeOK /\ CopiesCurrent /\ FlightCurrent

\* What a handler may leave in the registers.
HeldOK(h) == /\ h \in [Names -> Int]
             /\ \A v \in Variables : h[v] \in (-Half .. Half - 1) \cup {Loaded[v]}

LEMMA InitInv == Init => IInv
<1> SUFFICES ASSUME Init PROVE IInv
  OBVIOUS
<1>1. HeldOK(held)
  BY RegistersAssumption DEF Init, HeldOK, Names
<1>2. flight \in [Clients -> Seq(Reply)] /\ \A c \in Clients : Len(flight[c]) = 0
  BY DEF Init
<1>3. FlightCurrent
  BY <1>2 DEF FlightCurrent
<1> QED
  BY <1>1, <1>2, <1>3 DEF Init, IInv, TypeOK, CopiesCurrent, HeldOK

\* A handler that announces every register it changes keeps copies and replies true.
LEMMA AnnounceInv ==
  ASSUME IInv, NEW ns \in SUBSET Names, HeldOK(held'),
         \A n \in Names \ ns : held'[n] = held[n],
         Announce(ns), UNCHANGED <<clock, latency>>
  PROVE  IInv'
<1>1. ASSUME NEW c \in Clients
      PROVE  /\ flight'[c] \in Seq(Reply)
             /\ Len(flight'[c]) = Len(flight[c])
             /\ \A k \in 1 .. Len(flight[c]) :
                   flight'[c][k] = [flight[c][k] EXCEPT !.overtaken = @ \/ flight[c][k].name \in ns]
  <2>1. flight[c] \in Seq(Reply)
    BY DEF IInv, TypeOK
  <2> DEFINE n == Len(flight[c])
             new == [k \in 1 .. n |->
                       [flight[c][k] EXCEPT !.overtaken = @ \/ flight[c][k].name \in ns]]
  <2>2. n \in Nat /\ DOMAIN flight[c] = 1 .. n /\ \A k \in 1 .. n : flight[c][k] \in Reply
    BY <2>1
  <2>3. flight'[c] = new
    BY <2>2 DEF Announce
  <2>4. ASSUME NEW k \in 1 .. n PROVE new[k] \in Reply
    BY <2>2, Zenon DEF Reply
  <2>5. new \in [1 .. n -> Reply]
    BY <2>4
  <2> HIDE DEF new
  <2>6. new \in Seq(Reply) /\ Len(new) = n
    BY <2>2, <2>5, SeqDef
  <2> QED
    BY <2>3, <2>6 DEF new
<1>2. TypeOK'
  <2>1. flight' \in [Clients -> Seq(Reply)]
    BY <1>1 DEF Announce
  <2>2. copy' \in [Clients -> [Names -> Int \cup {Unknown}]]
    BY DEF Announce, IInv, TypeOK, HeldOK
  <2> QED
    BY <2>1, <2>2 DEF IInv, TypeOK, HeldOK
<1>3. CopiesCurrent'
  BY DEF Announce, IInv, CopiesCurrent
<1>4. FlightCurrent'
  <2> SUFFICES ASSUME NEW c \in Clients, NEW k \in 1 .. Len(flight[c]),
                      ~flight'[c][k].overtaken
               PROVE  flight'[c][k].value = held'[flight'[c][k].name]
    BY <1>1 DEF FlightCurrent
  <2>1. flight[c][k] \in Reply
    BY DEF IInv, TypeOK
  <2>2. /\ flight'[c][k].value = flight[c][k].value
        /\ flight'[c][k].name = flight[c][k].name
        /\ ~flight[c][k].overtaken
        /\ flight[c][k].name \in Names \ ns
    <3> DEFINE r == flight[c][k]
               b == r.overtaken \/ r.name \in ns
    <3>1. flight'[c][k] = [r EXCEPT !.overtaken = b]
      BY <1>1
    <3>2. r \in Reply
      BY <2>1
    <3> HIDE DEF r, b
    <3>3. /\ flight'[c][k].value = r.value
          /\ flight'[c][k].name = r.name
          /\ flight'[c][k].overtaken = b
      BY <3>1, <3>2 DEF Reply
    <3>4. ~b
      BY <3>3
    <3>5. ~r.overtaken /\ r.name \notin ns /\ r.name \in Names
      BY <3>2, <3>4, Zenon DEF b, Reply
    <3> QED
      BY <3>3, <3>5 DEF r
  <2> QED
    BY <2>2 DEF IInv, FlightCurrent
<1> QED
  BY <1>2, <1>3, <1>4 DEF IInv

\* Sign extension makes any two bytes a number that fits two bytes.
LEMMA SignedFits == ASSUME NEW raw \in Sent PROVE Signed(raw) \in -Half .. Half - 1
<1>1. raw \in 0 .. 2 * Half - 1 /\ Half \in Nat
  BY RegistersAssumption
<1> QED
  BY <1>1 DEF Signed

LEMMA SetInv ==
  ASSUME IInv, NEW v \in Variables, NEW raw \in Sent, SetVariable(v, raw)
  PROVE  IInv'
<1>1. Signed(raw) \in -Half .. Half - 1
  BY SignedFits
<1>2. HeldOK(held') /\ \A n \in Names \ {v} : held'[n] = held[n]
  BY <1>1, RegistersAssumption DEF SetVariable, IInv, TypeOK, HeldOK, Names
<1> QED
  BY <1>2, AnnounceInv DEF SetVariable, Names

LEMMA ProfileInv ==
  ASSUME IInv, NEW p \in Nat, held' = [held EXCEPT ![Profile] = p], Announce({Profile}),
         UNCHANGED <<clock, latency>>
  PROVE  IInv'
<1>1. HeldOK(held') /\ \A n \in Names \ {Profile} : held'[n] = held[n]
  BY RegistersAssumption DEF IInv, TypeOK, HeldOK, Names
<1> QED
  BY <1>1, AnnounceInv DEF Names

LEMMA TickInv == ASSUME IInv, DaylightTick PROVE IInv'
<1>1. HeldOK(held')
  <2>1. ASSUME NEW v \in Simulated PROVE Daylight[v][clock] \in 0 .. Half - 1
    <3>1. Daylight[v] \in [0 .. Day - 1 -> 0 .. Half - 1]
      BY RegistersAssumption
    <3> QED
      BY <3>1 DEF IInv, TypeOK
  <2> QED
    BY <2>1, RegistersAssumption DEF DaylightTick, IInv, TypeOK, HeldOK, Names
<1>2. \A n \in Names \ Changing(held) : held'[n] = held[n]
  BY DEF DaylightTick, Changing
<1>3. Changing(held) \in SUBSET Names
  BY RegistersAssumption DEF Changing, Names
<1> QED
  BY <1>1, <1>2, <1>3, AnnounceInv DEF DaylightTick

LEMMA QueryInv == ASSUME IInv, NEW c \in Clients, NEW n \in Names, Query(c, n) PROVE IInv'
<1>1. CASE latency
  <2> DEFINE r == [name |-> n, value |-> held[n], overtaken |-> FALSE]
  <2>1. flight' = [flight EXCEPT ![c] = Append(flight[c], r)] /\ UNCHANGED <<held, clock, latency, copy>>
    BY <1>1 DEF Query
  <2>2. r \in Reply
    BY DEF IInv, TypeOK, Reply
  <2>3. r.overtaken = FALSE /\ r.value = held[r.name]
    OBVIOUS
  <2> HIDE DEF r
  <2>4. flight[c] \in Seq(Reply)
    BY DEF IInv, TypeOK
  <2>5. /\ Append(flight[c], r) \in Seq(Reply)
        /\ \A k \in 1 .. Len(Append(flight[c], r)) :
              \/ k \in 1 .. Len(flight[c]) /\ Append(flight[c], r)[k] = flight[c][k]
              \/ Append(flight[c], r)[k] = r
    BY <2>2, <2>4
  <2>6. TypeOK' /\ CopiesCurrent'
    BY <2>1, <2>5 DEF IInv, TypeOK, CopiesCurrent
  <2>7. FlightCurrent'
    BY <2>1, <2>3, <2>5 DEF IInv, TypeOK, FlightCurrent
  <2> QED
    BY <2>6, <2>7 DEF IInv
<1>2. CASE ~latency
  <2>1. /\ copy' = [copy EXCEPT ![c] = [copy[c] EXCEPT ![n] = held[n]]]
        /\ UNCHANGED <<held, clock, latency, flight>>
    BY <1>2 DEF Query
  <2>2. TypeOK' /\ CopiesCurrent'
    BY <2>1 DEF IInv, TypeOK, CopiesCurrent
  <2> QED
    BY <2>1, <2>2 DEF IInv, FlightCurrent
<1> QED
  BY <1>1, <1>2

LEMMA DeliverInv == ASSUME IInv, NEW c \in Clients, Deliver(c) PROVE IInv'
<1> DEFINE r == flight[c][1]
<1>1. flight[c] \in Seq(Reply) /\ flight[c] # <<>>
  BY DEF IInv, TypeOK, Deliver
<1>2. /\ r \in Reply
      /\ Tail(flight[c]) \in Seq(Reply)
      /\ \A k \in 1 .. Len(Tail(flight[c])) :
            k + 1 \in 1 .. Len(flight[c]) /\ Tail(flight[c])[k] = flight[c][k + 1]
  BY <1>1
<1>3. r.overtaken \/ r.value = held[r.name]
  BY <1>1 DEF IInv, FlightCurrent
<1>4. /\ copy' = IF r.overtaken THEN copy ELSE [copy EXCEPT ![c] = [copy[c] EXCEPT ![r.name] = r.value]]
      /\ flight' = [flight EXCEPT ![c] = Tail(flight[c])]
      /\ UNCHANGED <<held, clock, latency>>
  BY <1>1 DEF Deliver
<1> HIDE DEF r
<1>5. TypeOK' /\ CopiesCurrent'
  <2>1. CASE r.overtaken
    BY <1>2, <1>4, <2>1 DEF IInv, TypeOK, CopiesCurrent
  <2>2. CASE ~r.overtaken
    BY <1>2, <1>3, <1>4, <2>2 DEF IInv, TypeOK, CopiesCurrent, Reply
  <2> QED
    BY <2>1, <2>2
<1>6. FlightCurrent'
  BY <1>2, <1>4 DEF IInv, TypeOK, FlightCurrent
<1> QED
  BY <1>5, <1>6 DEF IInv

LEMMA TimeInv == ASSUME IInv, TimePasses PROVE IInv'
<1>1. clock' \in 0 .. Day - 1
  BY RegistersAssumption DEF IInv, TypeOK, TimePasses
<1> QED
  BY <1>1 DEF TimePasses, IInv, TypeOK, CopiesCurrent, FlightCurrent

LEMMA NextInv == IInv /\ [Next]_vars => IInv'
<1> SUFFICES ASSUME IInv, [Next]_vars PROVE IInv'
  OBVIOUS
<1>1. ASSUME NEW v \in Variables, NEW raw \in Sent, SetVariable(v, raw) PROVE IInv'
  BY <1>1, SetInv
<1>2. ASSUME NEW p \in Profiles \cup {LoadedProfile, Scheduled}, ChangeProfile(p) PROVE IInv'
  BY <1>2, ProfileInv, RegistersAssumption DEF ChangeProfile
<1>3. CASE ResumeSchedule
  BY <1>3, ProfileInv, RegistersAssumption DEF ResumeSchedule
<1>4. ASSUME NEW c \in Clients, Deliver(c) PROVE IInv'
  BY <1>4, DeliverInv
<1>5. ASSUME NEW c \in Clients, NEW n \in Names, Query(c, n) PROVE IInv'
  BY <1>5, QueryInv
<1>6. CASE DaylightTick
  BY <1>6, TickInv
<1>7. CASE TimePasses
  BY <1>7, TimeInv
<1>8. CASE UNCHANGED vars
  BY <1>8 DEF vars, IInv, TypeOK, CopiesCurrent, FlightCurrent
<1> QED
  BY <1>1, <1>2, <1>3, <1>4, <1>5, <1>6, <1>7, <1>8 DEF Next

LEMMA Invariance == Spec => []IInv
<1> QED
  BY InitInv, NextInv, PTL DEF Spec

\* Registers, copies and replies keep values of their types, and no variable
\* takes a value of more than two bytes that was not in the file.
THEOREM TypeCorrect == Spec => []TypeOK
<1>1. IInv => TypeOK
  BY DEF IInv
<1> QED
  BY <1>1, Invariance, PTL

\* A client that ignores overtaken replies always believes the truth: each change
\* by a handler or by the daylight loop is announced (CopiesCurrent).
THEOREM BeliefsTrue == Spec => []CopiesCurrent
<1>1. IInv => CopiesCurrent
  BY DEF IInv
<1> QED
  BY <1>1, Invariance, PTL

\* A variable that can be queried stays so: values set are sign extended from two
\* bytes and daylight stays below 2^15 (StaysAnswerable).
THEOREM AnswersLast == Spec => StaysAnswerable
<1>1. ASSUME IInv, IInv', [Next]_vars, NEW v \in Variables, Fits(v) PROVE Fits(v)'
  <2>1. v # Profile
    BY RegistersAssumption
  <2>2. held[v] \in -Half .. Half - 1
    BY <1>1, <2>1 DEF Fits
  <2>3. CASE held'[v] = held[v]
    BY <2>2, <2>3 DEF Fits
  <2>4. ASSUME NEW w \in Variables, NEW raw \in Sent, SetVariable(w, raw) PROVE Fits(v)'
    <3>1. Signed(raw) \in -Half .. Half - 1
      BY SignedFits
    <3>2. held'[v] \in {held[v], Signed(raw)}
      BY <1>1, <2>4 DEF SetVariable, IInv, TypeOK, Names
    <3> QED
      BY <2>2, <3>1, <3>2 DEF Fits
  <2>5. CASE DaylightTick
    <3>1. held'[v] \in {held[v]} \cup 0 .. Half - 1
      BY <1>1, <2>5, RegistersAssumption DEF DaylightTick, IInv, TypeOK, Names
    <3> QED
      BY <2>2, <3>1, RegistersAssumption DEF Fits
  <2>6. ASSUME NEW p \in Nat, held' = [held EXCEPT ![Profile] = p] PROVE held'[v] = held[v]
    BY <1>1, <2>1, <2>6 DEF IInv, TypeOK, Names
  <2>7. ASSUME NEW p \in Profiles \cup {LoadedProfile, Scheduled}, ChangeProfile(p)
        PROVE  held'[v] = held[v]
    BY <2>6, <2>7, RegistersAssumption DEF ChangeProfile
  <2>8. CASE ResumeSchedule
    BY <2>3, <2>6, <2>8, RegistersAssumption DEF ResumeSchedule
  <2> QED
    BY <1>1, <2>3, <2>4, <2>5, <2>7, <2>8 DEF Next, vars, Query, Deliver, TimePasses
<1>2. IInv /\ IInv' /\ [Next]_vars => [\A v \in Variables : Fits(v) => Fits(v)']_vars
  BY <1>1
<1> QED
  BY <1>2, Invariance, PTL DEF Spec, StaysAnswerable

\* A client makes a profile current only if it is listed or the scheduled one: no
\* other handler, and no delayed reply, touches the profile.
THEOREM ProfilesStayListed == Spec => ProfileStaysListed
<1>1. ASSUME IInv, Next PROVE held'[Profile] \in {held[Profile]} \cup Profiles \cup {Scheduled}
  <2>0. /\ Profile \in DOMAIN held /\ Profile \in Names
        /\ Profile \notin Variables /\ Profile \notin Simulated
    BY <1>1, RegistersAssumption DEF IInv, TypeOK, Names
  <2>1. ASSUME NEW v \in Variables, NEW raw \in Sent, SetVariable(v, raw)
        PROVE  held'[Profile] = held[Profile]
    BY <2>0, <2>1 DEF SetVariable
  <2>2. ASSUME NEW p, ChangeProfile(p) PROVE held'[Profile] \in Profiles
    BY <2>0, <2>2 DEF ChangeProfile, Accepts
  <2>3. CASE ResumeSchedule
    BY <2>0, <2>3 DEF ResumeSchedule
  <2>4. CASE DaylightTick
    BY <2>0, <2>4 DEF DaylightTick
  <2> QED
    BY <1>1, <2>1, <2>2, <2>3, <2>4 DEF Next, Query, Deliver, TimePasses
<1>2. IInv /\ [Next]_vars
        => [held'[Profile] # held[Profile] => held'[Profile] \in Profiles \cup {Scheduled}]_vars
  BY <1>1
<1> QED
  BY <1>2, Invariance, PTL DEF Spec, ProfileStaysListed

-----------------------------------------------------------------------------
(* A scan for the variables, next to everything else: the steps of others    *)
(* leave the scan alone, so the argument is about QueryVariableName only.    *)

\* A client that scans does what the registers allow, so all of the above holds
\* while it does.
THEOREM ScanAllowed == ScanSpec => Spec
<1>1. ScanInit => Init
  BY DEF ScanInit
<1>2. [ScanNext]_scanVars => [Next]_vars
  BY DEF ScanNext, QueryVariableName, Others, scanVars
<1> QED
  BY <1>1, <1>2, PTL DEF ScanSpec, Spec

ScanType == scan \in [next : Nat, failed : Nat, found : SUBSET Named, lost : SUBSET Named]

\* The last failed ids gave nothing and the id before them was found.
RunOfFailures ==
    /\ scan.failed <= GiveUp /\ scan.failed <= scan.next
    /\ \A v \in scan.found : v < scan.next - scan.failed
    /\ scan.failed < scan.next => scan.next - scan.failed - 1 \in scan.found

\* Every variable asked for was found or its reply was lost.
NothingSkipped == \A v \in Named : v < scan.next => v \in scan.found \cup scan.lost

\* No two neighbours found are far apart.
NoGapBridged ==
    \A a \in scan.found :
        (\E b \in scan.found : b > a) => \E b \in scan.found : b > a /\ b - a <= GiveUp

ScanInv == ScanType /\ RunOfFailures /\ NothingSkipped /\ NoGapBridged

-----------------------------------------------------------------------------

LEMMA NamedAreIds == Named \subseteq Variables /\ Variables \subseteq Nat
  BY ScanAssumption

LEMMA ScanStarts == ScanInit => ScanInv
  BY ScanAssumption, NamedAreIds
  DEF ScanInit, ScanInv, ScanType, RunOfFailures, NothingSkipped, NoGapBridged

\* The id asked for has no answer: one more failure.
LEMMA MissKeepsInv ==
  ASSUME ScanInv, ~ScanOver, NEW gone \in SUBSET {scan.next}, gone \subseteq Named,
         scan.next \in Named => gone = {scan.next},
         scan' = [next |-> scan.next + 1, failed |-> scan.failed + 1,
                  found |-> scan.found, lost |-> scan.lost \cup gone]
  PROVE  ScanInv'
<1>1. ScanType'
  BY DEF ScanInv, ScanType
<1>2. /\ scan.failed < GiveUp
      /\ scan'.next - scan'.failed = scan.next - scan.failed
  BY ScanAssumption DEF ScanInv, ScanType, RunOfFailures, ScanOver, GivesUp
<1>3. RunOfFailures'
  BY <1>2, ScanAssumption, NamedAreIds DEF ScanInv, ScanType, RunOfFailures
<1>4. NothingSkipped'
  BY ScanAssumption, NamedAreIds DEF ScanInv, ScanType, NothingSkipped
<1>5. NoGapBridged'
  BY DEF ScanInv, NoGapBridged
<1> QED
  BY <1>1, <1>3, <1>4, <1>5 DEF ScanInv

\* The id asked for is found: it is at most GiveUp above the one found before it.
LEMMA HitKeepsInv ==
  ASSUME ScanInv, ~ScanOver, scan.next \in Named,
         scan' = [next |-> scan.next + 1, failed |-> 0,
                  found |-> scan.found \cup {scan.next}, lost |-> scan.lost]
  PROVE  ScanInv'
<1>1. ScanType'
  BY DEF ScanInv, ScanType
<1>2. scan.failed < GiveUp /\ scan.found \subseteq Nat
  <2>1. scan.found \subseteq Nat
    BY NamedAreIds DEF ScanInv, ScanType
  <2>2. scan.failed < GiveUp
    BY ScanAssumption DEF ScanInv, ScanType, ScanOver, GivesUp
  <2> QED
    BY <2>1, <2>2
<1>3. RunOfFailures'
  BY <1>2, ScanAssumption, NamedAreIds DEF ScanInv, ScanType, RunOfFailures
<1>4. NothingSkipped'
  BY ScanAssumption, NamedAreIds DEF ScanInv, ScanType, NothingSkipped
<1>5. NoGapBridged'
  <2> SUFFICES ASSUME NEW a \in scan'.found, NEW b \in scan'.found, b > a
               PROVE  \E d \in scan'.found : d > a /\ d - a <= GiveUp
    BY DEF NoGapBridged
  <2>1. a \in scan.found
    BY <1>2 DEF ScanInv, ScanType, RunOfFailures
  <2>2. CASE \E d \in scan.found : d > a
    BY <2>1, <2>2 DEF ScanInv, NoGapBridged
  <2>3. CASE ~ \E d \in scan.found : d > a
    <3>1. a < scan.next - scan.failed /\ scan.next - scan.failed - 1 \in scan.found
      BY <1>2, <2>1 DEF ScanInv, ScanType, RunOfFailures
    <3>2. a = scan.next - scan.failed - 1
      BY <1>2, <2>1, <2>3, <3>1 DEF ScanInv, ScanType
    <3>3. scan.next > a /\ scan.next - a <= GiveUp
      BY <1>2, <3>2, ScanAssumption DEF ScanInv, ScanType
    <3> QED
      BY <3>3
  <2> QED
    BY <2>2, <2>3
<1> QED
  BY <1>1, <1>3, <1>4, <1>5 DEF ScanInv

LEMMA ScanKeepsInv == ScanInv /\ [ScanNext]_scanVars => ScanInv'
<1> SUFFICES ASSUME ScanInv, [ScanNext]_scanVars PROVE ScanInv'
  OBVIOUS
<1>1. CASE QueryVariableName(TRUE)
  <2>1. CASE scan.next \in Named
    BY <1>1, <2>1, HitKeepsInv DEF QueryVariableName
  <2>2. CASE scan.next \notin Named
    <3>1. /\ ~ScanOver
          /\ {} \in SUBSET {scan.next} /\ {} \subseteq Named
          /\ scan' = [next |-> scan.next + 1, failed |-> scan.failed + 1,
                      found |-> scan.found, lost |-> scan.lost \cup {}]
      BY <1>1, <2>2 DEF QueryVariableName
    <3> QED
      BY <2>2, <3>1, MissKeepsInv
  <2> QED
    BY <2>1, <2>2
<1>2. CASE scan.next \in Named /\ QueryVariableName(FALSE)
  <2>1. /\ ~ScanOver
        /\ scan' = [next |-> scan.next + 1, failed |-> scan.failed + 1,
                    found |-> scan.found, lost |-> scan.lost \cup {scan.next}]
    BY <1>2 DEF QueryVariableName
  <2> QED
    BY <1>2, <2>1, MissKeepsInv
<1>3. CASE scan' = scan
  BY <1>3 DEF ScanInv, ScanType, RunOfFailures, NothingSkipped, NoGapBridged
<1> QED
  BY <1>1, <1>2, <1>3 DEF ScanNext, Others, scanVars

THEOREM ScanInvariant == ScanSpec => []ScanInv
<1> QED
  BY ScanStarts, ScanKeepsInv, PTL DEF ScanSpec

-----------------------------------------------------------------------------

\* The simulator started from a dumped file never warns of its variables: neighbours
\* that the scan found are within the limit of the loader.
THEOREM FoundIsWithoutWarning == ScanSpec => []FoundWithoutWarning
<1>1. ScanInv => FoundWithoutWarning
  BY ScanAssumption, NamedAreIds
  DEF ScanInv, ScanType, NoGapBridged, FoundWithoutWarning, GapWarning
<1> QED
  BY <1>1, ScanInvariant, PTL

\* A scan that ends short of a variable ended in a gap that the loader warns of, or
\* before the first variable, or on a name it did not get.
THEOREM GapsWarned == ScanSpec => []GapsAreWarned
<1>1. ScanInv => GapsAreWarned
  <2> SUFFICES ASSUME ScanInv, ScanOver, scan.lost = {}, Named = Variables, ~GapWarning(Variables),
                      NEW u \in Variables, u < GiveUp,
                      NEW v \in Variables, v \notin scan.found
               PROVE  FALSE
    BY DEF GapsAreWarned, ScanInv, ScanType
  <2>1. v >= scan.next
    BY NamedAreIds DEF ScanInv, ScanType, NothingSkipped
  <2>2. scan.failed = GiveUp
    BY <2>1, ScanAssumption DEF ScanInv, ScanType, RunOfFailures, ScanOver, GivesUp
  <2>3. CASE scan.failed = scan.next
    BY <2>2, <2>3, NamedAreIds, ScanAssumption DEF ScanInv, ScanType, NothingSkipped, RunOfFailures
  <2>4. CASE scan.failed < scan.next
    <3> DEFINE last == scan.next - scan.failed - 1
    <3>1. last \in scan.found /\ last \in Variables /\ v > last
      BY <2>1, <2>4, NamedAreIds DEF ScanInv, ScanType, RunOfFailures
    <3>2. PICK b \in Variables : b > last /\ b - last <= GiveUp
      <4>1. PICK b \in Variables : b > last /\ ~(b - last > GapLimit)
        BY <3>1 DEF GapWarning
      <4>2. last \in Nat /\ b \in Nat /\ GapLimit = GiveUp /\ GiveUp \in Nat
        BY <3>1, NamedAreIds, ScanAssumption
      <4> HIDE DEF last
      <4>3. b - last <= GiveUp
        BY <4>1, <4>2
      <4> QED
        BY <4>1, <4>3
    <3>3. b < scan.next
      BY <2>2, <3>2, NamedAreIds, ScanAssumption DEF ScanInv, ScanType
    <3>4. b \in scan.found
      BY <3>3 DEF ScanInv, NothingSkipped
    <3> QED
      BY <3>2, <3>4, NamedAreIds DEF ScanInv, ScanType, RunOfFailures
  <2>5. scan.failed \in Nat /\ scan.next \in Nat /\ scan.failed <= scan.next
    BY DEF ScanInv, ScanType, RunOfFailures
  <2> QED
    BY <2>3, <2>4, <2>5
<1> QED
  BY <1>1, ScanInvariant, PTL

=============================================================================
