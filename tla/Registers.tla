------------------------------ MODULE Registers ------------------------------
(***************************************************************************)
(* The current profile and the system variables, as clients see them: the  *)
(* handlers that set and query them, the daylight loop that overwrites     *)
(* simulated variables, and replies that -t delays while events leave at   *)
(* once.  A client keeps a copy of what it queried, follows the events,    *)
(* and ignores a reply when an event came after its request.               *)
(***************************************************************************)
EXTENDS Integers, Sequences

CONSTANTS
    Variables,     \* ids of World.system_variables
    Profile,       \* the name of World.current_profile among the registers
    Half,          \* 2^15 in the code: a variable has two bytes on the wire
    Sent,          \* two-byte values that clients send
    Loaded,        \* values of the variables in the configuration file
    Simulated,     \* variables with a simulate maximum
    Daylight,      \* daylight_sine_value of each of them over the day
    Day,           \* number of instants in a day
    Profiles,      \* numbers of World.profiles
    Scheduled,     \* World.last_scheduled_profile
    LoadedProfile, \* current profile in the configuration file
    Clients,
    Unknown,       \* a client has not queried the register
    MaxFlight      \* bound on the delayed replies of a client

Names == Variables \cup {Profile}

ASSUME RegistersAssumption ==
    /\ Profile \notin Variables /\ Unknown \notin Int
    /\ Half \in Nat \ {0} /\ Sent \subseteq 0 .. (2 * Half - 1)
    /\ Loaded \in [Variables -> Int]
    /\ Simulated \subseteq Variables
    /\ Day \in Nat \ {0}
    /\ Daylight \in [Simulated -> [0 .. Day - 1 -> 0 .. Half - 1]]
    /\ Profiles \subseteq Nat /\ Scheduled \in Nat /\ LoadedProfile \in Nat
    /\ MaxFlight \in Nat

VARIABLES
    held,       \* the current profile and the value of every variable
    clock,      \* time of day
    latency,    \* World.simulate_response_latency, set by -t: replies are delayed
    flight,     \* the delayed replies to each client, in order
    copy        \* what each client believes

vars == <<held, clock, latency, flight, copy>>

\* The loader starts a simulated variable at its daylight value.
Init ==
    /\ clock \in 0 .. Day - 1
    /\ latency \in BOOLEAN
    /\ held = [n \in Names |-> IF n = Profile THEN LoadedProfile
                               ELSE IF n \in Simulated THEN Daylight[n][clock]
                               ELSE Loaded[n]]
    /\ flight = [c \in Clients |-> <<>>]
    /\ copy = [c \in Clients |-> [n \in Names |-> Unknown]]

-----------------------------------------------------------------------------
(* Events                                                                    *)

\* Every client hears the events about the registers of ns, and their replies in
\* flight are out of date.
Announce(ns) ==
    /\ copy' = [c \in Clients |-> [n \in Names |-> IF n \in ns THEN held'[n] ELSE copy[c][n]]]
    /\ flight' = [c \in Clients |-> [k \in DOMAIN flight[c] |->
                     [flight[c][k] EXCEPT !.overtaken = @ \/ flight[c][k].name \in ns]]]

-----------------------------------------------------------------------------
(* Handlers                                                                  *)

\* Mutant: the two bytes are read as an unsigned number.
SignedAsUnsigned(raw) == raw

Signed(raw) == IF raw >= Half THEN raw - 2 * Half ELSE raw

\* SET_SYSTEM_VARIABLE announces the value whether it is new or not.
SetVariable(v, raw) ==
    /\ held' = [held EXCEPT ![v] = Signed(raw)]
    /\ Announce({v})
    /\ UNCHANGED <<clock, latency>>

\* Mutant: a profile is taken although no such profile exists.
AcceptsAny(p) == p \in Nat

Accepts(p) == p \in Profiles

\* CHANGE_PROFILE_NUMBER, and the console command profile.
ChangeProfile(p) ==
    /\ Accepts(p)
    /\ held' = [held EXCEPT ![Profile] = p]
    /\ Announce({Profile})
    /\ UNCHANGED <<clock, latency>>

\* 0xFFFF returns to the scheduled profile, which is not looked up.
ResumeSchedule ==
    /\ held' = [held EXCEPT ![Profile] = Scheduled]
    /\ Announce({Profile})
    /\ UNCHANGED <<clock, latency>>

\* signed_be16 and int_to_be raise for a value that does not fit: the request
\* has no reply.
Fits(n) == n = Profile \/ held[n] \in -Half .. Half - 1

\* A query samples the register when it is handled; with -t its reply leaves later.
Query(c, n) ==
    /\ Fits(n)
    /\ \/ /\ latency
          /\ Len(flight[c]) < MaxFlight
          /\ flight' = [flight EXCEPT ![c] = Append(@, [name |-> n, value |-> held[n],
                                                        overtaken |-> FALSE])]
          /\ UNCHANGED copy
       \/ /\ ~latency
          /\ copy' = [copy EXCEPT ![c] = [@ EXCEPT ![n] = held[n]]]
          /\ UNCHANGED flight
    /\ UNCHANGED <<held, clock, latency>>

\* Replies of one delay leave in the order of their requests.
Deliver(c) ==
    /\ flight[c] # <<>>
    /\ LET r == Head(flight[c])
       IN  copy' = IF r.overtaken THEN copy ELSE [copy EXCEPT ![c] = [@ EXCEPT ![r.name] = r.value]]
    /\ flight' = [flight EXCEPT ![c] = Tail(@)]
    /\ UNCHANGED <<held, clock, latency>>

-----------------------------------------------------------------------------
(* The daylight loop                                                         *)

\* Mutant: the value is compared after it was stored.
StoredFirst(h) == {}

Changing(h) == {v \in Simulated : Daylight[v][clock] # h[v]}

\* tick_sysvar_simulation
DaylightTick ==
    /\ held' = [n \in Names |-> IF n \in Simulated THEN Daylight[n][clock] ELSE held[n]]
    /\ Announce(Changing(held))
    /\ UNCHANGED <<clock, latency>>

TimePasses ==
    /\ clock' = (clock + 1) % Day
    /\ UNCHANGED <<held, latency, flight, copy>>

Next ==
    \/ \E v \in Variables, raw \in Sent : SetVariable(v, raw)
    \/ \E p \in Profiles \cup {LoadedProfile, Scheduled} : ChangeProfile(p)
    \/ ResumeSchedule
    \/ \E c \in Clients : Deliver(c) \/ \E n \in Names : Query(c, n)
    \/ DaylightTick
    \/ TimePasses

Spec == Init /\ [][Next]_vars

-----------------------------------------------------------------------------
(* Properties                                                                *)

Reply == [name : Names, value : Int, overtaken : BOOLEAN]

\* The values of the registers, copies and replies in flight: a variable keeps the
\* value of the file or has one of two bytes.
TypeOK ==
    /\ held \in [Names -> Int]
    /\ \A v \in Variables : held[v] \in (-Half .. Half - 1) \cup {Loaded[v]}
    /\ latency \in BOOLEAN
    /\ clock \in 0 .. Day - 1
    /\ flight \in [Clients -> Seq(Reply)]
    /\ copy \in [Clients -> [Names -> Int \cup {Unknown}]]

\* What a client believes is true, whoever sets the register in between and
\* however long its replies are delayed: every change is announced, and a reply
\* carries the value of the moment its request was handled.
CopiesCurrent == \A c \in Clients, n \in Names : copy[c][n] \in {Unknown, held[n]}

\* A variable that can be queried stays so: what a client sets and what the
\* daylight loop computes fits the two bytes of the answer.
StaysAnswerable == [][\A v \in Variables : Fits(v) => Fits(v)']_vars

\* A client can make a profile current only if it is listed or scheduled.
ProfileStaysListed ==
    [][held'[Profile] # held[Profile] => held'[Profile] \in Profiles \cup {Scheduled}]_vars

=============================================================================
