------------------------------- MODULE Filters -------------------------------
(***************************************************************************)
(* Event delivery: the mode bits, the unicast address and the filter list  *)
(* of World, the handlers that change them and EventEmitter.emit, which    *)
(* decides for every event whether and how it leaves.                      *)
(***************************************************************************)
EXTENDS Naturals, Sequences, FiniteSets

CONSTANTS
    Addresses, AnyAddress, Instances, AnyInstance, NoInstance, Kinds,
    Masks,         \* masks clients send
    Modes,         \* modes clients send
    StartMode,     \* tpi event mode in the configuration file
    MaxFilters     \* bound on the length of the list, which has none in the code

\* The bits of the mode.  The code stores MULTICAST negated, as 0x80.
Mode == [enabled : BOOLEAN, filtering : BOOLEAN, unicast : BOOLEAN, multicast : BOOLEAN]

ASSUME FilterAssumption ==
    /\ AnyAddress \notin Addresses
    /\ AnyInstance \notin Instances /\ NoInstance \notin Instances \cup {AnyInstance}
    /\ Masks \subseteq SUBSET Kinds
    /\ Modes \subseteq Mode /\ StartMode \in Mode
    /\ MaxFilters \in Nat

VARIABLES
    mode,        \* World.event_mode
    unicast,     \* a unicast address is set
    filters,     \* World.event_filters
    op,          \* history: the last operation and its arguments
    reply,       \* history: the answer to the last operation
    announced    \* history: how the event of the last operation left

vars == <<mode, unicast, filters, op, reply, announced>>
Present == <<mode, unicast, filters>>

Rng(s) == {s[n] : n \in DOMAIN s}

Filter == [address : Addresses \cup {AnyAddress}, instance : Instances \cup {AnyInstance},
           mask : SUBSET Kinds]
Event == [target : Addresses, instance : Instances \cup {NoInstance}, kind : Kinds]

RulesOf(f) == {[address |-> f.address, instance |-> f.instance, kind |-> k] : k \in f.mask}
RulesIn(fs) == UNION {RulesOf(f) : f \in fs}

On(kind, a, i, mask) == [kind |-> kind, address |-> a, instance |-> i, mask |-> mask]

Init ==
    /\ mode = StartMode
    /\ unicast = FALSE
    /\ filters = <<>>
    /\ op = [kind |-> "start"]
    /\ reply = "none"
    /\ announced = {}

-----------------------------------------------------------------------------
(* Handlers                                                                  *)

EnableEvents(m) ==
    /\ mode' = m
    /\ op' = [kind |-> "enable", mode |-> m]
    /\ reply' = "answer"
    /\ announced' = {}
    /\ UNCHANGED <<unicast, filters>>

\* Port 0 or address 0.0.0.0 takes the unicast address away.
SetUnicast(present) ==
    /\ unicast' = present
    /\ op' = [kind |-> "unicast", present |-> present]
    /\ reply' = "ok"
    /\ announced' = {}
    /\ UNCHANGED <<mode, filters>>

\* Mutant: every add appends an entry.
AddedAlways(fs, a, i, mask) == Append(fs, [address |-> a, instance |-> i, mask |-> mask])

\* An entry for the same address and instance takes the bits in.
Added(fs, a, i, mask) ==
    LET same == {n \in DOMAIN fs : fs[n].address = a /\ fs[n].instance = i}
        first == CHOOSE n \in same : \A k \in same : n <= k
    IN  IF same = {} THEN Append(fs, [address |-> a, instance |-> i, mask |-> mask])
        ELSE [fs EXCEPT ![first].mask = @ \cup mask]

AddFilter(a, i, mask) ==
    /\ Len(Added(filters, a, i, mask)) <= MaxFilters
    /\ filters' = Added(filters, a, i, mask)
    /\ op' = On("add", a, i, mask)
    /\ reply' = "ok"
    /\ announced' = {}
    /\ UNCHANGED <<mode, unicast>>

\* Mutant: a clear reaches the entry of exactly its address and instance.
ReachedExactly(f, a, i) == f.address = a /\ f.instance = i

Reached(f, a, i) ==
    /\ f.address \in {a, AnyAddress} \/ a = AnyAddress
    /\ f.instance \in {i, AnyInstance} \/ i = AnyInstance

\* The loop over the list: entries that are reached lose the bits, and go when none
\* is left.
Remaining(fs, a, i, mask) ==
    LET rest(f) == IF Reached(f, a, i) THEN [f EXCEPT !.mask = @ \ mask] ELSE f
        remaining[n \in 0 .. Len(fs)] ==
            IF n = 0 THEN <<>>
            ELSE IF Reached(fs[n], a, i) /\ rest(fs[n]).mask = {} THEN remaining[n - 1]
            ELSE Append(remaining[n - 1], rest(fs[n]))
    IN  remaining[Len(fs)]

ClearFilters(a, i, mask) ==
    /\ filters' = Remaining(filters, a, i, mask)
    /\ reply' = IF \E f \in Rng(filters) : Reached(f, a, i) /\ f.mask \cap mask # {}
                THEN "ok" ELSE "no_answer"
    /\ op' = On("clear", a, i, mask)
    /\ announced' = {}
    /\ UNCHANGED <<mode, unicast>>

-----------------------------------------------------------------------------
(* EventEmitter.emit                                                         *)

\* Mutant: an event of control gear is silenced by the filter of an instance.
MatchesAnyInstance(f, e) ==
    /\ f.address \in {AnyAddress, e.target}
    /\ e.instance = NoInstance \/ f.instance \in {e.instance, AnyInstance}
    /\ e.kind \in f.mask

\* The body of the loop in _filtered.
Matches(f, e) ==
    /\ f.address \in {AnyAddress, e.target}
    /\ IF e.instance = NoInstance THEN f.instance = AnyInstance
       ELSE f.instance \in {e.instance, AnyInstance}
    /\ e.kind \in f.mask

Filtered(fs, e) == mode.filtering /\ \E f \in Rng(fs) : Matches(f, e)

Transports == (IF mode.unicast /\ unicast THEN {"unicast"} ELSE {})
              \cup (IF mode.multicast THEN {"multicast"} ELSE {})

\* A send may fail; the other transport is tried all the same.
Emit(e, failing) ==
    /\ announced' = IF ~mode.enabled \/ Filtered(filters, e) THEN {} ELSE Transports \ failing
    /\ op' = [kind |-> "emit", event |-> e, failing |-> failing]
    /\ reply' = "none"
    /\ UNCHANGED <<mode, unicast, filters>>

Next ==
    \/ \E m \in Modes : EnableEvents(m)
    \/ \E present \in BOOLEAN : SetUnicast(present)
    \/ \E a \in Addresses \cup {AnyAddress}, i \in Instances \cup {AnyInstance}, mask \in Masks :
          AddFilter(a, i, mask) \/ ClearFilters(a, i, mask)
    \/ \E e \in Event, failing \in SUBSET {"unicast", "multicast"} : Emit(e, failing)

Spec == Init /\ [][Next]_vars

-----------------------------------------------------------------------------
(* Properties                                                                *)

\* The list never holds two entries for the same address and instance, of which
\* an add would find only the first, and holds what a filter can hold.
ListOK ==
    /\ mode \in Mode
    /\ filters \in Seq(Filter)
    /\ \A m, n \in DOMAIN filters :
          (filters[m].address = filters[n].address /\ filters[m].instance = filters[n].instance) => m = n

\* The list behaves as a set of rules: whatever the order of adds and clears,
\* an event is held back exactly when one of the rules in force silences it.
Rules == INSTANCE EventRules WITH rules <- RulesIn(Rng(filters))
ImplementsRules == Rules!Spec

\* After a clear no rule for its address, instance and kinds is left, not even
\* one that was added for all addresses: those events can be emitted again.
ClearedEventsFlow ==
    [][op'.kind = "clear" =>
          \A e \in Event :
              (/\ op'.address \in {AnyAddress, e.target}
               /\ op'.instance = AnyInstance \/ op'.instance = e.instance
               /\ e.kind \in op'.mask) => \A f \in Rng(filters') : ~Matches(f, e)]_vars

=============================================================================
