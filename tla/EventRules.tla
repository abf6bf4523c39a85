----------------------------- MODULE EventRules -----------------------------
(***************************************************************************)
(* What the event filters promise, without the list that implements them:  *)
(* a set of rules, each silencing one kind of event of one address and     *)
(* instance (or of all of them), and a mode that says which transports are *)
(* on.  Filters implements this specification.                             *)
(***************************************************************************)
CONSTANTS
    Addresses,     \* wires that events carry
    AnyAddress,    \* filter address 0xFF
    Instances,     \* instance numbers of control devices
    AnyInstance,   \* filter instance 0xFF
    NoInstance,    \* events of control gear and groups name no instance
    Kinds          \* event codes, the bits of a mask

VARIABLES
    mode,          \* events on, filters in force, and transports on
    unicast,       \* a unicast address is set
    rules,         \* the rules in force
    op,            \* the last request or event
    announced,     \* the transports by which the event left
    reply          \* the answer to the request

Rule == [address : Addresses \cup {AnyAddress},
         instance : Instances \cup {AnyInstance}, kind : Kinds]
Event == [target : Addresses, instance : Instances \cup {NoInstance}, kind : Kinds]

Mode == [enabled : BOOLEAN, filtering : BOOLEAN, unicast : BOOLEAN, multicast : BOOLEAN]

RulesFor(a, i, mask) == {[address |-> a, instance |-> i, kind |-> k] : k \in mask}

\* A rule silences an event of its address; an event without an instance only
\* if the rule is for any instance.
Silences(r, e) ==
    /\ r.address \in {AnyAddress, e.target}
    /\ r.instance \in IF e.instance = NoInstance THEN {AnyInstance}
                      ELSE {AnyInstance, e.instance}
    /\ r.kind = e.kind

\* A clear reaches the rules for its address and those for any address.
Reaches(a, i, r) ==
    /\ a = AnyAddress \/ r.address \in {a, AnyAddress}
    /\ i = AnyInstance \/ r.instance \in {i, AnyInstance}

On(kind, a, i, mask) == [kind |-> kind, address |-> a, instance |-> i, mask |-> mask]

Init ==
    /\ op = [kind |-> "start"]
    /\ mode \in Mode
    /\ unicast = FALSE
    /\ rules = {}
    /\ announced = {}
    /\ reply = "none"

Add(a, i, mask) ==
    /\ op' = On("add", a, i, mask)
    /\ rules' = rules \cup RulesFor(a, i, mask)
    /\ reply' = "ok"
    /\ announced' = {}
    /\ UNCHANGED <<mode, unicast>>

Clear(a, i, mask) ==
    /\ op' = On("clear", a, i, mask)
    /\ rules' = {r \in rules : ~(Reaches(a, i, r) /\ r.kind \in mask)}
    /\ reply' = IF rules' = rules THEN "no_answer" ELSE "ok"
    /\ announced' = {}
    /\ UNCHANGED <<mode, unicast>>

Available == (IF mode.unicast /\ unicast THEN {"unicast"} ELSE {})
             \cup (IF mode.multicast THEN {"multicast"} ELSE {})

\* An event leaves by every transport that is on and does not fail, unless events
\* are off or a rule in force, with filtering on, silences it.
Announce(e, failing) ==
    /\ op' = [kind |-> "emit", event |-> e, failing |-> failing]
    /\ announced' = IF mode.enabled /\ ~(mode.filtering /\ \E r \in rules : Silences(r, e))
                    THEN Available \ failing ELSE {}
    /\ reply' = "none"
    /\ UNCHANGED <<mode, unicast, rules>>

\* Mode and unicast address change without touching the rules.
EnableEvents(m) ==
    /\ mode' = m
    /\ op' = [kind |-> "enable", mode |-> m]
    /\ reply' = "answer"
    /\ announced' = {}
    /\ UNCHANGED <<unicast, rules>>

SetUnicast(present) ==
    /\ unicast' = present
    /\ op' = [kind |-> "unicast", present |-> present]
    /\ reply' = "ok"
    /\ announced' = {}
    /\ UNCHANGED <<mode, rules>>

Next ==
    \/ \E a \in Addresses \cup {AnyAddress}, i \in Instances \cup {AnyInstance}, mask \in SUBSET Kinds :
          Add(a, i, mask) \/ Clear(a, i, mask)
    \/ \E e \in Event, failing \in SUBSET {"unicast", "multicast"} : Announce(e, failing)
    \/ \E m \in Mode : EnableEvents(m)
    \/ \E present \in BOOLEAN : SetUnicast(present)

Spec == Init /\ [][Next]_<<mode, unicast, rules, op, announced, reply>>

=============================================================================
