----------------------------- MODULE Iteration -----------------------------
(***************************************************************************)
(* Induction over the natural numbers, stated with sets, and the loop that *)
(* it justifies: a recursive function that walks over 1 .. N and carries a *)
(* value along has the values its definition says.                         *)
(***************************************************************************)
EXTENDS WellFoundedInduction, Integers, TLAPS

\* Numbers are ordered so that no set of them is without a least one.
LEMMA LeastNumber ==
    ASSUME NEW T \in SUBSET Nat, T # {}
    PROVE  \E x \in T : \A y \in T : x <= y
<1>1. IsWellFoundedOn(OpToRel(<, Nat), Nat)
    BY NatLessThanWellFounded
<1>2. PICK x \in T : \A y \in T : ~(<<y, x>> \in OpToRel(<, Nat))
    BY <1>1, WFMin
<1>3. \A y \in T : ~(y < x)
    BY <1>2 DEF OpToRel
<1> QED
    BY <1>3

\* A set that holds 0 and with every number its successor holds all of them.
LEMMA InductionOnSets ==
    ASSUME NEW S, 0 \in S, \A n \in Nat : n \in S => n + 1 \in S
    PROVE  Nat \subseteq S
<1> SUFFICES ASSUME Nat \ S # {} PROVE FALSE
    OBVIOUS
<1>1. PICK x \in Nat \ S : \A y \in Nat \ S : x <= y
    BY LeastNumber
<1>2. x # 0 /\ x - 1 \in Nat
    BY <1>1
<1>3. x - 1 \in S
    BY <1>1, <1>2
<1> QED
    BY <1>1, <1>2, <1>3

\* The values a loop over 1 .. N carries along: body[<<n, v>>] is the value after
\* round n when v is the value before it.
IsLoop(f, N, start, body) ==
    f = [n \in 0 .. N |-> IF n = 0 THEN start ELSE body[<<n, f[n - 1]>>]]

\* A loop has values.
LEMMA LoopExists ==
    ASSUME NEW N \in Nat, NEW V, NEW start \in V, NEW body \in [Nat \X V -> V]
    PROVE  \E f \in [0 .. N -> V] : IsLoop(f, N, start, body)
<1> DEFINE S == {m \in Nat : \E f \in [0 .. m -> V] : IsLoop(f, m, start, body)}
<1>1. 0 \in S
    <2>1. [n \in 0 .. 0 |-> start] \in [0 .. 0 -> V]
        OBVIOUS
    <2>2. IsLoop([n \in 0 .. 0 |-> start], 0, start, body)
        BY DEF IsLoop
    <2> QED
        BY <2>1, <2>2
<1>2. ASSUME NEW m \in Nat, m \in S PROVE m + 1 \in S
    <2>1. PICK f \in [0 .. m -> V] : IsLoop(f, m, start, body)
        BY <1>2
    <2> DEFINE g == [n \in 0 .. m + 1 |-> IF n = m + 1 THEN body[<<m + 1, f[m]>>] ELSE f[n]]
    <2>2. g \in [0 .. m + 1 -> V]
        OBVIOUS
    <2>3. ASSUME NEW n \in 0 .. m + 1
          PROVE  g[n] = IF n = 0 THEN start ELSE body[<<n, g[n - 1]>>]
        <3>0. \A k \in 0 .. m : g[k] = f[k]
            OBVIOUS
        <3>1. CASE n = 0
            BY <2>1, <3>1, <3>0 DEF IsLoop
        <3>2. CASE n = m + 1
            <4>1. g[n] = body[<<n, f[m]>>] /\ n # 0 /\ m \in 0 .. m /\ n - 1 = m
                BY <3>2
            <4> HIDE DEF g
            <4> QED
                BY <4>1, <3>0
        <3>3. CASE n \in 1 .. m
            <4>1. f[n] = body[<<n, f[n - 1]>>]
                BY <2>1, <3>3 DEF IsLoop
            <4>2. n \in 0 .. m /\ n - 1 \in 0 .. m /\ n # 0
                BY <3>3
            <4> HIDE DEF g
            <4> QED
                BY <4>1, <4>2, <3>0
        <3> QED
            BY <3>1, <3>2, <3>3
    <2>4. IsLoop(g, m + 1, start, body)
        <3> HIDE DEF g
        <3>1. g = [n \in 0 .. m + 1 |-> g[n]]
            BY <2>2
        <3>2. [n \in 0 .. m + 1 |-> g[n]]
                = [n \in 0 .. m + 1 |-> IF n = 0 THEN start ELSE body[<<n, g[n - 1]>>]]
            BY <2>3, Zenon
        <3> QED
            BY <3>1, <3>2, Zenon DEF IsLoop
    <2> QED
        BY <2>2, <2>4
<1> HIDE DEF S
<1>3. \A m \in Nat : m \in S => m + 1 \in S
    BY <1>2
<1>4. Nat \subseteq S
    BY <1>1, <1>3, InductionOnSets
<1> QED
    BY <1>4 DEF S

\* The same for a loop that leaps forward over 0 .. N: from n it goes on at goes[n],
\* or stops there with the value stops[n]; body[<<n, v>>] is the value at n when v is
\* the value where it goes on.
IsLeap(f, N, goes, stops, body) ==
    f = [n \in 0 .. N |-> IF goes[n] > N THEN stops[n] ELSE body[<<n, f[goes[n]]>>]]

LEMMA LeapExists ==
    ASSUME NEW N \in Nat, NEW V, NEW goes \in [0 .. N -> Nat], NEW stops \in [0 .. N -> V],
           NEW body \in [(0 .. N) \X V -> V], \A n \in 0 .. N : goes[n] > n
    PROVE  \E f \in [0 .. N -> V] : IsLeap(f, N, goes, stops, body)
<1> DEFINE Value(f, n) == IF goes[n] > N THEN stops[n] ELSE body[<<n, f[goes[n]]>>]
           S == {k \in Nat : k <= N + 1 =>
                    \E f \in [0 .. N -> V] : \A n \in N + 1 - k .. N : n >= 0 => f[n] = Value(f, n)}
<1>1. 0 \in S
    <2>1. stops \in [0 .. N -> V] /\ N + 1 - 0 .. N = {}
        OBVIOUS
    <2> HIDE DEF Value
    <2> QED
        BY <2>1
<1>2. ASSUME NEW k \in Nat, k \in S PROVE k + 1 \in S
    <2> SUFFICES ASSUME k + 1 <= N + 1
                 PROVE  \E f \in [0 .. N -> V] :
                           \A n \in N + 1 - (k + 1) .. N : n >= 0 => f[n] = Value(f, n)
        OBVIOUS
    <2>1. PICK f \in [0 .. N -> V] : \A n \in N + 1 - k .. N : n >= 0 => f[n] = Value(f, n)
        BY <1>2
    <2> DEFINE m == N - k
               g == [f EXCEPT ![m] = Value(f, m)]
    <2>2. m \in 0 .. N /\ N + 1 - (k + 1) = m /\ N + 1 - k = m + 1
        OBVIOUS
    <2> HIDE DEF m
    <2>3. Value(f, m) \in V
        BY <2>1, <2>2
    <2>4. g \in [0 .. N -> V] /\ g[m] = Value(f, m) /\ \A n \in m + 1 .. N : g[n] = f[n]
        <3> HIDE DEF Value
        <3> QED
            BY <2>1, <2>2, <2>3
    <2>5. ASSUME NEW n \in m .. N PROVE Value(g, n) = Value(f, n)
        <3>1. n \in 0 .. N /\ (goes[n] > N \/ goes[n] \in m + 1 .. N)
            BY <2>2
        <3>2. goes[n] \in m + 1 .. N => g[goes[n]] = f[goes[n]]
            BY <2>4
        <3> HIDE DEF g
        <3> QED
            BY <3>1, <3>2
    <2>6. ASSUME NEW n \in m .. N PROVE g[n] = Value(g, n)
        <3>1. CASE n = m
            BY <2>4, <2>5, <3>1
        <3>2. CASE n \in m + 1 .. N
            <4>1. n >= 0
                BY <2>2
            <4>2. f[n] = Value(f, n)
                BY <2>1, <2>2, <3>2, <4>1
            <4> HIDE DEF g, Value
            <4> QED
                BY <2>4, <2>5, <3>2, <4>2
        <3> QED
            BY <2>2, <3>1, <3>2
    <2> HIDE DEF g, Value
    <2> QED
        BY <2>2, <2>4, <2>6
<1> HIDE DEF S
<1>3. \A k \in Nat : k \in S => k + 1 \in S
    BY <1>2
<1>4. N + 1 \in S
    BY <1>1, <1>3, InductionOnSets
<1>5. PICK f \in [0 .. N -> V] : \A n \in 0 .. N : f[n] = Value(f, n)
    <2>1. N + 1 - (N + 1) = 0 /\ N + 1 <= N + 1
        OBVIOUS
    <2> HIDE DEF Value
    <2> QED
        BY <1>4, <2>1 DEF S
<1>6. f = [n \in 0 .. N |-> f[n]]
    OBVIOUS
<1>7. [n \in 0 .. N |-> f[n]]
         = [n \in 0 .. N |-> IF goes[n] > N THEN stops[n] ELSE body[<<n, f[goes[n]]>>]]
    BY <1>5, Zenon
<1> QED
    BY <1>6, <1>7, Zenon DEF IsLeap

=============================================================================
