---------------------------- MODULE FilterProofs ----------------------------
(***************************************************************************)
(* The filter list for any addresses, instances, kinds and length: what    *)
(* add and clear do to it, that it acts as the set of rules of EventRules, *)
(* and that a listing page by page is complete.                            *)
(***************************************************************************)
EXTENDS FilterListing, SequenceTheorems, Iteration

-----------------------------------------------------------------------------
(* The loop of a clear                                                       *)

Rest(f, a, i, mask) == IF Reached(f, a, i) THEN [f EXCEPT !.mask = @ \ mask] ELSE f
Gone(f, a, i, mask) == Reached(f, a, i) /\ Rest(f, a, i, mask).mask = {}

\* The list after n rounds of the loop.
IsClearing(g, fs, a, i, mask) ==
    g = [n \in 0 .. Len(fs) |->
            IF n = 0 THEN <<>>
            ELSE IF Gone(fs[n], a, i, mask) THEN g[n - 1]
            ELSE Append(g[n - 1], Rest(fs[n], a, i, mask))]

LEMMA RestIsFilter ==
    ASSUME NEW f \in Filter, NEW a, NEW i, NEW mask
    PROVE  /\ Rest(f, a, i, mask) \in Filter
           /\ Rest(f, a, i, mask).address = f.address
           /\ Rest(f, a, i, mask).instance = f.instance
           /\ Rest(f, a, i, mask).mask = IF Reached(f, a, i) THEN f.mask \ mask ELSE f.mask
BY DEF Rest, Filter

SameKey(f, g) == f.address = g.address /\ f.instance = g.instance

LEMMA RestKeepsKey ==
    ASSUME NEW f \in Filter, NEW a, NEW i, NEW mask
    PROVE  Rest(f, a, i, mask) \in Filter /\ SameKey(Rest(f, a, i, mask), f)
BY DEF SameKey, Rest, Filter

LEMMA ClearingExists ==
    ASSUME NEW fs \in Seq(Filter), NEW a, NEW i, NEW mask
    PROVE  \E g : IsClearing(g, fs, a, i, mask)
<1> DEFINE V == Seq(Filter)
           body == [x \in Nat \X V |->
                       IF x[1] \notin DOMAIN fs \/ Gone(fs[x[1]], a, i, mask) THEN x[2]
                       ELSE Append(x[2], Rest(fs[x[1]], a, i, mask))]
<1>1. ASSUME NEW n \in Nat, NEW v \in V
      PROVE  /\ body[<<n, v>>] = IF n \notin DOMAIN fs \/ Gone(fs[n], a, i, mask) THEN v
                                 ELSE Append(v, Rest(fs[n], a, i, mask))
             /\ body[<<n, v>>] \in V
    <2>0. ASSUME n \in DOMAIN fs PROVE Rest(fs[n], a, i, mask) \in Filter
        <3>1. fs[n] \in Filter
            BY <2>0
        <3> QED
            BY <3>1, RestIsFilter, Zenon
    <2>1. n \in DOMAIN fs => Append(v, Rest(fs[n], a, i, mask)) \in V
        BY <2>0, AppendProperties
    <2>2. <<n, v>> \in Nat \X V
        OBVIOUS
    <2>3. body[<<n, v>>] = IF n \notin DOMAIN fs \/ Gone(fs[n], a, i, mask) THEN v
                           ELSE Append(v, Rest(fs[n], a, i, mask))
        <3> HIDE DEF V
        <3> QED
            BY <2>2
    <2> QED
        BY <2>1, <2>3
<1>2. body \in [Nat \X V -> V]
    BY <1>1
<1> HIDE DEF body
<1>3. <<>> \in V /\ Len(fs) \in Nat /\ DOMAIN fs = 1 .. Len(fs)
    OBVIOUS
<1> HIDE DEF V
<1>4. PICK g \in [0 .. Len(fs) -> V] : IsLoop(g, Len(fs), <<>>, body)
    BY <1>2, <1>3, LoopExists
<1>5. ASSUME NEW n \in 0 .. Len(fs)
      PROVE  (IF n = 0 THEN <<>> ELSE body[<<n, g[n - 1]>>])
                = IF n = 0 THEN <<>>
                  ELSE IF Gone(fs[n], a, i, mask) THEN g[n - 1]
                  ELSE Append(g[n - 1], Rest(fs[n], a, i, mask))
    <2>1. CASE n # 0
        <3>1. n \in DOMAIN fs /\ n \in Nat /\ n - 1 \in 0 .. Len(fs)
            BY <1>3, <2>1
        <3>2. g[n - 1] \in V
            BY <3>1
        <3> QED
            BY <3>1, <3>2, <2>1, <1>1
    <2> QED
        BY <2>1
<1>6. IsClearing(g, fs, a, i, mask)
    BY <1>4, <1>5, Zenon DEF IsLoop, IsClearing
<1> QED
    BY <1>6

\* Round by round.
Rounds(g, fs, a, i, mask) ==
    /\ g[0] = <<>>
    /\ \A n \in 1 .. Len(fs) :
          g[n] = IF Gone(fs[n], a, i, mask) THEN g[n - 1]
                 ELSE Append(g[n - 1], Rest(fs[n], a, i, mask))

LEMMA RemainingIsClearing ==
    ASSUME NEW fs \in Seq(Filter), NEW a, NEW i, NEW mask
    PROVE  \E g : Rounds(g, fs, a, i, mask) /\ Remaining(fs, a, i, mask) = g[Len(fs)]
<1> DEFINE g == CHOOSE h : IsClearing(h, fs, a, i, mask)
<1>1. IsClearing(g, fs, a, i, mask)
    BY ClearingExists, Zenon
<1>2. Remaining(fs, a, i, mask) = g[Len(fs)]
    BY Zenon DEF Remaining, IsClearing, Gone, Rest
<1> HIDE DEF g
<1>3. Len(fs) \in Nat
    OBVIOUS
<1>4. g[0] = <<>>
    BY <1>1, <1>3 DEF IsClearing
<1>5. ASSUME NEW n \in 1 .. Len(fs)
      PROVE  g[n] = IF Gone(fs[n], a, i, mask) THEN g[n - 1]
                    ELSE Append(g[n - 1], Rest(fs[n], a, i, mask))
    <2>1. n \in 0 .. Len(fs) /\ n # 0
        BY <1>3
    <2> QED
        BY <1>1, <2>1, Zenon DEF IsClearing
<1>6. Rounds(g, fs, a, i, mask)
    BY <1>4, <1>5 DEF Rounds
<1> QED
    BY <1>2, <1>6

\* The list is made of the same entries as before without the bits cleared, and
\* without those that have none left.
Kept(fs, a, i, mask) ==
    {Rest(f, a, i, mask) : f \in {f \in Rng(fs) : ~Gone(f, a, i, mask)}}

KeysDistinct(fs) == \A m, n \in DOMAIN fs : SameKey(fs[m], fs[n]) => m = n

LEMMA RemainingEntries ==
    ASSUME NEW fs \in Seq(Filter), NEW a, NEW i, NEW mask
    PROVE  /\ Remaining(fs, a, i, mask) \in Seq(Filter)
           /\ Rng(Remaining(fs, a, i, mask)) = Kept(fs, a, i, mask)
           /\ KeysDistinct(fs) => KeysDistinct(Remaining(fs, a, i, mask))
<1>1. PICK g : Rounds(g, fs, a, i, mask) /\ Remaining(fs, a, i, mask) = g[Len(fs)]
    BY RemainingIsClearing, Zenon
<1> DEFINE After(n) ==
              /\ g[n] \in Seq(Filter)
              /\ Rng(g[n]) = {Rest(fs[k], a, i, mask) :
                                 k \in {k \in 1 .. n : ~Gone(fs[k], a, i, mask)}}
              /\ KeysDistinct(fs) => KeysDistinct(g[n])
           S == {n \in Nat : n <= Len(fs) => After(n)}
<1>2. After(0)
    BY <1>1 DEF Rng, KeysDistinct, Rounds
<1>3. ASSUME NEW n \in Nat, n + 1 <= Len(fs), After(n) PROVE After(n + 1)
    <2> DEFINE f == fs[n + 1]
    <2>1. f \in Filter /\ n + 1 \in 1 .. Len(fs) /\ (n + 1) - 1 = n
        BY <1>3
    <2>2. g[n + 1] = IF Gone(f, a, i, mask) THEN g[n] ELSE Append(g[n], Rest(f, a, i, mask))
        BY <1>1, <2>1 DEF Rounds
    <2>3. 1 .. n + 1 = (1 .. n) \cup {n + 1}
        OBVIOUS
    <2>4. CASE Gone(f, a, i, mask)
        <3>1. {k \in 1 .. n + 1 : ~Gone(fs[k], a, i, mask)}
                = {k \in 1 .. n : ~Gone(fs[k], a, i, mask)}
            BY <2>3, <2>4
        <3> QED
            BY <1>3, <2>2, <2>4, <3>1
    <2>5. CASE ~Gone(f, a, i, mask)
        <3> DEFINE x == Rest(f, a, i, mask)
        <3>1. x \in Filter /\ SameKey(x, f)
            BY <2>1, RestKeepsKey, Zenon
        <3> HIDE DEF x
        <3>2. g[n + 1] = Append(g[n], x)
            BY <2>2, <2>5 DEF x
        <3>3. /\ g[n + 1] \in Seq(Filter)
              /\ Len(g[n + 1]) = Len(g[n]) + 1
              /\ \A k \in 1 .. Len(g[n]) : g[n + 1][k] = g[n][k]
              /\ g[n + 1][Len(g[n]) + 1] = x
              /\ DOMAIN g[n + 1] = 1 .. Len(g[n]) + 1
              /\ DOMAIN g[n] = 1 .. Len(g[n])
              /\ Len(g[n]) \in Nat
            BY <3>1, <3>2, <1>3, AppendProperties
        <3>4. Rng(g[n + 1]) = Rng(g[n]) \cup {x}
            <4>1. \A k \in 1 .. Len(g[n]) + 1 : k \in 1 .. Len(g[n]) \/ k = Len(g[n]) + 1
                BY <3>3
            <4>2. \A k \in 1 .. Len(g[n]) : k \in 1 .. Len(g[n]) + 1
                BY <3>3
            <4>3. Len(g[n]) + 1 \in 1 .. Len(g[n]) + 1
                BY <3>3
            <4> QED
                BY <3>3, <4>1, <4>2, <4>3, Zenon DEF Rng
        <3>5. {k \in 1 .. n + 1 : ~Gone(fs[k], a, i, mask)}
                = {k \in 1 .. n : ~Gone(fs[k], a, i, mask)} \cup {n + 1}
            BY <2>3, <2>5
        <3>6. Rng(g[n + 1]) = {Rest(fs[k], a, i, mask) :
                                 k \in {k \in 1 .. n + 1 : ~Gone(fs[k], a, i, mask)}}
            BY <3>4, <3>5, <1>3 DEF x
        <3>7. ASSUME KeysDistinct(fs) PROVE KeysDistinct(g[n + 1])
            <4>1. ASSUME NEW k \in DOMAIN g[n] PROVE ~SameKey(g[n][k], x)
                <5>1. g[n][k] \in Rng(g[n])
                    BY DEF Rng
                <5>2. PICK q \in 1 .. n : g[n][k] = Rest(fs[q], a, i, mask)
                    BY <5>1, <1>3
                <5>3. q \in DOMAIN fs /\ n + 1 \in DOMAIN fs /\ q # n + 1
                    BY <1>3
                <5>4. SameKey(g[n][k], fs[q])
                    <6>1. fs[q] \in Filter
                        BY <5>3
                    <6> QED
                        BY <5>2, <6>1, RestKeepsKey, Zenon
                <5> QED
                    BY <5>3, <5>4, <3>1, <3>7 DEF KeysDistinct, SameKey
            <4>2. ASSUME NEW k \in DOMAIN g[n + 1], NEW l \in DOMAIN g[n + 1],
                         SameKey(g[n + 1][k], g[n + 1][l])
                  PROVE  k = l
                <5>1. CASE k \in DOMAIN g[n] /\ l \in DOMAIN g[n]
                    BY <5>1, <4>2, <3>3, <3>7, <1>3, Zenon DEF KeysDistinct
                <5>2. CASE k \in DOMAIN g[n] /\ l \notin DOMAIN g[n]
                    <6>1. g[n + 1][k] = g[n][k] /\ g[n + 1][l] = x
                        BY <5>2, <3>3
                    <6> QED
                        BY <6>1, <5>2, <4>1, <4>2
                <5>3. CASE k \notin DOMAIN g[n] /\ l \in DOMAIN g[n]
                    <6>1. g[n + 1][l] = g[n][l] /\ g[n + 1][k] = x
                        BY <5>3, <3>3
                    <6> QED
                        BY <6>1, <5>3, <4>1, <4>2 DEF SameKey
                <5>4. CASE k \notin DOMAIN g[n] /\ l \notin DOMAIN g[n]
                    BY <5>4, <3>3
                <5> QED
                    BY <5>1, <5>2, <5>3, <5>4
            <4> QED
                BY <4>2 DEF KeysDistinct
        <3> QED
            BY <3>3, <3>6, <3>7
    <2> QED
        BY <2>4, <2>5
<1> HIDE DEF After
<1>4. 0 \in S
    BY <1>2
<1>5. ASSUME NEW n \in Nat, n \in S PROVE n + 1 \in S
    BY <1>3, <1>5
<1> HIDE DEF S
<1>6. Nat \subseteq S
    BY <1>4, <1>5, InductionOnSets
<1>7. After(Len(fs))
    BY <1>6 DEF S
<1>8. {Rest(fs[k], a, i, mask) : k \in {k \in 1 .. Len(fs) : ~Gone(fs[k], a, i, mask)}}
        = Kept(fs, a, i, mask)
    BY DEF Rng, Kept
<1> QED
    BY <1>1, <1>7, <1>8 DEF After

-----------------------------------------------------------------------------
(* The entry an add appends or takes its bits into                           *)

LEMMA AddedEntries ==
    ASSUME NEW fs \in Seq(Filter), KeysDistinct(fs),
           NEW a \in Addresses \cup {AnyAddress}, NEW i \in Instances \cup {AnyInstance},
           NEW mask \in SUBSET Kinds
    PROVE  /\ Added(fs, a, i, mask) \in Seq(Filter)
           /\ KeysDistinct(Added(fs, a, i, mask))
           /\ Len(fs) <= Len(Added(fs, a, i, mask))
           /\ \A n \in 1 .. Len(fs) : RulesOf(fs[n]) \subseteq RulesOf(Added(fs, a, i, mask)[n])
           /\ RulesIn(Rng(Added(fs, a, i, mask)))
                 = RulesIn(Rng(fs)) \cup {[address |-> a, instance |-> i, kind |-> k] : k \in mask}
<1> DEFINE same == {n \in DOMAIN fs : fs[n].address = a /\ fs[n].instance = i}
           first == CHOOSE n \in same : \A k \in same : n <= k
           new == [address |-> a, instance |-> i, mask |-> mask]
           gs == Added(fs, a, i, mask)
           rules == {[address |-> a, instance |-> i, kind |-> k] : k \in mask}
<1>1. gs = IF same = {} THEN Append(fs, new) ELSE [fs EXCEPT ![first].mask = @ \cup mask]
    BY DEF Added
<1>2. new \in Filter /\ RulesOf(new) = rules
    BY DEF Filter, RulesOf
<1>3. Len(fs) \in Nat /\ DOMAIN fs = 1 .. Len(fs) /\ \A n \in 1 .. Len(fs) : fs[n] \in Filter
    OBVIOUS
<1>4. CASE same = {}
    <2>1. gs = Append(fs, new)
        BY <1>1, <1>4
    <2> HIDE DEF new, gs, rules
    <2>2. /\ gs \in Seq(Filter)
          /\ Len(gs) = Len(fs) + 1
          /\ \A k \in 1 .. Len(fs) : gs[k] = fs[k]
          /\ gs[Len(fs) + 1] = new
          /\ DOMAIN gs = 1 .. Len(fs) + 1
        BY <1>2, <1>3, <2>1, AppendProperties
    <2>3. \A k \in 1 .. Len(fs) : gs[k].address = a => gs[k].instance # i
        BY <1>3, <1>4, <2>2
    <2>4. new.address = a /\ new.instance = i
        BY DEF new
    <2>5. ASSUME NEW k \in DOMAIN gs, NEW l \in DOMAIN gs, SameKey(gs[k], gs[l])
          PROVE  k = l
        <3>1. CASE k \in DOMAIN fs /\ l \in DOMAIN fs
            <4>1. gs[k] = fs[k] /\ gs[l] = fs[l]
                BY <1>3, <2>2, <3>1
            <4> QED
                BY <4>1, <2>5, <3>1 DEF KeysDistinct
        <3>2. CASE k \in DOMAIN fs /\ l = Len(fs) + 1
            BY <1>3, <2>2, <2>3, <2>4, <2>5, <3>2 DEF SameKey
        <3>3. CASE l \in DOMAIN fs /\ k = Len(fs) + 1
            BY <1>3, <2>2, <2>3, <2>4, <2>5, <3>3 DEF SameKey
        <3>4. CASE k = Len(fs) + 1 /\ l = Len(fs) + 1
            BY <3>4
        <3>5. \A n \in 1 .. Len(fs) + 1 : n \in 1 .. Len(fs) \/ n = Len(fs) + 1
            BY <1>3
        <3> QED
            BY <1>3, <2>2, <3>1, <3>2, <3>3, <3>4, <3>5
    <2>6. Rng(gs) = Rng(fs) \cup {new}
        <3>1. \A k \in 1 .. Len(fs) + 1 : k \in 1 .. Len(fs) \/ k = Len(fs) + 1
            BY <1>3
        <3>2. \A k \in 1 .. Len(fs) : k \in 1 .. Len(fs) + 1
            BY <1>3
        <3>3. Len(fs) + 1 \in 1 .. Len(fs) + 1
            BY <1>3
        <3> QED
            BY <1>3, <2>2, <3>1, <3>2, <3>3, Zenon DEF Rng
    <2>7. RulesIn(Rng(gs)) = RulesIn(Rng(fs)) \cup rules
        BY <1>2, <2>6 DEF RulesIn
    <2> QED
        BY <1>3, <2>2, <2>5, <2>7 DEF KeysDistinct, gs, rules
<1>5. CASE same # {}
    <2>1. same \in SUBSET Nat
        BY <1>3
    <2>2. first \in same
        <3> HIDE DEF same
        <3>1. \E n \in same : \A k \in same : n <= k
            BY <1>5, <2>1, LeastNumber
        <3> QED
            BY <3>1
    <2> HIDE DEF first
    <2>3. first \in 1 .. Len(fs) /\ SameKey(fs[first], new) /\ fs[first] \in Filter
        BY <2>2, <1>3 DEF SameKey
    <2> DEFINE x == [fs[first] EXCEPT !.mask = @ \cup mask]
    <2>4. gs = [fs EXCEPT ![first] = x]
        BY <1>1, <1>5
    <2>5. x \in Filter /\ SameKey(x, fs[first]) /\ x.mask = fs[first].mask \cup mask
        BY <2>3 DEF Filter, SameKey
    <2>6. RulesOf(x) = RulesOf(fs[first]) \cup rules
        BY <2>3, <2>5 DEF RulesOf, SameKey
    <2> HIDE DEF x, new, gs, rules
    <2>7. /\ gs \in Seq(Filter)
          /\ Len(gs) = Len(fs)
          /\ \A k \in 1 .. Len(fs) : gs[k] = IF k = first THEN x ELSE fs[k]
          /\ DOMAIN gs = 1 .. Len(fs)
        BY <1>3, <2>3, <2>4, <2>5, ExceptSeq
    <2>8. \A k \in 1 .. Len(fs) : SameKey(gs[k], fs[k]) /\ RulesOf(fs[k]) \subseteq RulesOf(gs[k])
        BY <2>5, <2>6, <2>7 DEF SameKey
    <2>9. KeysDistinct(gs)
        BY <1>3, <2>7, <2>8 DEF KeysDistinct, SameKey
    <2>10. RulesIn(Rng(gs)) = RulesIn(Rng(fs)) \cup rules
        <3>1. \A s, r : r \in RulesIn(Rng(s)) <=> \E k \in DOMAIN s : r \in RulesOf(s[k])
            BY DEF RulesIn, Rng
        <3>2. \A k \in DOMAIN fs : k # first => RulesOf(gs[k]) = RulesOf(fs[k])
            BY <1>3, <2>7
        <3>3. RulesOf(gs[first]) = RulesOf(fs[first]) \cup rules
            BY <2>3, <2>6, <2>7
        <3>4. DOMAIN gs = DOMAIN fs /\ first \in DOMAIN fs
            BY <1>3, <2>3, <2>7
        <3>5. \A r : r \in RulesIn(Rng(gs)) <=> r \in RulesIn(Rng(fs)) \/ r \in rules
            BY <3>1, <3>2, <3>3, <3>4, Zenon
        <3> QED
            BY <3>5, Zenon
    <2> QED
        BY <1>3, <2>7, <2>8, <2>9, <2>10 DEF gs, rules
<1> QED
    BY <1>4, <1>5

-----------------------------------------------------------------------------
(* The rules after a clear                                                   *)

Uncleared(rules, a, i, mask) == {r \in rules : ~(Rules!Reaches(a, i, r) /\ r.kind \in mask)}

LEMMA RemainingRules ==
    ASSUME NEW fs \in Seq(Filter), NEW a, NEW i, NEW mask
    PROVE  RulesIn(Rng(Remaining(fs, a, i, mask))) = Uncleared(RulesIn(Rng(fs)), a, i, mask)
<1> DEFINE gs == Remaining(fs, a, i, mask)
           cleared == {r \in RulesIn(Rng(fs)) : ~(Rules!Reaches(a, i, r) /\ r.kind \in mask)}
<1>1. ASSUME NEW f \in Filter
      PROVE  RulesOf(Rest(f, a, i, mask))
               = {r \in RulesOf(f) : ~(Rules!Reaches(a, i, r) /\ r.kind \in mask)}
    <2>1. \A r \in RulesOf(f) : Rules!Reaches(a, i, r) <=> Reached(f, a, i)
        BY DEF RulesOf, Rules!Reaches, Reached
    <2>2. CASE Reached(f, a, i)
        <3>1. \A r : r \in RulesOf(Rest(f, a, i, mask)) <=> r \in RulesOf(f) /\ r.kind \notin mask
            BY <2>2 DEF RulesOf, Rest, Filter
        <3> QED
            BY <2>1, <2>2, <3>1
    <2>3. CASE ~Reached(f, a, i)
        BY <2>1, <2>3 DEF Rest
    <2> QED
        BY <2>2, <2>3
<1>2. ASSUME NEW f \in Filter, Gone(f, a, i, mask)
      PROVE  RulesOf(Rest(f, a, i, mask)) = {}
    BY <1>2 DEF Gone, RulesOf
<1>3. \A f \in Rng(fs) : f \in Filter
    BY DEF Rng
<1>4. Rng(gs) = Kept(fs, a, i, mask)
    BY RemainingEntries, Zenon
<1> HIDE DEF gs
<1>5. ASSUME NEW r \in RulesIn(Rng(gs)) PROVE r \in cleared
    <2>1. PICK f \in Rng(fs) : r \in RulesOf(Rest(f, a, i, mask))
        BY <1>4 DEF RulesIn, Kept
    <2> QED
        BY <1>1, <1>3, <2>1 DEF RulesIn
<1>6. ASSUME NEW r \in cleared PROVE r \in RulesIn(Rng(gs))
    <2>1. PICK f \in Rng(fs) : r \in RulesOf(f)
        BY DEF RulesIn
    <2>2. r \in RulesOf(Rest(f, a, i, mask))
        BY <1>1, <1>3, <2>1
    <2>3. ~Gone(f, a, i, mask)
        BY <1>2, <1>3, <2>2
    <2> QED
        BY <1>4, <2>2, <2>3 DEF RulesIn, Kept
<1> QED
    BY <1>5, <1>6 DEF gs, Uncleared

-----------------------------------------------------------------------------
(* The list                                                                  *)

LEMMA ListOKIsKeys == ListOK <=> mode \in Mode /\ filters \in Seq(Filter) /\ KeysDistinct(filters)
BY DEF ListOK, KeysDistinct, SameKey

LEMMA ListOKNext == ASSUME ListOK, [Next]_vars PROVE ListOK'
<1> USE FilterAssumption
<1>1. ASSUME NEW m \in Modes, EnableEvents(m) PROVE ListOK'
    BY <1>1 DEF EnableEvents, ListOK
<1>2. ASSUME NEW present \in BOOLEAN, SetUnicast(present) PROVE ListOK'
    BY <1>2 DEF SetUnicast, ListOK
<1>3. ASSUME NEW a \in Addresses \cup {AnyAddress}, NEW i \in Instances \cup {AnyInstance},
             NEW mask \in Masks, AddFilter(a, i, mask)
      PROVE  ListOK'
    <2>1. mask \in SUBSET Kinds
        OBVIOUS
    <2>2. filters' \in Seq(Filter) /\ KeysDistinct(filters')
        BY <1>3, <2>1, AddedEntries, ListOKIsKeys, Zenon DEF AddFilter
    <2> QED
        BY <1>3, <2>2, ListOKIsKeys DEF AddFilter, ListOK, KeysDistinct, SameKey
<1>4. ASSUME NEW a, NEW i, NEW mask, ClearFilters(a, i, mask) PROVE ListOK'
    <2>1. filters' \in Seq(Filter) /\ KeysDistinct(filters')
        BY <1>4, RemainingEntries, ListOKIsKeys, Zenon DEF ClearFilters
    <2> QED
        BY <1>4, <2>1, ListOKIsKeys DEF ClearFilters, ListOK, KeysDistinct, SameKey
<1>5. ASSUME NEW e, NEW failing, Emit(e, failing) PROVE ListOK'
    BY <1>5 DEF Emit, ListOK
<1>6. CASE UNCHANGED vars
    BY <1>6 DEF vars, ListOK
<1> QED
    BY <1>1, <1>2, <1>3, <1>4, <1>5, <1>6 DEF Next

LEMMA ListOKInit == Init => ListOK
BY FilterAssumption DEF Init, ListOK

\* Whatever requests come, no two entries of the list are for the same address
\* and instance, so the entry an add finds is the only one a later clear must
\* reach.
THEOREM FilterListHasNoTwins == Spec => []ListOK
<1>1. ListOK /\ [Next]_vars => ListOK'
    BY ListOKNext
<1> QED
    BY ListOKInit, <1>1, PTL DEF Spec

-----------------------------------------------------------------------------
(* The list as a set of rules                                                *)

LEMMA FilteredBySomeRule ==
    ASSUME ListOK, NEW e
    PROVE  (\E f \in Rng(filters) : Matches(f, e))
              <=> \E r \in RulesIn(Rng(filters)) : Rules!Silences(r, e)
<1>1. ASSUME NEW f, Matches(f, e)
      PROVE  \E r \in RulesOf(f) : Rules!Silences(r, e)
    <2> DEFINE r == [address |-> f.address, instance |-> f.instance, kind |-> e.kind]
    <2>1. r \in RulesOf(f)
        BY <1>1 DEF Matches, RulesOf
    <2>2. Rules!Silences(r, e)
        BY <1>1 DEF Matches, Rules!Silences
    <2> QED
        BY <2>1, <2>2
<1>2. ASSUME NEW f, NEW r \in RulesOf(f), Rules!Silences(r, e)
      PROVE  Matches(f, e)
    BY <1>2 DEF Matches, Rules!Silences, RulesOf
<1> QED
    BY <1>1, <1>2 DEF RulesIn

\* A clear answers that it found nothing exactly when no rule went.
LEMMA ClearedSomething ==
    ASSUME NEW fs \in Seq(Filter), NEW a, NEW i, NEW mask
    PROVE  (\E f \in Rng(fs) : Reached(f, a, i) /\ f.mask \cap mask # {})
              <=> RulesIn(Rng(Remaining(fs, a, i, mask))) # RulesIn(Rng(fs))
<1>1. ASSUME NEW f, NEW k \in f.mask \cap mask, Reached(f, a, i)
      PROVE  \E r \in RulesOf(f) : Rules!Reaches(a, i, r) /\ r.kind \in mask
    <2> DEFINE r == [address |-> f.address, instance |-> f.instance, kind |-> k]
    <2>1. r \in RulesOf(f) /\ r.kind \in mask
        BY DEF RulesOf
    <2>2. Rules!Reaches(a, i, r)
        BY <1>1 DEF Reached, Rules!Reaches
    <2> QED
        BY <2>1, <2>2
<1>2. ASSUME NEW f, NEW r \in RulesOf(f), Rules!Reaches(a, i, r), r.kind \in mask
      PROVE  Reached(f, a, i) /\ f.mask \cap mask # {}
    BY <1>2 DEF RulesOf, Reached, Rules!Reaches
<1>3. (\E f \in Rng(fs) : Reached(f, a, i) /\ f.mask \cap mask # {})
        <=> \E r \in RulesIn(Rng(fs)) : Rules!Reaches(a, i, r) /\ r.kind \in mask
    BY <1>1, <1>2 DEF RulesIn
<1>4. RulesIn(Rng(Remaining(fs, a, i, mask))) = Uncleared(RulesIn(Rng(fs)), a, i, mask)
    BY RemainingRules, Zenon
<1> QED
    BY <1>3, <1>4 DEF Uncleared

LEMMA RulesStep ==
    ASSUME ListOK, [Next]_vars
    PROVE  [Rules!Next]_<<mode, unicast, RulesIn(Rng(filters)), op, announced, reply>>
<1> USE FilterAssumption
<1>1. ASSUME NEW m \in Modes, EnableEvents(m) PROVE Rules!Next
    <2>1. m \in Rules!Mode
        BY DEF Mode, Rules!Mode
    <2>2. Rules!EnableEvents(m)
        BY <1>1 DEF EnableEvents, Rules!EnableEvents
    <2> QED
        BY <2>1, <2>2 DEF Rules!Next
<1>2. ASSUME NEW present \in BOOLEAN, SetUnicast(present) PROVE Rules!Next
    <2>1. Rules!SetUnicast(present)
        BY <1>2 DEF SetUnicast, Rules!SetUnicast
    <2> QED
        BY <2>1 DEF Rules!Next
<1>3. ASSUME NEW a \in Addresses \cup {AnyAddress}, NEW i \in Instances \cup {AnyInstance},
             NEW mask \in Masks, AddFilter(a, i, mask)
      PROVE  Rules!Next
    <2>1. mask \in SUBSET Kinds
        OBVIOUS
    <2>2. RulesIn(Rng(filters')) = RulesIn(Rng(filters)) \cup Rules!RulesFor(a, i, mask)
        BY <1>3, <2>1, AddedEntries, ListOKIsKeys, Zenon DEF AddFilter, Rules!RulesFor
    <2>3. Rules!Add(a, i, mask)
        BY <1>3, <2>2 DEF AddFilter, Rules!Add, On, Rules!On
    <2> QED
        BY <2>1, <2>3 DEF Rules!Next
<1>4. ASSUME NEW a \in Addresses \cup {AnyAddress}, NEW i \in Instances \cup {AnyInstance},
             NEW mask \in Masks, ClearFilters(a, i, mask)
      PROVE  Rules!Next
    <2>1. mask \in SUBSET Kinds
        OBVIOUS
    <2>2. filters' = Remaining(filters, a, i, mask) /\ filters \in Seq(Filter)
        BY <1>4 DEF ClearFilters, ListOK
    <2>3. RulesIn(Rng(filters')) = Uncleared(RulesIn(Rng(filters)), a, i, mask)
        BY <2>2, RemainingRules, Zenon
    <2>4. reply' = IF RulesIn(Rng(filters')) = RulesIn(Rng(filters)) THEN "no_answer" ELSE "ok"
        <3>1. (\E f \in Rng(filters) : Reached(f, a, i) /\ f.mask \cap mask # {})
                <=> RulesIn(Rng(Remaining(filters, a, i, mask))) # RulesIn(Rng(filters))
            BY <2>2, ClearedSomething
        <3>2. reply' = IF \E f \in Rng(filters) : Reached(f, a, i) /\ f.mask \cap mask # {}
                       THEN "ok" ELSE "no_answer"
            BY <1>4 DEF ClearFilters
        <3> QED
            BY <2>2, <3>1, <3>2
    <2>5. Rules!Clear(a, i, mask)
        BY <1>4, <2>3, <2>4 DEF Uncleared, ClearFilters, Rules!Clear, On, Rules!On
    <2> QED
        BY <2>1, <2>5 DEF Rules!Next
<1>5. ASSUME NEW e \in Event, NEW failing \in SUBSET {"unicast", "multicast"}, Emit(e, failing)
      PROVE  Rules!Next
    <2>1. Filtered(filters, e)
             <=> mode.filtering /\ \E r \in RulesIn(Rng(filters)) : Rules!Silences(r, e)
        BY FilteredBySomeRule, Zenon DEF Filtered
    <2>2. Rules!Announce(e, failing)
        BY <1>5, <2>1 DEF Emit, Rules!Announce, Transports, Rules!Available
    <2>3. e \in Rules!Event
        BY DEF Event, Rules!Event
    <2> QED
        BY <2>2, <2>3 DEF Rules!Next
<1>6. CASE UNCHANGED vars
    BY <1>6 DEF vars
<1> QED
    BY <1>1, <1>2, <1>3, <1>4, <1>5, <1>6 DEF Next

\* The list implements the set of rules: adds, clears with wildcards, and events
\* act on it as they act on the rules it stands for, in whatever order they come.
THEOREM FilterListActsAsRules == Spec => ImplementsRules
<1>1. Init => Rules!Init
    BY FilterAssumption DEF Init, Rules!Init, RulesIn, Rng, Mode, Rules!Mode
<1>2. ListOK /\ [Next]_vars
        => [Rules!Next]_<<mode, unicast, RulesIn(Rng(filters)), op, announced, reply>>
    BY RulesStep
<1> QED
    BY <1>1, <1>2, FilterListHasNoTwins, PTL DEF Spec, ImplementsRules, Rules!Spec

-----------------------------------------------------------------------------
(* A clear                                                                   *)

LEMMA ClearLetsEventsFlow ==
    ASSUME ListOK, NEW a \in Addresses \cup {AnyAddress}, NEW i \in Instances \cup {AnyInstance},
           NEW mask, NEW e, a \in {AnyAddress, e.target}, i = AnyInstance \/ i = e.instance,
           e.kind \in mask, NEW f \in Rng(Remaining(filters, a, i, mask))
    PROVE  ~Matches(f, e)
<1> SUFFICES ASSUME Matches(f, e) PROVE FALSE
    OBVIOUS
<1>1. filters \in Seq(Filter)
    BY DEF ListOK
<1>2. f \in Kept(filters, a, i, mask)
    BY <1>1, RemainingEntries, Zenon
<1>3. PICK g \in Rng(filters) : f = Rest(g, a, i, mask)
    BY <1>2 DEF Kept
<1>4. g \in Filter
    BY <1>1 DEF Rng
<1>5. SameKey(f, g)
    BY <1>3, <1>4, RestKeepsKey, Zenon
<1>6. Reached(g, a, i)
    <2>1. g.address \in {AnyAddress, e.target}
        BY <1>5 DEF Matches, SameKey
    <2>2. i = AnyInstance \/ g.instance \in {i, AnyInstance}
        BY <1>5, FilterAssumption DEF Matches, SameKey
    <2> QED
        BY <2>1, <2>2 DEF Reached
<1>7. f.mask = g.mask \ mask
    BY <1>3, <1>4, <1>6 DEF Rest, Filter
<1> QED
    BY <1>7 DEF Matches

LEMMA ClearedEventsFlowStep ==
    ASSUME ListOK, Next, op'.kind = "clear"
    PROVE  \E a \in Addresses \cup {AnyAddress}, i \in Instances \cup {AnyInstance}, mask \in Masks :
              ClearFilters(a, i, mask)
BY DEF Next, EnableEvents, SetUnicast, AddFilter, Emit, On

\* After a clear no entry of the list holds back an event of the address,
\* instance and kinds it named, whether the entry was added for them or for all.
THEOREM ClearsLetEventsFlow == Spec => ClearedEventsFlow
<1>1. ASSUME ListOK, [Next]_vars
      PROVE  [op'.kind = "clear" =>
                 \A e \in Event :
                     (/\ op'.address \in {AnyAddress, e.target}
                      /\ op'.instance = AnyInstance \/ op'.instance = e.instance
                      /\ e.kind \in op'.mask) => \A f \in Rng(filters') : ~Matches(f, e)]_vars
    <2> SUFFICES ASSUME Next, op'.kind = "clear", NEW e \in Event,
                        op'.address \in {AnyAddress, e.target},
                        op'.instance = AnyInstance \/ op'.instance = e.instance,
                        e.kind \in op'.mask,
                        NEW f \in Rng(filters')
                 PROVE  ~Matches(f, e)
        BY <1>1
    <2>1. PICK a \in Addresses \cup {AnyAddress}, i \in Instances \cup {AnyInstance}, mask \in Masks :
              ClearFilters(a, i, mask)
        BY <1>1, ClearedEventsFlowStep
    <2>2. op'.address = a /\ op'.instance = i /\ op'.mask = mask
        BY <2>1 DEF ClearFilters, On
    <2>3. filters' = Remaining(filters, a, i, mask)
        BY <2>1 DEF ClearFilters
    <2> QED
        BY <1>1, <2>2, <2>3, ClearLetsEventsFlow
<1> QED
    BY <1>1, FilterListHasNoTwins, PTL DEF Spec, ClearedEventsFlow

-----------------------------------------------------------------------------
(* A listing page by page                                                    *)

\* The rules of the entries the listing has not come to.
Ahead(fs, at) == RulesIn({fs[n] : n \in {n \in DOMAIN fs : n > at}})

ListingOK ==
    /\ listing.at \in Nat
    /\ (listing.on /\ ~listing.cleared) =>
          listing.before \subseteq listing.got \cup Ahead(filters, listing.at)

LIInv == ListOK /\ ListingOK /\ DOMAIN listing = DOMAIN NotListing

LEMMA PageEntries ==
    ASSUME NEW fs \in Seq(Filter), NEW at \in Nat
    PROVE  /\ Ahead(fs, at) \subseteq RulesIn(Rng(Page(fs, at))) \cup Ahead(fs, at + PageSize)
           /\ Rng(Page(fs, at)) = {} => Ahead(fs, at) = {}
<1> DEFINE last == IF at + PageSize < Len(fs) THEN at + PageSize ELSE Len(fs)
           page == Page(fs, at)
<1>1. last \in Int /\ Len(fs) \in Nat /\ DOMAIN fs = 1 .. Len(fs) /\ PageSize \in Nat \ {0}
    BY PageAssumption
<1>2. page = SubSeq(fs, at + 1, last)
    BY DEF Page
<1>3. \A n \in at + 1 .. last : fs[n] \in Filter
    BY <1>1
<1>4. /\ page \in Seq(Filter)
      /\ Len(page) = IF at + 1 <= last THEN last - at ELSE 0
      /\ \A n \in 1 .. last - at : page[n] = fs[n + at]
    <2>1. /\ page \in Seq(Filter)
          /\ Len(page) = IF at + 1 <= last THEN last - (at + 1) + 1 ELSE 0
          /\ \A n \in 1 .. last - (at + 1) + 1 : page[n] = fs[(at + 1) + n - 1]
        <3> HIDE DEF last, page
        <3> QED
            BY <1>1, <1>2, <1>3, SubSeqProperties
    <2>2. last - (at + 1) + 1 = last - at /\ \A n \in Nat : (at + 1) + n - 1 = n + at
        BY <1>1
    <2> HIDE DEF last, page
    <2> QED
        BY <1>1, <2>1, <2>2
<1>5. ASSUME NEW n \in at + 1 .. last PROVE fs[n] \in Rng(page)
    <2>0. at + 1 <= last /\ n - at \in 1 .. last - at /\ (n - at) + at = n
        <3> HIDE DEF last
        <3> QED
            BY <1>1
    <2>1. n - at \in 1 .. last - at /\ n - at \in 1 .. Len(page) /\ (n - at) + at = n
        <3> HIDE DEF last, page
        <3> QED
            BY <2>0, <1>4
    <2>2. page[n - at] = fs[n]
        <3> HIDE DEF last, page
        <3> QED
            BY <1>4, <2>1
    <2>3. DOMAIN page = 1 .. Len(page)
        BY <1>4, LenProperties
    <2> QED
        BY <2>1, <2>2, <2>3 DEF Rng
<1>6. ASSUME NEW n \in DOMAIN fs, n > at PROVE n \in at + 1 .. last \/ n > at + PageSize
    BY <1>1, <1>6
<1>7. ASSUME NEW n \in DOMAIN fs, n > at PROVE at + 1 \in at + 1 .. last
    BY <1>1, <1>7
<1> HIDE DEF page, last
<1>8. Ahead(fs, at) \subseteq RulesIn(Rng(page)) \cup Ahead(fs, at + PageSize)
    BY <1>5, <1>6 DEF Ahead, RulesIn
<1>9. Rng(page) = {} => Ahead(fs, at) = {}
    BY <1>5, <1>7 DEF Ahead, RulesIn
<1> QED
    BY <1>8, <1>9 DEF page

LEMMA QueryListing == ASSUME LIInv, QueryFilters PROVE ListingOK'
<1> DEFINE page == Rng(Page(filters, listing.at))
<1>1. filters \in Seq(Filter) /\ listing.at \in Nat /\ filters' = filters
    BY DEF LIInv, ListOK, ListingOK, QueryFilters
<1>2. CASE page = {}
    BY <1>1, <1>2 DEF QueryFilters, LIInv, ListingOK, NotListing
<1>3. CASE page # {}
    <2>1. /\ listing' = [listing EXCEPT !.at = @ + PageSize, !.got = @ \cup RulesIn(page)]
        BY <1>3 DEF QueryFilters
    <2>2. /\ listing'.at = listing.at + PageSize
          /\ listing'.got = listing.got \cup RulesIn(page)
          /\ listing'.on = listing.on /\ listing'.cleared = listing.cleared
          /\ listing'.before = listing.before
        BY <2>1 DEF LIInv, NotListing
    <2>3. Ahead(filters, listing.at) \subseteq RulesIn(page) \cup Ahead(filters, listing.at + PageSize)
        BY <1>1, PageEntries
    <2>4. listing'.at \in Nat
        BY <1>1, <2>2, PageAssumption
    <2> QED
        BY <1>1, <2>2, <2>3, <2>4 DEF LIInv, ListingOK
<1> QED
    BY <1>2, <1>3

LEMMA OthersListing == ASSUME LIInv, Others PROVE ListingOK'
<1>1. /\ listing'.on = listing.on /\ listing'.at = listing.at /\ listing'.got = listing.got
      /\ listing'.before = listing.before
      /\ listing'.cleared = (listing.on /\ (listing.cleared \/ op'.kind = "clear"))
    BY DEF LIInv, Others, NotListing
<1>2. listing'.on /\ ~listing'.cleared => ~listing.cleared /\ op'.kind # "clear"
    BY <1>1
<1>3. ASSUME op'.kind # "clear"
      PROVE  Ahead(filters, listing.at) \subseteq Ahead(filters', listing.at)
    <2>1. ASSUME NEW a \in Addresses \cup {AnyAddress}, NEW i \in Instances \cup {AnyInstance},
                 NEW mask \in Masks, AddFilter(a, i, mask)
          PROVE  Ahead(filters, listing.at) \subseteq Ahead(filters', listing.at)
        <3>1. mask \in SUBSET Kinds
            BY FilterAssumption
        <3>2. filters' = Added(filters, a, i, mask)
            BY <2>1 DEF AddFilter
        <3>3. filters \in Seq(Filter) /\ KeysDistinct(filters)
            BY ListOKIsKeys DEF LIInv
        <3>4. /\ filters' \in Seq(Filter)
              /\ Len(filters) <= Len(filters')
              /\ \A n \in 1 .. Len(filters) : RulesOf(filters[n]) \subseteq RulesOf(filters'[n])
            BY <3>1, <3>2, <3>3, AddedEntries, Zenon
        <3>5. /\ DOMAIN filters = 1 .. Len(filters) /\ DOMAIN filters' = 1 .. Len(filters')
              /\ \A n \in DOMAIN filters : n \in DOMAIN filters'
            BY <3>3, <3>4
        <3> QED
            BY <3>4, <3>5 DEF Ahead, RulesIn
    <2>2. filters' = filters \/ \E a \in Addresses \cup {AnyAddress},
                                  i \in Instances \cup {AnyInstance}, mask \in Masks :
                                     AddFilter(a, i, mask)
        BY <1>3 DEF Others, Next, EnableEvents, SetUnicast, ClearFilters, Emit, On
    <2> QED
        BY <2>1, <2>2
<1> QED
    BY <1>1, <1>2, <1>3 DEF LIInv, ListingOK

LEMMA ListingNextInv == ASSUME LIInv, [ListingNext]_<<vars, listing>> PROVE LIInv'
<1>1. ListOK'
    <2>1. CASE UNCHANGED <<mode, filters>>
        BY <2>1 DEF LIInv, ListOK
    <2>2. CASE Next
        BY <2>2, ListOKNext DEF LIInv
    <2> QED
        BY <2>1, <2>2 DEF ListingNext, StartListing, QueryFilters, Others, vars
<1>2. DOMAIN listing' = DOMAIN NotListing
    BY DEF LIInv, ListingNext, StartListing, QueryFilters, Others, NotListing, vars
<1>3. CASE StartListing
    <2>1. listing'.at = 0 /\ listing'.before = RulesIn(Rng(filters)) /\ filters' = filters
        BY <1>3 DEF StartListing, NotListing
    <2>2. Ahead(filters, 0) = RulesIn(Rng(filters))
        <3>1. filters \in Seq(Filter)
            BY DEF LIInv, ListOK
        <3>2. \A n \in DOMAIN filters : n > 0
            BY <3>1
        <3> QED
            BY <3>2 DEF Ahead, RulesIn, Rng
    <2>3. ListingOK'
        BY <2>1, <2>2 DEF ListingOK
    <2> QED
        BY <1>1, <1>2, <2>3 DEF LIInv
<1>4. CASE QueryFilters
    BY <1>1, <1>2, <1>4, QueryListing DEF LIInv
<1>5. CASE Others
    BY <1>1, <1>2, <1>5, OthersListing DEF LIInv
<1>6. CASE UNCHANGED <<vars, listing>>
    BY <1>1, <1>6 DEF LIInv, ListingOK, vars
<1> QED
    BY <1>3, <1>4, <1>5, <1>6 DEF ListingNext

LEMMA LastPageCompletes ==
    ASSUME LIInv, [ListingNext]_<<vars, listing>>, op'.kind = "query", reply' = "no_answer",
           ~listing.cleared, ~UNCHANGED <<vars, listing>>
    PROVE  listing.before \subseteq listing.got
<1>1. QueryFilters
    BY DEF ListingNext, StartListing, Others, Next, EnableEvents, SetUnicast, AddFilter,
           ClearFilters, Emit, On
<1>2. Rng(Page(filters, listing.at)) = {} /\ listing.on
    BY <1>1 DEF QueryFilters
<1>3. Ahead(filters, listing.at) = {}
    BY <1>2, PageEntries DEF LIInv, ListOK, ListingOK
<1> QED
    BY <1>2, <1>3 DEF LIInv, ListingOK

\* Whatever is added between the pages, and whatever the size of a page, a listing
\* that no clear disturbs ends with every rule that was in force when it started.
THEOREM ListingsAreComplete == ListingSpec => ListingComplete
<1>1. ListingInit => LIInv
    BY ListOKInit DEF ListingInit, LIInv, ListingOK, NotListing
<1>2. LIInv /\ [ListingNext]_<<vars, listing>> => LIInv'
    BY ListingNextInv
<1>3. LIInv /\ [ListingNext]_<<vars, listing>>
        => [(op'.kind = "query" /\ reply' = "no_answer" /\ ~listing.cleared)
               => listing.before \subseteq listing.got]_<<vars, listing>>
    BY LastPageCompletes
<1> QED
    BY <1>1, <1>2, <1>3, PTL DEF ListingSpec, ListingComplete

=============================================================================
