--------------------------- MODULE SnapshotProofs ---------------------------
(***************************************************************************)
(* A dump and the world loaded from it, for every set of lights and groups *)
(* in every order, whatever commands, ticks and queries of others fall     *)
(* between two questions and whatever replies are lost.                    *)
(***************************************************************************)
EXTENDS Snapshot, WorldProofs, SequenceTheorems, Iteration

-----------------------------------------------------------------------------
(* The list of questions                                                     *)

\* A flattened sequence is its elements put together one after the other.
LEMMA Flattened ==
    ASSUME NEW S, NEW seqs \in Seq(Seq(S)), seqs # <<>>
    PROVE  \E f \in [1 .. Len(seqs) -> Seq(S)] :
              /\ SE!FlattenSeq(seqs) = f[Len(seqs)]
              /\ f[1] = seqs[1]
              /\ \A i \in 2 .. Len(seqs) : f[i] = f[i - 1] \o seqs[i]
<1> DEFINE N == Len(seqs)
           IsFlat(f) == f = [i \in 1 .. N |-> IF i = 1 THEN seqs[i] ELSE f[i - 1] \o seqs[i]]
           body == [x \in Nat \X Seq(S) |-> IF x[1] \in 2 .. N THEN x[2] \o seqs[x[1]]
                                            ELSE IF x[1] = 1 /\ 1 <= N THEN seqs[1] ELSE <<>>]
<1>1. N \in Nat /\ N # 0 /\ \A i \in 1 .. N : seqs[i] \in Seq(S)
    OBVIOUS
<1>2. body \in [Nat \X Seq(S) -> Seq(S)] /\ <<>> \in Seq(S)
    <2> HIDE DEF N
    <2>1. \A i \in 2 .. N : i \in 1 .. N
        BY <1>1
    <2> QED
        BY <1>1, <2>1
<1>3. PICK g \in [0 .. N -> Seq(S)] : IsLoop(g, N, <<>>, body)
    <2> HIDE DEF N, body
    <2> QED
        BY <1>1, <1>2, LoopExists
<1>4. \A n \in 1 .. N : g[n] = IF n = 1 THEN seqs[n] ELSE g[n - 1] \o seqs[n]
    <2> SUFFICES ASSUME NEW n \in 1 .. N
                 PROVE  g[n] = IF n = 1 THEN seqs[n] ELSE g[n - 1] \o seqs[n]
        OBVIOUS
    <2> HIDE DEF N, body
    <2>1. n \in 0 .. N /\ n # 0 /\ n - 1 \in 0 .. N /\ n \in Nat /\ (n # 1 => n \in 2 .. N) /\ 1 <= N
        BY <1>1
    <2>2. g[n] = body[<<n, g[n - 1]>>]
        BY <1>3, <2>1 DEF IsLoop
    <2>3. g[n - 1] \in Seq(S)
        BY <2>1
    <2> USE DEF body
    <2> QED
        BY <2>1, <2>2, <2>3
<1> HIDE DEF body
<1> DEFINE f0 == [n \in 1 .. N |-> g[n]]
<1>5. IsFlat(f0)
    <2> HIDE DEF N
    <2>1. ASSUME NEW n \in 1 .. N PROVE f0[n] = IF n = 1 THEN seqs[n] ELSE f0[n - 1] \o seqs[n]
        <3>1. n # 1 => n - 1 \in 1 .. N
            BY <1>1
        <3> QED
            BY <1>4, <3>1
    <2>2. f0 = [n \in 1 .. N |-> f0[n]]
        OBVIOUS
    <2> HIDE DEF f0
    <2>3. [n \in 1 .. N |-> f0[n]] = [n \in 1 .. N |-> IF n = 1 THEN seqs[n] ELSE f0[n - 1] \o seqs[n]]
        BY <2>1, Zenon
    <2> QED
        BY <2>2, <2>3, Zenon
<1> HIDE DEF f0
<1> DEFINE f == CHOOSE h : IsFlat(h)
<1>6. IsFlat(f)
    BY <1>5, Zenon
<1>7. SE!FlattenSeq(seqs) = f[N]
    <2>1. SE!FlattenSeq(seqs) = IF Len(seqs) = 0 THEN seqs ELSE f[N]
        BY Zenon DEF SE!FlattenSeq
    <2> HIDE DEF f
    <2> QED
        BY <1>1, <2>1
<1> HIDE DEF f
<1>8. \A n \in 1 .. N : f[n] = IF n = 1 THEN seqs[n] ELSE f[n - 1] \o seqs[n]
    BY <1>6
<1>9. f = f0
    <2> DEFINE T == {n \in 1 .. N : f[n] # f0[n]}
    <2>1. T = {}
        <3> SUFFICES ASSUME T # {} PROVE FALSE
            OBVIOUS
        <3>1. PICK n \in T : \A m \in T : n <= m
            <4>1. T \in SUBSET Nat
                OBVIOUS
            <4> HIDE DEF T
            <4> QED
                BY <4>1, LeastNumber
        <3> HIDE DEF N
        <3>2. n \in 1 .. N /\ f[n] # f0[n]
            BY <3>1
        <3>3. n # 1 => n - 1 \in 1 .. N /\ n - 1 \notin T
            BY <1>1, <3>1, <3>2
        <3>4. n # 1 => f[n - 1] = f0[n - 1]
            BY <3>3
        <3>5. f0[n] = IF n = 1 THEN seqs[n] ELSE f0[n - 1] \o seqs[n]
            BY <1>5, <3>2
        <3>6. f[n] = IF n = 1 THEN seqs[n] ELSE f[n - 1] \o seqs[n]
            BY <1>8, <3>2
        <3> QED
            BY <3>2, <3>4, <3>5, <3>6
    <2>2. f = [n \in 1 .. N |-> f[n]] /\ f0 = [n \in 1 .. N |-> f0[n]]
        BY <1>6, Zenon DEF f0
    <2> QED
        BY <2>1, <2>2
<1>10. f \in [1 .. N -> Seq(S)]
    <2>1. f0 \in [1 .. N -> Seq(S)]
        BY <1>3 DEF f0
    <2> QED
        BY <1>9, <2>1
<1>11. f[1] = seqs[1] /\ \A i \in 2 .. N : f[i] = f[i - 1] \o seqs[i]
    <2>1. 1 \in 1 .. N /\ \A i \in 2 .. N : i \in 1 .. N /\ i # 1
        BY <1>1
    <2> QED
        BY <1>8, <2>1
<1> QED
    BY <1>7, <1>10, <1>11

Kinds == {"status", "level", "last scene", "scene current", "colour"}

\* What a light is asked: its colour only if it controls colour.
AskedOf(l) == {kind \in Kinds : kind = "colour" => l \in ColourLights}

LightQuestion == {<<kind, l>> : kind \in Kinds, l \in Lights} \ {<<"colour", l>> : l \in Lights \ ColourLights}
GroupQuestion == {<<"group level", g>> : g \in Groups}
Question == GroupQuestion \cup LightQuestion

LEMMA AboutOneLight ==
    ASSUME NEW l \in Lights
    PROVE  LET q == LightQuestions(l)
           IN  /\ q \in Seq(LightQuestion) /\ Len(q) \in Nat
               /\ (l \in ColourLights => Len(q) = 5) /\ (l \notin ColourLights => Len(q) = 4)
               /\ q[1] = <<"status", l>> /\ q[2] = <<"level", l>> /\ q[3] = <<"last scene", l>>
               /\ q[4] = <<"scene current", l>> /\ (l \in ColourLights => q[5] = <<"colour", l>>)
<1> DEFINE q1 == <<"status", l>>
           q2 == <<"level", l>>
           q3 == <<"last scene", l>>
           q4 == <<"scene current", l>>
           q5 == <<"colour", l>>
           rest == IF l \in ColourLights THEN <<q5>> ELSE <<>>
<1>1. LightQuestions(l) = <<q1, q2, q3, q4>> \o rest
    BY DEF LightQuestions
<1>2. /\ q1 \in LightQuestion /\ q2 \in LightQuestion /\ q3 \in LightQuestion
      /\ q4 \in LightQuestion /\ (l \in ColourLights => q5 \in LightQuestion)
    <2>1. ASSUME NEW kind \in Kinds, kind # "colour" PROVE <<kind, l>> \in LightQuestion
        <3>1. \A m : <<kind, l>> # <<"colour", m>>
            BY <2>1
        <3> QED
            BY <3>1 DEF LightQuestion
    <2>2. ASSUME l \in ColourLights PROVE q5 \in LightQuestion
        <3>1. \A m \in Lights \ ColourLights : q5 # <<"colour", m>>
            BY <2>2
        <3> QED
            BY <3>1 DEF LightQuestion, Kinds
    <2> QED
        BY <2>1, <2>2 DEF Kinds
<1> HIDE DEF q1, q2, q3, q4, q5
<1>3. /\ <<q1, q2, q3, q4>> \in Seq(LightQuestion) /\ Len(<<q1, q2, q3, q4>>) = 4
      /\ <<q1, q2, q3, q4>>[1] = q1 /\ <<q1, q2, q3, q4>>[2] = q2
      /\ <<q1, q2, q3, q4>>[3] = q3 /\ <<q1, q2, q3, q4>>[4] = q4
    BY <1>2
<1>4. /\ rest \in Seq(LightQuestion) /\ Len(rest) \in Nat
      /\ l \in ColourLights => Len(rest) = 1 /\ rest[1] = q5
      /\ l \notin ColourLights => Len(rest) = 0
    BY <1>2
<1> DEFINE four == <<q1, q2, q3, q4>>
<1>5. /\ four \o rest \in Seq(LightQuestion) /\ Len(four \o rest) = 4 + Len(rest)
      /\ \A i \in 1 .. 4 + Len(rest) : (four \o rest)[i] = IF i <= 4 THEN four[i] ELSE rest[i - 4]
    <2>1. four \in Seq(LightQuestion) /\ Len(four) = 4
        BY <1>3
    <2> HIDE DEF four, rest
    <2>2. /\ four \o rest \in Seq(LightQuestion) /\ Len(four \o rest) = Len(four) + Len(rest)
          /\ \A i \in 1 .. Len(four) + Len(rest) :
                (four \o rest)[i] = IF i <= Len(four) THEN four[i] ELSE rest[i - Len(four)]
        BY <1>4, <2>1, ConcatProperties
    <2> QED
        BY <2>1, <2>2
<1>6. /\ LightQuestions(l) \in Seq(LightQuestion)
      /\ Len(LightQuestions(l)) \in Nat
      /\ l \in ColourLights => Len(LightQuestions(l)) = 5
      /\ l \notin ColourLights => Len(LightQuestions(l)) = 4
      /\ \A i \in 1 .. 4 : LightQuestions(l)[i] = four[i]
      /\ l \in ColourLights => LightQuestions(l)[5] = q5
    <2> HIDE DEF four, rest
    <2>1. LightQuestions(l) = four \o rest
        BY <1>1 DEF four
    <2>2. 1 .. 4 \subseteq 1 .. 4 + Len(rest)
        BY <1>4
    <2>3. ASSUME l \in ColourLights PROVE 5 \in 1 .. 4 + Len(rest) /\ 5 - 4 = 1
        <3>1. Len(rest) = 1
            BY <1>4, <2>3
        <3> QED
            BY <3>1
    <2> QED
        BY <1>4, <1>5, <2>1, <2>2, <2>3
<1>7. LightQuestions(l)[1] = q1 /\ LightQuestions(l)[2] = q2 /\ LightQuestions(l)[3] = q3 /\ LightQuestions(l)[4] = q4
    BY <1>3, <1>6
<1> QED
    BY <1>6, <1>7, Zenon DEF q1, q2, q3, q4, q5

\* Where the questions about a light are, said of their places.
LEMMA OneLightPlaces ==
    ASSUME NEW l \in Lights
    PROVE  LET q == LightQuestions(l)
           IN  /\ \A k \in 1 .. Len(q), m \in Lights : q[k] = <<"status", m>> => k = 1 /\ m = l
               /\ \A kind \in AskedOf(l) : \E k \in 1 .. Len(q) : q[k] = <<kind, l>>
<1> DEFINE q == LightQuestions(l)
<1>1. /\ q[1] = <<"status", l>> /\ q[2] = <<"level", l>> /\ q[3] = <<"last scene", l>>
      /\ q[4] = <<"scene current", l>> /\ (l \in ColourLights => q[5] = <<"colour", l>>)
      /\ (l \in ColourLights => Len(q) = 5) /\ (l \notin ColourLights => Len(q) = 4)
    BY AboutOneLight
<1> HIDE DEF q
<1>2. \A kind \in AskedOf(l) : \E k \in 1 .. Len(q) : q[k] = <<kind, l>>
    <2>1. /\ 1 \in 1 .. Len(q) /\ 2 \in 1 .. Len(q) /\ 3 \in 1 .. Len(q) /\ 4 \in 1 .. Len(q)
          /\ l \in ColourLights => 5 \in 1 .. Len(q)
        <3>1. CASE l \in ColourLights
            <4>1. Len(q) = 5
                BY <1>1, <3>1
            <4> QED
                BY <4>1
        <3>2. CASE l \notin ColourLights
            <4>1. Len(q) = 4
                BY <1>1, <3>2
            <4> QED
                BY <3>2, <4>1
        <3> QED
            BY <3>1, <3>2
    <2> QED
        BY <1>1, <2>1, Zenon DEF AskedOf, Kinds
<1>3. ASSUME NEW k \in 1 .. Len(q), NEW m \in Lights, q[k] = <<"status", m>> PROVE k = 1 /\ m = l
    <2>1. q[k][1] = "status" /\ q[k][2] = m
        BY <1>3
    <2>2. /\ <<"level", l>>[1] = "level" /\ <<"last scene", l>>[1] = "last scene"
          /\ <<"scene current", l>>[1] = "scene current" /\ <<"colour", l>>[1] = "colour"
          /\ <<"status", l>>[2] = l
        OBVIOUS
    <2>3. /\ q[2][1] = "level" /\ q[3][1] = "last scene" /\ q[4][1] = "scene current"
          /\ l \in ColourLights => q[5][1] = "colour"
          /\ q[1][2] = l
        BY <1>1, <2>2, Zenon
    <2>4. k = 1 \/ k = 2 \/ k = 3 \/ k = 4 \/ (k = 5 /\ l \in ColourLights)
        <3>1. CASE l \in ColourLights
            <4>1. k \in 1 .. 5
                BY <1>1, <3>1
            <4> QED
                BY <3>1, <4>1
        <3>2. CASE l \notin ColourLights
            <4>1. k \in 1 .. 4
                BY <1>1, <3>2
            <4> QED
                BY <4>1
        <3> QED
            BY <3>1, <3>2
    <2> QED
        BY <2>1, <2>3, <2>4
<1> QED
    BY <1>2, <1>3 DEF q

\* The questions about the first n lights: those of one light stand together.
AboutLights(s, n) ==
    /\ s \in Seq(LightQuestion)
    /\ \A k \in 1 .. Len(s), l \in Lights : s[k] = <<"status", l>> => k + Len(LightQuestions(l)) <= Len(s) + 1
    /\ \A m \in 1 .. n : \A kind \in AskedOf(LightOrder[m]) :
          \E k \in 1 .. Len(s) : s[k] = <<kind, LightOrder[m]>>

LEMMA FirstLight ==
    ASSUME NEW l \in Lights, 1 \in 1 .. Len(LightOrder), LightOrder[1] = l
    PROVE  AboutLights(LightQuestions(l), 1)
<1> DEFINE q == LightQuestions(l)
<1>1. q \in Seq(LightQuestion) /\ Len(q) \in Nat
    BY AboutOneLight
<1>2. /\ \A k \in 1 .. Len(q), m \in Lights : q[k] = <<"status", m>> => k = 1 /\ m = l
      /\ \A kind \in AskedOf(l) : \E k \in 1 .. Len(q) : q[k] = <<kind, l>>
    BY OneLightPlaces
<1>3. ASSUME NEW k \in 1 .. Len(q), NEW m \in Lights, q[k] = <<"status", m>>
      PROVE  k + Len(LightQuestions(m)) <= Len(q) + 1
    <2>1. k = 1 /\ m = l
        BY <1>2, <1>3
    <2>2. LightQuestions(m) = q
        BY <2>1
    <2> HIDE DEF q
    <2> QED
        BY <1>1, <2>1, <2>2
<1> HIDE DEF q
<1>4. \A m \in 1 .. 1 : LightOrder[m] = l
    OBVIOUS
<1>5. AboutLights(q, 1)
    BY <1>1, <1>2, <1>3, <1>4 DEF AboutLights
<1> QED
    BY <1>5 DEF q

LEMMA NextLight ==
    ASSUME NEW n \in Nat, NEW s, AboutLights(s, n), NEW l \in Lights, LightOrder[n + 1] = l
    PROVE  AboutLights(s \o LightQuestions(l), n + 1)
<1> DEFINE q == LightQuestions(l)
           t == s \o q
           N == Len(s)
           M == Len(q)
<1>1. /\ q \in Seq(LightQuestion)
      /\ \A k \in 1 .. M, m \in Lights : q[k] = <<"status", m>> => k = 1 /\ m = l
      /\ \A kind \in AskedOf(l) : \E k \in 1 .. M : q[k] = <<kind, l>>
    BY AboutOneLight, OneLightPlaces
<1>2. LightQuestions(l) = q
    OBVIOUS
<1> HIDE DEF q
<1>3. /\ s \in Seq(LightQuestion)
      /\ \A k \in 1 .. N, m \in Lights : s[k] = <<"status", m>> => k + Len(LightQuestions(m)) <= N + 1
      /\ \A m \in 1 .. n : \A kind \in AskedOf(LightOrder[m]) : \E k \in 1 .. N : s[k] = <<kind, LightOrder[m]>>
    BY DEF AboutLights
<1>4. N \in Nat /\ M \in Nat
    BY <1>1, <1>3
<1>5. /\ t \in Seq(LightQuestion) /\ Len(t) = N + M
      /\ \A i \in 1 .. N + M : t[i] = IF i <= N THEN s[i] ELSE q[i - N]
    BY <1>1, <1>3, ConcatProperties
<1> HIDE DEF t, N, M
<1>6. /\ \A k \in 1 .. N : k \in 1 .. N + M /\ t[k] = s[k]
      /\ \A k \in 1 .. M : N + k \in 1 .. N + M /\ t[N + k] = q[k]
    <2>1. \A k \in 1 .. N : k \in 1 .. N + M /\ k <= N
        BY <1>4
    <2>2. \A k \in 1 .. M : N + k \in 1 .. N + M /\ ~(N + k <= N) /\ (N + k) - N = k
        BY <1>4
    <2>3. ASSUME NEW k \in 1 .. N PROVE t[k] = s[k]
        BY <1>5, <2>1
    <2>4. ASSUME NEW k \in 1 .. M PROVE t[N + k] = q[k]
        BY <1>5, <2>2
    <2> QED
        BY <2>1, <2>2, <2>3, <2>4
<1>7. ASSUME NEW k \in 1 .. N + M, NEW m \in Lights, t[k] = <<"status", m>>
      PROVE  k + Len(LightQuestions(m)) <= N + M + 1
    <2>1. Len(LightQuestions(m)) \in Nat
        BY AboutOneLight
    <2>2. CASE k <= N
        <3>1. k \in 1 .. N
            BY <1>4, <2>2
        <3>2. s[k] = <<"status", m>>
            BY <1>6, <1>7, <3>1
        <3>3. k + Len(LightQuestions(m)) <= N + 1
            BY <1>3, <3>1, <3>2
        <3> QED
            BY <1>4, <2>1, <3>1, <3>3
    <2>3. CASE ~(k <= N)
        <3>1. PICK j \in 1 .. M : N + j = k
            <4>1. k - N \in 1 .. M /\ N + (k - N) = k
                BY <1>4, <2>3
            <4> QED
                BY <4>1
        <3>2. q[j] = <<"status", m>>
            BY <1>6, <1>7, <3>1
        <3>3. j = 1 /\ Len(LightQuestions(m)) = M
            BY <1>1, <1>2, <3>2 DEF M
        <3> QED
            BY <1>4, <3>1, <3>3
    <2> QED
        BY <2>2, <2>3
<1>8. ASSUME NEW m \in 1 .. n + 1, NEW kind \in AskedOf(LightOrder[m])
      PROVE  \E k \in 1 .. N + M : t[k] = <<kind, LightOrder[m]>>
    <2>1. CASE m \in 1 .. n
        <3>1. PICK k \in 1 .. N : s[k] = <<kind, LightOrder[m]>>
            BY <1>3, <2>1
        <3> QED
            BY <1>6, <3>1
    <2>2. CASE m = n + 1
        <3>1. PICK j \in 1 .. M : q[j] = <<kind, l>>
            BY <1>1, <2>2
        <3>2. N + j \in 1 .. N + M /\ t[N + j] = q[j]
            BY <1>6
        <3> QED
            BY <2>2, <3>1, <3>2
    <2> QED
        BY <2>1, <2>2
<1>9. AboutLights(t, n + 1)
    BY <1>5, <1>7, <1>8 DEF AboutLights
<1> QED
    BY <1>9 DEF t, q

LEMMA LightPart ==
    ASSUME LightOrder # <<>>
    PROVE  LET seqs == [k \in 1 .. Len(LightOrder) |-> LightQuestions(LightOrder[k])]
           IN  AboutLights(SE!FlattenSeq(seqs), Len(LightOrder))
<1> DEFINE N == Len(LightOrder)
           seqs == [k \in 1 .. N |-> LightQuestions(LightOrder[k])]
<1>1. N \in Nat /\ N # 0 /\ \A k \in 1 .. N : LightOrder[k] \in Lights
    BY OrderAssumption DEF OrderAssumption
<1>2. seqs \in Seq(Seq(LightQuestion)) /\ Len(seqs) = N /\ seqs # <<>>
    <2>1. \A k \in 1 .. N : LightQuestions(LightOrder[k]) \in Seq(LightQuestion)
        BY <1>1, AboutOneLight
    <2>2. seqs \in [1 .. N -> Seq(LightQuestion)]
        BY <2>1
    <2> HIDE DEF seqs, N
    <2> QED
        BY <1>1, <2>2
<1>3. \A k \in 1 .. N : seqs[k] = LightQuestions(LightOrder[k])
    OBVIOUS
<1> HIDE DEF seqs, N
<1>4. PICK f \in [1 .. N -> Seq(LightQuestion)] :
         /\ SE!FlattenSeq(seqs) = f[N]
         /\ f[1] = seqs[1]
         /\ \A i \in 2 .. N : f[i] = f[i - 1] \o seqs[i]
    BY <1>2, Flattened
<1> DEFINE T == {n \in 1 .. N : ~AboutLights(f[n], n)}
<1>5. T = {}
    <2> SUFFICES ASSUME T # {} PROVE FALSE
        OBVIOUS
    <2>1. PICK n \in T : \A m \in T : n <= m
        <3>1. T \in SUBSET Nat
            OBVIOUS
        <3> HIDE DEF T
        <3> QED
            BY <3>1, LeastNumber
    <2>2. n \in 1 .. N /\ ~AboutLights(f[n], n)
        BY <2>1
    <2>3. CASE n = 1
        <3>1. 1 \in 1 .. Len(LightOrder) /\ LightOrder[1] \in Lights
            BY <1>1, <2>2, <2>3 DEF N
        <3>2. f[1] = LightQuestions(LightOrder[1])
            BY <1>3, <1>4, <2>2, <2>3
        <3> QED
            BY <2>2, <2>3, <3>1, <3>2, FirstLight
    <2>4. CASE n # 1
        <3> DEFINE p == n - 1
        <3>1. p \in 1 .. N /\ p \in Nat /\ p + 1 = n /\ n \in 2 .. N /\ ~(n <= p)
            BY <1>1, <2>2, <2>4
        <3>2. f[n] = f[p] \o LightQuestions(LightOrder[n])
            BY <1>3, <1>4, <2>2, <3>1
        <3>3. p \notin T
            BY <2>1, <3>1
        <3> HIDE DEF p
        <3>4. AboutLights(f[p], p)
            BY <3>1, <3>3
        <3> HIDE DEF T
        <3> QED
            BY <1>1, <2>2, <3>1, <3>2, <3>4, NextLight
    <2> QED
        BY <2>3, <2>4
<1>6. N \in 1 .. N
    BY <1>1
<1>7. AboutLights(SE!FlattenSeq(seqs), N)
    BY <1>4, <1>5, <1>6
<1> QED
    BY <1>7 DEF seqs, N

\* Every group is asked about, every light for all that it is asked, and the questions
\* about a light stand together.
LEMMA QuestionsAre ==
    /\ Questions \in Seq(Question)
    /\ \A g \in Groups : \E k \in 1 .. Len(Questions) : Questions[k] = <<"group level", g>>
    /\ \A l \in Lights : \A kind \in AskedOf(l) :
          \E k \in 1 .. Len(Questions) : Questions[k] = <<kind, l>>
    /\ \A k \in 1 .. Len(Questions), l \in Lights :
          Questions[k] = <<"status", l>> => k + Len(LightQuestions(l)) <= Len(Questions) + 1
<1> DEFINE N == Len(LightOrder)
           M == Len(GroupOrder)
           gq == [k \in 1 .. M |-> <<"group level", GroupOrder[k]>>]
           seqs == [k \in 1 .. N |-> LightQuestions(LightOrder[k])]
           lq == SE!FlattenSeq(seqs)
<1>1. /\ N \in Nat /\ \A k \in 1 .. N : LightOrder[k] \in Lights
      /\ \A l \in Lights : \E k \in 1 .. N : LightOrder[k] = l
      /\ M \in Nat /\ \A k \in 1 .. M : GroupOrder[k] \in Groups
      /\ \A g \in Groups : \E k \in 1 .. M : GroupOrder[k] = g
    <2>1. LightOrder \in Seq(Lights) /\ GroupOrder \in Seq(Groups)
        BY OrderAssumption DEF OrderAssumption
    <2>2. /\ Lights = {LightOrder[k] : k \in DOMAIN LightOrder}
          /\ Groups = {GroupOrder[k] : k \in DOMAIN GroupOrder}
        BY OrderAssumption DEF OrderAssumption, SE!ToSet
    <2> QED
        BY <2>1, <2>2
<1>2. AboutLights(lq, N)
    <2>1. CASE LightOrder # <<>>
        BY <2>1, LightPart
    <2>2. CASE LightOrder = <<>>
        <3>1. N = 0 /\ Len(<<>>) = 0
            BY <2>2
        <3>2. seqs = <<>>
            BY <3>1
        <3> HIDE DEF seqs
        <3>3. lq = <<>>
            BY <3>2 DEF SE!FlattenSeq
        <3> HIDE DEF lq, N
        <3> QED
            BY <3>1, <3>3 DEF AboutLights
    <2> QED
        BY <2>1, <2>2
<1>3. gq \in Seq(GroupQuestion) /\ Len(gq) = M
    <2>1. \A k \in 1 .. M : <<"group level", GroupOrder[k]>> \in GroupQuestion
        BY <1>1 DEF GroupQuestion
    <2>2. gq \in [1 .. M -> GroupQuestion]
        BY <2>1
    <2> HIDE DEF gq, M
    <2> QED
        BY <1>1, <2>2
<1>4. Questions = gq \o lq
    BY DEF Questions
<1>5. \A k \in 1 .. M : gq[k] = <<"group level", GroupOrder[k]>>
    OBVIOUS
<1> DEFINE K == Len(lq)
<1> HIDE DEF gq, lq, N, M
<1>6. lq \in Seq(LightQuestion) /\ K \in Nat
    BY <1>2 DEF AboutLights
<1>7. /\ Questions \in Seq(Question) /\ Len(Questions) = M + K
      /\ \A k \in 1 .. M : Questions[k] = gq[k]
      /\ \A k \in 1 .. K : Questions[M + k] = lq[k]
    <2>1. gq \in Seq(Question) /\ lq \in Seq(Question)
        BY <1>3, <1>6 DEF Question
    <2>2. /\ Questions \in Seq(Question) /\ Len(Questions) = Len(gq) + Len(lq)
          /\ \A i \in 1 .. Len(gq) + Len(lq) :
                Questions[i] = IF i <= Len(gq) THEN gq[i] ELSE lq[i - Len(gq)]
        BY <1>4, <2>1, ConcatProperties
    <2> HIDE DEF K
    <2>3. \A k \in 1 .. M : k \in 1 .. M + K /\ k <= M
        BY <1>1, <1>6
    <2>4. \A k \in 1 .. K : M + k \in 1 .. M + K /\ ~(M + k <= M) /\ (M + k) - M = k
        BY <1>1, <1>6
    <2>5. Len(gq) = M /\ Len(lq) = K
        BY <1>3 DEF K
    <2>6. /\ Len(Questions) = M + K
          /\ \A i \in 1 .. M + K : Questions[i] = IF i <= M THEN gq[i] ELSE lq[i - M]
        BY <2>2, <2>5
    <2>7. \A k \in 1 .. M : Questions[k] = gq[k]
        BY <2>3, <2>6
    <2>8. \A k \in 1 .. K : Questions[M + k] = lq[k]
        BY <2>4, <2>6
    <2> QED
        BY <2>2, <2>6, <2>7, <2>8
<1>8. ASSUME NEW g \in Groups PROVE \E k \in 1 .. Len(Questions) : Questions[k] = <<"group level", g>>
    <2>1. PICK k \in 1 .. M : GroupOrder[k] = g
        BY <1>1
    <2>2. k \in 1 .. Len(Questions)
        BY <1>1, <1>6, <1>7
    <2> QED
        BY <1>5, <1>7, <2>1, <2>2
<1> HIDE DEF K
<1>9. ASSUME NEW l \in Lights, NEW kind \in AskedOf(l)
      PROVE  \E k \in 1 .. Len(Questions) : Questions[k] = <<kind, l>>
    <2>1. PICK m \in 1 .. N : LightOrder[m] = l
        BY <1>1
    <2>2. PICK k \in 1 .. K : lq[k] = <<kind, LightOrder[m]>>
        BY <1>2, <2>1 DEF AboutLights, K
    <2>3. M + k \in 1 .. Len(Questions)
        BY <1>1, <1>6, <1>7
    <2> QED
        BY <1>7, <2>1, <2>2, <2>3
<1>10. ASSUME NEW k \in 1 .. Len(Questions), NEW l \in Lights, Questions[k] = <<"status", l>>
       PROVE  k + Len(LightQuestions(l)) <= Len(Questions) + 1
    <2>0. Len(LightQuestions(l)) \in Nat
        BY AboutOneLight
    <2>1. CASE k \in 1 .. M
        <3>1. Questions[k] = <<"group level", GroupOrder[k]>>
            BY <1>5, <1>7, <2>1
        <3>2. <<"group level", GroupOrder[k]>>[1] = <<"status", l>>[1]
            BY <1>10, <3>1
        <3> QED
            BY <3>2
    <2>2. CASE k \notin 1 .. M
        <3>1. PICK j \in 1 .. K : M + j = k
            <4>1. k - M \in 1 .. K /\ M + (k - M) = k
                BY <1>1, <1>6, <1>7, <2>2
            <4> QED
                BY <4>1
        <3>2. lq[j] = <<"status", l>>
            BY <1>7, <1>10, <3>1
        <3>3. j + Len(LightQuestions(l)) <= K + 1
            BY <1>2, <3>1, <3>2 DEF AboutLights, K
        <3> QED
            BY <1>1, <1>6, <1>7, <2>0, <3>1, <3>3
    <2> QED
        BY <2>1, <2>2
<1> QED
    BY <1>7, <1>8, <1>9, <1>10

-----------------------------------------------------------------------------
(* The status byte, light by light                                           *)

\* No light loses the agreement of its status byte with its level and fade.
Keeps(L, L1) == \A l \in Lights : Coherent(L[l]) => Coherent(L1[l])

\* A level command on w leaves its targets in agreement.
Heals(L1, w) == \A l \in Targets[w] : Coherent(L1[l])

LEMMA ExpiredKeeps ==
    ASSUME MaxArc \in Nat, NEW L \in LightsType, NEW gs
    PROVE  Keeps(L, Expired(L, gs))
<1> SUFFICES ASSUME NEW l \in Lights, Coherent(L[l]) PROVE Coherent(Expired(L, gs)[l])
    BY DEF Keeps
<1>1. L[l] \in GearType
    BY DEF LightsType
<1>2. Expired(L, gs)[l] = L[l] \/ Expired(L, gs)[l] = ExpireFade(L[l])
    BY DEF Expired
<1>3. Coherent(ExpireFade(L[l]))
    BY <1>1, ExpireFadeSeen DEF Seen
<1> QED
    BY <1>2, <1>3

\* Fades that are due are taken away after the command itself.
LEMMA ExpiredHeals ==
    ASSUME MaxArc \in Nat, NEW L1 \in LightsType, NEW w \in Wires, Heals(L1, w), NEW gs
    PROVE  Heals(Expired(L1, gs), w)
BY ExpiredKeeps, WiresType DEF Heals, Keeps

LEMMA ApplyLevelHeals ==
    ASSUME LevelAssumption, NEW L \in LightsType, NEW G, NEW w \in Wires, NEW v \in Int, NEW duration \in Nat
    PROVE  LET r == ApplyLevel(L, G, w, v, duration)
           IN  Keeps(L, r.light) /\ Heals(r.light, w)
<1> DEFINE L1 == [l \in Lights |-> IF l \in Targets[w] THEN SetLevel(L[l], v, duration, w) ELSE L[l]]
           L2 == Expired(L1, Siblings[w])
<1>1. MaxArc \in Nat
    BY DEF LevelAssumption
<1>2. ApplyLevel(L, G, w, v, duration).light = L2
    BY DEF ApplyLevel, Outcome
<1>3. ASSUME NEW l \in Lights
      PROVE  /\ L1[l] \in GearType
             /\ l \in Targets[w] => Coherent(L1[l])
             /\ l \notin Targets[w] => L1[l] = L[l]
    <2>1. L[l] \in GearType
        BY DEF LightsType
    <2>2. SetLevel(L[l], v, duration, w) \in GearType /\ Coherent(SetLevel(L[l], v, duration, w))
        BY <1>1, <2>1, SetLevelType, SetLevelSeen
    <2>3. L1[l] = IF l \in Targets[w] THEN SetLevel(L[l], v, duration, w) ELSE L[l]
        OBVIOUS
    <2> HIDE DEF L1
    <2> QED
        BY <2>1, <2>2, <2>3
<1>4. L1 \in LightsType
    BY <1>3 DEF LightsType
<1> HIDE DEF L1
<1>5. Keeps(L, L1) /\ Heals(L1, w)
    BY <1>3, WiresType DEF Keeps, Heals
<1>6. Keeps(L1, L2) /\ Heals(L2, w)
    BY <1>1, <1>4, <1>5, ExpiredKeeps, ExpiredHeals
<1>7. Keeps(L, L2)
    BY <1>5, <1>6 DEF Keeps
<1> QED
    BY <1>2, <1>6, <1>7

LEMMA ApplyPerLightLevelHeals ==
    ASSUME LevelAssumption, NEW L \in LightsType, NEW G, NEW w \in Wires, NEW choice \in Choices
    PROVE  LET r == ApplyPerLightLevel(L, G, w, choice)
           IN  Keeps(L, r.light) /\ Heals(r.light, w)
<1> DEFINE L1 == [l \in Lights |-> IF l \in Targets[w]
                                   THEN SetLevel(L[l], ChosenLevel(choice, l, L[l]), 0, w)
                                   ELSE L[l]]
           L2 == Expired(L1, Addressed[w] \cup Siblings[w])
<1>1. MaxArc \in Nat
    BY DEF LevelAssumption
<1>2. ApplyPerLightLevel(L, G, w, choice).light = L2
    BY DEF ApplyPerLightLevel, Outcome
<1>3. ASSUME NEW l \in Lights
      PROVE  /\ L1[l] \in GearType
             /\ l \in Targets[w] => Coherent(L1[l])
             /\ l \notin Targets[w] => L1[l] = L[l]
    <2> DEFINE v == ChosenLevel(choice, l, L[l])
    <2>1. L[l] \in GearType
        BY DEF LightsType
    <2>2. v \in Int
        BY <2>1, ChosenLevelType
    <2>3. L1[l] = IF l \in Targets[w] THEN SetLevel(L[l], v, 0, w) ELSE L[l]
        OBVIOUS
    <2> HIDE DEF L1, v
    <2>4. SetLevel(L[l], v, 0, w) \in GearType /\ Coherent(SetLevel(L[l], v, 0, w))
        BY <1>1, <2>1, <2>2, SetLevelType, SetLevelSeen
    <2> QED
        BY <2>1, <2>3, <2>4
<1>4. L1 \in LightsType
    BY <1>3 DEF LightsType
<1> HIDE DEF L1
<1>5. Keeps(L, L1) /\ Heals(L1, w)
    BY <1>3, WiresType DEF Keeps, Heals
<1>6. Keeps(L1, L2) /\ Heals(L2, w)
    BY <1>1, <1>4, <1>5, ExpiredKeeps, ExpiredHeals
<1>7. Keeps(L, L2)
    BY <1>5, <1>6 DEF Keeps
<1> QED
    BY <1>2, <1>6, <1>7

LEMMA ApplyColourKeeps ==
    ASSUME LevelAssumption, NEW L \in LightsType, NEW G, NEW w \in Wires, NEW c \in Colours
    PROVE  Keeps(L, ApplyColour(L, G, w, c).light)
<1> DEFINE L1 == [l \in Lights |-> IF l \in Targets[w] THEN SetColour(L[l], c) ELSE L[l]]
           L2 == Expired(L1, Siblings[w])
<1>1. MaxArc \in Nat
    BY DEF LevelAssumption
<1>2. ApplyColour(L, G, w, c).light = L2
    BY DEF ApplyColour, Outcome
<1>3. ASSUME NEW l \in Lights
      PROVE  L1[l] \in GearType /\ (Coherent(L[l]) => Coherent(L1[l]))
    <2>1. L[l] \in GearType
        BY DEF LightsType
    <2>2. /\ SetColour(L[l], c) \in GearType
          /\ Coherent(L[l]) => Coherent(SetColour(L[l], c))
        BY <2>1, SetColourType, SetColourSeen
    <2>3. L1[l] = IF l \in Targets[w] THEN SetColour(L[l], c) ELSE L[l]
        OBVIOUS
    <2> HIDE DEF L1
    <2> QED
        BY <2>1, <2>2, <2>3
<1>4. L1 \in LightsType /\ Keeps(L, L1)
    BY <1>3 DEF LightsType, Keeps
<1> HIDE DEF L1
<1>5. Keeps(L1, L2)
    BY <1>1, <1>4, ExpiredKeeps
<1>6. Keeps(L, L2)
    BY <1>4, <1>5 DEF Keeps
<1> QED
    BY <1>2, <1>6

LEMMA ApplySceneKeeps ==
    ASSUME LevelAssumption, SceneAssumption, NEW L \in LightsType, NEW G, NEW w \in Wires,
           NEW s \in Scenes, NEW duration \in Nat
    PROVE  Keeps(L, ApplyScene(L, G, w, s, duration).light)
<1> DEFINE L1 == [l \in Lights |-> IF l \in Targets[w] THEN RecallScene(l, L[l], s, duration, w) ELSE L[l]]
           L2 == Expired(L1, Addressed[w] \cup Siblings[w])
<1>1. MaxArc \in Nat
    BY DEF LevelAssumption
<1>2. ApplyScene(L, G, w, s, duration).light = L2
    BY DEF ApplyScene, Outcome
<1>3. ASSUME NEW l \in Lights
      PROVE  L1[l] \in GearType /\ (Coherent(L[l]) => Coherent(L1[l]))
    <2> DEFINE y == RecallScene(l, L[l], s, duration, w)
    <2>1. L[l] \in GearType
        BY DEF LightsType
    <2>2. y \in GearType /\ (Coherent(L[l]) => Coherent(y))
        BY <1>1, <2>1, RecallSceneType, RecallSceneSeen
    <2>3. L1[l] = IF l \in Targets[w] THEN y ELSE L[l]
        OBVIOUS
    <2> HIDE DEF L1, y
    <2> QED
        BY <2>1, <2>2, <2>3
<1>4. L1 \in LightsType /\ Keeps(L, L1)
    BY <1>3 DEF LightsType, Keeps
<1> HIDE DEF L1
<1>5. Keeps(L1, L2)
    BY <1>1, <1>4, ExpiredKeeps
<1>6. Keeps(L, L2)
    BY <1>4, <1>5 DEF Keeps
<1> QED
    BY <1>2, <1>6

LEMMA StopFadeKeeps ==
    ASSUME LevelAssumption, NEW L \in LightsType, NEW G, NEW w \in Wires
    PROVE  Keeps(L, StopFadeOn(L, G, w).light)
<1> DEFINE stopped == {l \in Targets[w] : StartedOn(L[l], w)}
           L1 == [l \in Lights |-> IF l \in stopped THEN Freeze(L[l]) ELSE L[l]]
           touched == IF w = Broadcast THEN Groups
                      ELSE IF stopped = {} THEN {}
                      ELSE IF w \in Groups THEN {w} ELSE Siblings[w]
           L2 == Expired(L1, touched)
<1>1. MaxArc \in Nat
    BY DEF LevelAssumption
<1>2. StopFadeOn(L, G, w).light = L2
    BY DEF StopFadeOn, Outcome
<1>3. ASSUME NEW l \in Lights
      PROVE  L1[l] \in GearType /\ (Coherent(L[l]) => Coherent(L1[l]))
    <2>1. L[l] \in GearType
        BY DEF LightsType
    <2>2. /\ Freeze(L[l]) \in GearType
          /\ l \in stopped /\ Coherent(L[l]) => Coherent(Freeze(L[l]))
        BY <1>1, <2>1, FreezeType, FreezeSeen DEF StartedOn
    <2>3. L1[l] = IF l \in stopped THEN Freeze(L[l]) ELSE L[l]
        OBVIOUS
    <2> HIDE DEF L1, stopped
    <2> QED
        BY <2>1, <2>2, <2>3
<1>4. L1 \in LightsType /\ Keeps(L, L1)
    BY <1>3 DEF LightsType, Keeps
<1> HIDE DEF L1, touched
<1>5. Keeps(L1, L2)
    BY <1>1, <1>4, ExpiredKeeps
<1>6. Keeps(L, L2)
    BY <1>4, <1>5 DEF Keeps
<1> QED
    BY <1>2, <1>6

LEMMA FadeProgressKeeps ==
    ASSUME LevelAssumption, NEW L \in LightsType, NEW G
    PROVE  Keeps(L, FadeProgress(L, G).light)
<1> DEFINE pending == {l \in Lights : Reportable(L[l])}
           L1 == [l \in Lights |-> IF l \in pending THEN ExpireFade(L[l]) ELSE L[l]]
<1>1. MaxArc \in Nat
    BY DEF LevelAssumption
<1>2. FadeProgress(L, G).light = L1
    BY DEF FadeProgress, Outcome
<1> HIDE DEF pending
<1>3. ASSUME NEW l \in Lights, Coherent(L[l]) PROVE Coherent(L1[l])
    <2>1. L[l] \in GearType
        BY DEF LightsType
    <2>2. Coherent(ExpireFade(L[l]))
        BY <1>1, <1>3, <2>1, ExpireFadeSeen DEF Seen
    <2> QED
        BY <1>3, <2>2
<1> HIDE DEF L1
<1>4. Keeps(L, L1)
    BY <1>3 DEF Keeps
<1> QED
    BY <1>2, <1>4

LEMMA LookKeeps ==
    ASSUME MaxArc \in Nat, NEW L \in LightsType, NEW L1,
           \A l \in Lights : \/ L1[l] = L[l] \/ L1[l] = ExpireFade(L[l])
                             \/ L1[l] = RefreshStatus(L[l]) \/ L1[l] = Advance(L[l])
    PROVE  Keeps(L, L1)
<1> SUFFICES ASSUME NEW l \in Lights, Coherent(L[l]) PROVE Coherent(L1[l])
    BY DEF Keeps
<1>1. L[l] \in GearType
    BY DEF LightsType
<1>2. /\ Coherent(ExpireFade(L[l])) /\ Coherent(RefreshStatus(L[l])) /\ Coherent(Advance(L[l]))
    BY <1>1, ExpireFadeSeen, RefreshStatusSeen, AdvanceSeen DEF Seen
<1> QED
    BY <1>2

\* What the three queries and the clock make of a light.
LEMMA QueryLevelKeeps ==
    ASSUME MaxArc \in Nat, light \in LightsType, NEW w, QueryLevel(w)
    PROVE  Keeps(light, light') /\ op' = Op("query", w)
<1>1. /\ light' = [l \in Lights |-> IF l \in Targets[w] THEN ExpireFade(light[l]) ELSE light[l]]
      /\ op' = Op("query", w)
    BY DEF QueryLevel, Answered, Commit, Outcome
<1>2. \A l \in Lights : light'[l] = light[l] \/ light'[l] = ExpireFade(light[l])
    BY <1>1
<1> QED
    BY <1>1, <1>2, LookKeeps

LEMMA QueryStatusKeeps ==
    ASSUME MaxArc \in Nat, light \in LightsType, NEW w, QueryStatus(w)
    PROVE  Keeps(light, light') /\ op' = Op("query", w)
<1>1. /\ light' = [l \in Lights |-> IF l \in Targets[w] THEN RefreshStatus(light[l]) ELSE light[l]]
      /\ op' = Op("query", w)
    BY DEF QueryStatus, Answered, Commit, Outcome
<1>2. \A l \in Lights : light'[l] = light[l] \/ light'[l] = RefreshStatus(light[l])
    BY <1>1
<1> QED
    BY <1>1, <1>2, LookKeeps

LEMMA QueryGroupStatusKeeps ==
    ASSUME MaxArc \in Nat, light \in LightsType, NEW w, QueryGroupStatus(w)
    PROVE  Keeps(light, light') /\ op' = Op("query", w)
<1> DEFINE L == Expired(light, {w})
<1>1. /\ op' = Op("query", w)
      /\ light' = L \/ \E m \in Members[w] : light' = [L EXCEPT ![m] = RefreshStatus(@)]
    BY DEF QueryGroupStatus, Answered, Commit, Outcome
<1>2. L \in LightsType /\ Keeps(light, L)
    BY ExpiredType, ExpiredKeeps
<1> HIDE DEF L
<1>3. L = [l \in Lights |-> L[l]]
    BY <1>2 DEF LightsType
<1>4. \A l \in Lights : light'[l] = L[l] \/ light'[l] = RefreshStatus(L[l])
    BY <1>1, <1>3
<1>5. Keeps(L, light')
    BY <1>2, <1>4, LookKeeps
<1> QED
    BY <1>1, <1>2, <1>5 DEF Keeps

\* No step of the running controller brings a status byte out of agreement, and a
\* level command brings it into agreement.
Healing ==
    /\ Keeps(light, light')
    /\ op'.kind = "level" => op'.wire \in Wires /\ Heals(light', op'.wire)

LEMMA NextHeals == ASSUME IInv, Next PROVE Healing
<1> USE LevelAssumption, SceneAssumption, InputAssumption
<1>0. /\ light \in LightsType /\ MaxArc \in Nat /\ SceneFade \in Nat
      /\ ArcLevels \subseteq Int /\ Mixed \in Int /\ Durations \subseteq Nat /\ Relatives \subseteq Choices
    BY DEF IInv, Sound, InputAssumption, LevelAssumption, Levels, Mixed
<1>1. ASSUME NEW outcome, NEW w \in Wires, Commit(outcome, "level", w),
             Keeps(light, outcome.light), Heals(outcome.light, w)
      PROVE  Healing
    <2>1. light' = outcome.light /\ op'.wire = w
        BY <1>1 DEF Commit, Op
    <2> QED
        BY <1>1, <2>1 DEF Healing
<1>2. ASSUME NEW outcome, NEW kind, kind # "level", NEW w, Commit(outcome, kind, w),
             Keeps(light, outcome.light)
      PROVE  Healing
    <2>1. light' = outcome.light /\ op'.kind = kind
        BY <1>2 DEF Commit, Op
    <2> QED
        BY <1>2, <2>1 DEF Healing
<1>3. ASSUME op'.kind # "level", Keeps(light, light') PROVE Healing
    BY <1>3 DEF Healing
<1>4. ASSUME NEW w \in Wires, NEW v \in ArcLevels, SetArcLevel(w, v) PROVE Healing
    <2> DEFINE r == ApplyLevel(light, group, w, v, 0)
    <2>1. Keeps(light, r.light) /\ Heals(r.light, w)
        BY <1>0, ApplyLevelHeals
    <2>2. Commit(r, "level", w)
        BY <1>4 DEF SetArcLevel
    <2> HIDE DEF r
    <2> QED
        BY <1>1, <2>1, <2>2
<1>5. ASSUME NEW w \in Wires, NEW v \in ArcLevels, NEW d \in Durations, CustomFade(w, v, d) PROVE Healing
    <2> DEFINE r == ApplyLevel(light, group, w, v, d)
    <2>1. Keeps(light, r.light) /\ Heals(r.light, w)
        BY <1>0, ApplyLevelHeals
    <2>2. Commit(r, "level", w)
        BY <1>5 DEF CustomFade
    <2> HIDE DEF r
    <2> QED
        BY <1>1, <2>1, <2>2
<1>6. ASSUME NEW w \in Wires, NEW choice \in Relatives, Relative(w, choice) PROVE Healing
    <2> DEFINE r == ApplyPerLightLevel(light, group, w, choice)
    <2>1. Keeps(light, r.light) /\ Heals(r.light, w)
        BY <1>0, ApplyPerLightLevelHeals
    <2>2. Commit(r, "level", w)
        BY <1>6 DEF Relative
    <2> HIDE DEF r
    <2> QED
        BY <1>1, <2>1, <2>2
<1>7. ASSUME NEW w \in Wires, NEW s \in Scenes, RecallSceneOn(w, s) PROVE Healing
    <2> DEFINE r == ApplyScene(light, group, w, s, SceneFade)
    <2>1. Keeps(light, r.light)
        BY <1>0, ApplySceneKeeps
    <2>2. Commit(r, "scene", w)
        BY <1>7 DEF RecallSceneOn
    <2> HIDE DEF r
    <2> QED
        BY <1>2, <2>1, <2>2
<1>8. ASSUME NEW w \in Wires, NEW c \in Colours, NEW v \in ArcLevels \cup {Mixed}, DaliColour(w, c, v)
      PROVE  Healing
    <2> DEFINE first == ApplyColour(light, group, w, c)
               second == ApplyLevel(first.light, first.group, w, v, 0)
               both == [second EXCEPT !.events.colour = first.events.colour]
    <2>1. Keeps(light, first.light) /\ first.light \in LightsType
        <3>1. Keeps(light, first.light)
            BY <1>0, ApplyColourKeeps
        <3>2. Sound(first.light, first.group)
            BY ApplyColourSound DEF IInv
        <3> HIDE DEF first
        <3> QED
            BY <3>1, <3>2 DEF Sound
    <2>2. Commit(first, "colour", w) \/ Commit(both, "colour", w)
        BY <1>8 DEF DaliColour
    <2>3. both.light = second.light
        BY DEF ApplyLevel, Outcome
    <2> HIDE DEF first
    <2>4. Keeps(first.light, second.light)
        BY <1>0, <2>1, ApplyLevelHeals
    <2> HIDE DEF second
    <2>5. Keeps(light, both.light)
        BY <2>1, <2>3, <2>4 DEF Keeps
    <2> HIDE DEF both
    <2> QED
        BY <1>2, <2>1, <2>2, <2>5
<1>9. ASSUME NEW w \in Wires, StopFade(w) PROVE Healing
    <2> DEFINE r == StopFadeOn(light, group, w)
    <2>1. Keeps(light, r.light)
        BY <1>0, StopFadeKeeps
    <2>2. Commit(r, "stop", w)
        BY <1>9 DEF StopFade
    <2> HIDE DEF r
    <2> QED
        BY <1>2, <2>1, <2>2
<1>10. ASSUME NEW w \in Wires, QueryLevel(w) \/ QueryStatus(w) \/ QueryGroupStatus(w) PROVE Healing
    <2>1. Keeps(light, light') /\ op'.kind = "query"
        BY <1>0, <1>10, QueryLevelKeeps, QueryStatusKeeps, QueryGroupStatusKeeps DEF Op
    <2> QED
        BY <1>3, <2>1
<1>11. CASE FadeTick
    <2>1. light' = FadeProgress(light, group).light /\ op'.kind = "tick"
        BY <1>11 DEF FadeTick, Op
    <2> QED
        BY <1>0, <1>3, <2>1, FadeProgressKeeps
<1>12. CASE TimePasses
    <2>1. (\A l \in Lights : light'[l] = Advance(light[l])) /\ op'.kind = "time"
        BY <1>12 DEF TimePasses, Op
    <2> QED
        BY <1>0, <1>3, <2>1, LookKeeps
<1> QED
    BY <1>4, <1>5, <1>6, <1>7, <1>8, <1>9, <1>10, <1>11, <1>12 DEF Next, Commands, Looks

-----------------------------------------------------------------------------
(* What the file says while a dump goes on                                   *)

FileLightType ==
    [present : BOOLEAN, lampOn : BOOLEAN, fadeBit : BOOLEAN, level : Levels,
     lastScene : Scenes, sceneCurrent : BOOLEAN, colour : Colours \cup {NoColour}]
FileType == [light : [Lights -> FileLightType], group : [Groups -> Levels \cup {Mixed}]]

DumpType ==
    dump \in [on : BOOLEAN, number : Nat, asked : 0 .. Len(Questions), file : FileType,
              lost : Nat, commands : Nat, busy : SUBSET Lights]

\* The entry x has what a light y answers to a question.
LightSays(x, kind, y) ==
    /\ kind = "status" => x.lampOn = y.lampOn /\ x.fadeBit = y.fadeBit
    /\ kind = "level" => x.level = Visible(y)
    /\ kind = "last scene" => x.lastScene = y.lastScene
    /\ kind = "scene current" => x.sceneCurrent = y.sceneCurrent
    /\ kind = "colour" => x.colour = ColourRead(y.colour)

\* The file has the answers to the first n questions, as far as they are about lights
\* that are not busy and groups of such lights.
FileTells(file, n, busy, L, G) ==
    \A k \in 1 .. n :
        /\ \A l \in Lights \ busy, kind \in Kinds :
              Questions[k] = <<kind, l>> => LightSays(file.light[l], kind, L[l])
        /\ \A g \in Groups :
              (Questions[k] = <<"group level", g>> /\ Members[g] \cap busy = {})
                  => file.group[g] = GroupAnswer(L, G, g)

\* The file has no colour of a light that does not control colour.
Uncoloured(file) == \A l \in Lights \ ColourLights : file.light[l].colour = NoColour

SInv ==
    /\ IInv
    /\ DumpType
    /\ Uncoloured(dump.file)
    /\ op.kind = "level" => op.wire \in Wires /\ Heals(light, op.wire)
    /\ ~dump.on => dump.asked = 0
    /\ dump.lost = 0 => FileTells(dump.file, dump.asked, dump.busy, light, group)

LEMMA QuestionAt ==
    ASSUME NEW k \in 1 .. Len(Questions)
    PROVE  /\ Questions[k] = <<Questions[k][1], Questions[k][2]>>
           /\ \/ Questions[k][1] = "group level" /\ Questions[k][2] \in Groups
              \/ Questions[k][1] \in Kinds /\ Questions[k][2] \in Lights
           /\ Questions[k][1] = "colour" => Questions[k][2] \in ColourLights
<1>1. Questions[k] \in Question
    <2>1. Questions \in Seq(Question)
        BY QuestionsAre
    <2> QED
        BY <2>1, ElementOfSeq
<1>2. ASSUME NEW a, NEW b, Questions[k] = <<a, b>>
      PROVE  Questions[k] = <<Questions[k][1], Questions[k][2]>> /\ Questions[k][1] = a /\ Questions[k][2] = b
    <2>1. <<a, b>>[1] = a /\ <<a, b>>[2] = b
        OBVIOUS
    <2> QED
        BY <1>2, <2>1, Zenon
<1>3. CASE Questions[k] \in GroupQuestion
    <2>1. PICK g \in Groups : Questions[k] = <<"group level", g>>
        BY <1>3, Zenon DEF GroupQuestion
    <2>2. Questions[k][1] = "group level" /\ Questions[k][2] = g
        BY <1>2, <2>1, Zenon
    <2>3. "group level" # "colour"
        OBVIOUS
    <2> QED
        BY <1>2, <2>1, <2>2, <2>3, Zenon
<1>4. CASE Questions[k] \in LightQuestion
    <2>1. /\ \E kind \in Kinds, l \in Lights : Questions[k] = <<kind, l>>
          /\ \A l \in Lights \ ColourLights : Questions[k] # <<"colour", l>>
        BY <1>4 DEF LightQuestion
    <2>2. PICK kind \in Kinds, l \in Lights : Questions[k] = <<kind, l>>
        BY <2>1
    <2>3. kind = "colour" => l \in ColourLights
        BY <2>1, <2>2, Zenon
    <2> QED
        BY <1>2, <2>2, <2>3, Zenon
<1> QED
    BY <1>1, <1>3, <1>4, Zenon DEF Question

\* The answer of a group is in what its members show.
LEMMA SameGroupLevel ==
    ASSUME NEW g \in Groups, Members[g] # {}, NEW L, NEW L1, NEW G, NEW G1,
           \A m \in Members[g] : Visible(L1[m]) = Visible(L[m])
    PROVE  GroupLevel(L1, G1, g) = GroupLevel(L, G, g)
<1> DEFINE c == CHOOSE m \in Members[g] : TRUE
<1>1. c \in Members[g]
    OBVIOUS
<1> HIDE DEF c
<1>2. Visible(L1[c]) = Visible(L[c])
    BY <1>1
<1>3. (\A m, n \in Members[g] : Visible(L1[m]) = Visible(L1[n]))
        <=> (\A m, n \in Members[g] : Visible(L[m]) = Visible(L[n]))
    OBVIOUS
<1>4. GroupLevel(L1, G1, g) = IF \A m, n \in Members[g] : Visible(L1[m]) = Visible(L1[n])
                              THEN Visible(L1[c]) ELSE Mixed
    BY DEF GroupLevel, Agree, c
<1>5. GroupLevel(L, G, g) = IF \A m, n \in Members[g] : Visible(L[m]) = Visible(L[n])
                            THEN Visible(L[c]) ELSE Mixed
    BY DEF GroupLevel, Agree, c
<1> QED
    BY <1>2, <1>3, <1>4, <1>5

LEMMA SameAnswer ==
    ASSUME NEW g \in Groups, NEW L, NEW L1, NEW G, NEW G1,
           \A m \in Members[g] : Visible(L1[m]) = Visible(L[m])
    PROVE  GroupAnswer(L1, G1, g) = GroupAnswer(L, G, g)
BY SameGroupLevel DEF GroupAnswer

LEMMA TellsNothing == \A file, busy, L, G : FileTells(file, 0, busy, L, G)
<1>1. 1 .. 0 = {}
    OBVIOUS
<1> QED
    BY <1>1, Zenon DEF FileTells

\* What the file has stays true of the lights that nothing happened to.
LEMMA TellsStill ==
    ASSUME NEW file, NEW n \in Nat, NEW busy, NEW busy1, busy \subseteq busy1,
           NEW L, NEW L1, NEW G, NEW G1, \A l \in Lights \ busy1 : L1[l] = L[l],
           FileTells(file, n, busy, L, G)
    PROVE  FileTells(file, n, busy1, L1, G1)
<1> SUFFICES ASSUME NEW k \in 1 .. n
             PROVE  /\ \A l \in Lights \ busy1, kind \in Kinds :
                          Questions[k] = <<kind, l>> => LightSays(file.light[l], kind, L1[l])
                    /\ \A g \in Groups :
                          (Questions[k] = <<"group level", g>> /\ Members[g] \cap busy1 = {})
                              => file.group[g] = GroupAnswer(L1, G1, g)
    BY DEF FileTells
<1>1. ASSUME NEW l \in Lights \ busy1, NEW kind \in Kinds, Questions[k] = <<kind, l>>
      PROVE  LightSays(file.light[l], kind, L1[l])
    <2>1. LightSays(file.light[l], kind, L[l]) /\ L1[l] = L[l]
        BY <1>1 DEF FileTells
    <2> QED
        BY <2>1
<1>2. ASSUME NEW g \in Groups, Questions[k] = <<"group level", g>>, Members[g] \cap busy1 = {}
      PROVE  file.group[g] = GroupAnswer(L1, G1, g)
    <2>1. Members[g] \cap busy = {}
        BY <1>2
    <2>2. file.group[g] = GroupAnswer(L, G, g)
        BY <1>2, <2>1 DEF FileTells
    <2>3. \A m \in Members[g] : Visible(L1[m]) = Visible(L[m])
        BY <1>2, MembersType
    <2> QED
        BY <2>2, <2>3, SameAnswer
<1> QED
    BY <1>1, <1>2

LEMMA RecordedGroup ==
    ASSUME MaxArc \in Nat, NEW file \in FileType, NEW w \in Groups,
           NEW L \in LightsType, NEW G \in GroupsType
    PROVE  LET f == Recorded(file, "group level", w, L, G)
           IN  /\ f \in FileType /\ f.light = file.light
               /\ f.group[w] = GroupAnswer(L, G, w)
               /\ \A g \in Groups : g # w => f.group[g] = file.group[g]
<1> DEFINE f == Recorded(file, "group level", w, L, G)
           a == GroupAnswer(L, G, w)
<1>1. f = [file EXCEPT !.group[w] = a]
    BY DEF Recorded
<1>2. a \in Levels \cup {Mixed}
    BY GroupLevelType DEF GroupAnswer, Levels
<1> HIDE DEF f, a
<1>3. f.light = file.light /\ f.group = [file.group EXCEPT ![w] = a] /\ f \in FileType
    BY <1>1, <1>2 DEF FileType
<1>4. f.group[w] = a /\ \A g \in Groups : g # w => f.group[g] = file.group[g]
    BY <1>3 DEF FileType
<1> QED
    BY <1>3, <1>4 DEF f, a

\* The answer about a light goes into its entry, and everything else in the entry
\* and in the file stays.
LEMMA RecordedLight ==
    ASSUME MaxArc \in Nat, NEW file \in FileType, NEW kind \in Kinds, NEW w \in Lights,
           NEW L \in LightsType, NEW G
    PROVE  LET f == Recorded(file, kind, w, L, G)
           IN  /\ f \in FileType /\ f.group = file.group
               /\ \A l \in Lights : l # w => f.light[l] = file.light[l]
               /\ LightSays(f.light[w], kind, L[w])
               /\ \A other \in Kinds :
                     LightSays(file.light[w], other, L[w]) => LightSays(f.light[w], other, L[w])
               /\ kind # "colour" => f.light[w].colour = file.light[w].colour
<1> DEFINE f == Recorded(file, kind, w, L, G)
           x == file.light[w]
           Written(y) == /\ y \in FileLightType
                         /\ f = [file EXCEPT !.light[w] = y]
                         /\ LightSays(y, kind, L[w])
                         /\ \A other \in Kinds : LightSays(x, other, L[w]) => LightSays(y, other, L[w])
                         /\ kind # "colour" => y.colour = x.colour
<1>1. x \in FileLightType /\ L[w] \in GearType /\ Visible(L[w]) \in Levels
    BY VisibleType DEF FileType, LightsType
<1>2. \E y : Written(y)
    <2>1. CASE kind = "status"
        <3> DEFINE y == [x EXCEPT !.present = TRUE, !.lampOn = L[w].lampOn, !.fadeBit = L[w].fadeBit]
        <3>1. y \in FileLightType
            BY <1>1 DEF FileLightType, GearType
        <3>2. f = [file EXCEPT !.light[w] = y]
            BY <2>1 DEF Recorded, FileType, FileLightType
        <3>3. /\ y.lampOn = L[w].lampOn /\ y.fadeBit = L[w].fadeBit /\ y.level = x.level
              /\ y.lastScene = x.lastScene /\ y.sceneCurrent = x.sceneCurrent /\ y.colour = x.colour
            BY <1>1 DEF FileLightType
        <3> HIDE DEF y, x, f
        <3>4. LightSays(y, kind, L[w]) /\ \A other \in Kinds : LightSays(x, other, L[w]) => LightSays(y, other, L[w])
            BY <2>1, <3>3 DEF LightSays
        <3> QED
            BY <3>1, <3>2, <3>3, <3>4
    <2>2. CASE kind = "level"
        <3> DEFINE v == Visible(L[w])
                   y == [x EXCEPT !.level = v]
        <3>1. y \in FileLightType
            BY <1>1 DEF FileLightType
        <3>2. f = [file EXCEPT !.light[w] = y]
            BY <2>2 DEF Recorded, FileType, FileLightType
        <3>3. /\ y.level = v /\ y.lampOn = x.lampOn /\ y.fadeBit = x.fadeBit
              /\ y.lastScene = x.lastScene /\ y.sceneCurrent = x.sceneCurrent /\ y.colour = x.colour
            BY <1>1 DEF FileLightType
        <3> HIDE DEF y, x, f
        <3>4. LightSays(y, kind, L[w]) /\ \A other \in Kinds : LightSays(x, other, L[w]) => LightSays(y, other, L[w])
            BY <2>2, <3>3 DEF LightSays
        <3> QED
            BY <3>1, <3>2, <3>3, <3>4
    <2>3. CASE kind = "last scene"
        <3> DEFINE y == [x EXCEPT !.lastScene = L[w].lastScene]
        <3>1. y \in FileLightType
            BY <1>1 DEF FileLightType, GearType
        <3>2. f = [file EXCEPT !.light[w] = y]
            BY <2>3 DEF Recorded, FileType, FileLightType
        <3>3. /\ y.lastScene = L[w].lastScene /\ y.lampOn = x.lampOn /\ y.fadeBit = x.fadeBit
              /\ y.level = x.level /\ y.sceneCurrent = x.sceneCurrent /\ y.colour = x.colour
            BY <1>1 DEF FileLightType
        <3> HIDE DEF y, x, f
        <3>4. LightSays(y, kind, L[w]) /\ \A other \in Kinds : LightSays(x, other, L[w]) => LightSays(y, other, L[w])
            BY <2>3, <3>3 DEF LightSays
        <3> QED
            BY <3>1, <3>2, <3>3, <3>4
    <2>4. CASE kind = "scene current"
        <3> DEFINE y == [x EXCEPT !.sceneCurrent = L[w].sceneCurrent]
        <3>1. y \in FileLightType
            BY <1>1 DEF FileLightType, GearType
        <3>2. f = [file EXCEPT !.light[w] = y]
            BY <2>4 DEF Recorded, FileType, FileLightType
        <3>3. /\ y.sceneCurrent = L[w].sceneCurrent /\ y.lampOn = x.lampOn /\ y.fadeBit = x.fadeBit
              /\ y.level = x.level /\ y.lastScene = x.lastScene /\ y.colour = x.colour
            BY <1>1 DEF FileLightType
        <3> HIDE DEF y, x, f
        <3>4. LightSays(y, kind, L[w]) /\ \A other \in Kinds : LightSays(x, other, L[w]) => LightSays(y, other, L[w])
            BY <2>4, <3>3 DEF LightSays
        <3> QED
            BY <3>1, <3>2, <3>3, <3>4
    <2>5. CASE kind = "colour"
        <3> DEFINE v == ColourRead(L[w].colour)
                   y == [x EXCEPT !.colour = v]
        <3>0. v \in Colours \cup {NoColour}
            BY <1>1, OrderAssumption DEF ColourRead, GearType, OrderAssumption
        <3> HIDE DEF v
        <3>1. y \in FileLightType
            BY <1>1, <3>0 DEF FileLightType
        <3>2. f = [file EXCEPT !.light[w] = y]
            BY <2>5 DEF Recorded, FileType, FileLightType, v
        <3>3. /\ y.colour = v /\ y.lampOn = x.lampOn /\ y.fadeBit = x.fadeBit
              /\ y.level = x.level /\ y.lastScene = x.lastScene /\ y.sceneCurrent = x.sceneCurrent
            BY <1>1 DEF FileLightType
        <3> HIDE DEF y, x, f
        <3>4. LightSays(y, kind, L[w]) /\ \A other \in Kinds : LightSays(x, other, L[w]) => LightSays(y, other, L[w])
            BY <2>5, <3>3 DEF LightSays, v
        <3> QED
            BY <2>5, <3>1, <3>2, <3>4
    <2> QED
        BY <2>1, <2>2, <2>3, <2>4, <2>5 DEF Kinds
<1>3. PICK y : Written(y)
    BY <1>2
<1> HIDE DEF f
<1>4. /\ f \in FileType /\ f.group = file.group /\ f.light[w] = y
      /\ \A l \in Lights : l # w => f.light[l] = file.light[l]
    <2>1. y \in FileLightType /\ f = [file EXCEPT !.light[w] = y]
        BY <1>3
    <2> HIDE DEF Written, x
    <2>2. f.group = file.group /\ f.light = [file.light EXCEPT ![w] = y] /\ f \in FileType
        BY <2>1 DEF FileType
    <2> QED
        BY <2>2 DEF FileType
<1> QED
    BY <1>3, <1>4 DEF f

\* No answer gives a colour to a light that is not asked for one.
LEMMA RecordedType ==
    ASSUME MaxArc \in Nat, NEW file \in FileType, NEW L \in LightsType, NEW G \in GroupsType,
           NEW k \in 1 .. Len(Questions), Uncoloured(file)
    PROVE  LET f == Recorded(file, Questions[k][1], Questions[k][2], L, G)
           IN  f \in FileType /\ Uncoloured(f)
<1> DEFINE kind == Questions[k][1]
           w == Questions[k][2]
           f == Recorded(file, kind, w, L, G)
<1>1. /\ (kind = "group level" /\ w \in Groups) \/ (kind \in Kinds /\ w \in Lights)
      /\ kind = "colour" => w \in ColourLights
    BY QuestionAt
<1> HIDE DEF kind, w
<1>2. CASE kind = "group level" /\ w \in Groups
    <2>1. f = Recorded(file, "group level", w, L, G)
        BY <1>2
    <2> HIDE DEF f
    <2>2. f \in FileType /\ f.light = file.light
        BY <1>2, <2>1, RecordedGroup
    <2> QED
        BY <2>2 DEF Uncoloured, f, kind, w
<1>3. CASE kind \in Kinds /\ w \in Lights
    <2>1. /\ f \in FileType
          /\ \A l \in Lights : l # w => f.light[l] = file.light[l]
          /\ kind # "colour" => f.light[w].colour = file.light[w].colour
        BY <1>3, RecordedLight
    <2> HIDE DEF f
    <2>2. Uncoloured(f)
        BY <1>1, <2>1 DEF Uncoloured
    <2> QED
        BY <2>1, <2>2 DEF f, kind, w
<1> QED
    BY <1>1, <1>2, <1>3

\* One more question asked and its answer written down.
LEMMA RecordedTells ==
    ASSUME MaxArc \in Nat, NEW file \in FileType, NEW L \in LightsType, NEW G \in GroupsType, NEW busy,
           NEW n \in Nat, n + 1 \in 1 .. Len(Questions), FileTells(file, n, busy, L, G)
    PROVE  LET f == Recorded(file, Questions[n + 1][1], Questions[n + 1][2], L, G)
           IN  f \in FileType /\ FileTells(f, n + 1, busy, L, G)
<1> DEFINE kind == Questions[n + 1][1]
           w == Questions[n + 1][2]
           f == Recorded(file, kind, w, L, G)
<1>1. /\ Questions[n + 1] = <<kind, w>>
      /\ \/ kind = "group level" /\ w \in Groups
         \/ kind \in Kinds /\ w \in Lights
    BY QuestionAt
<1> HIDE DEF kind, w
<1>2. \A k \in 1 .. n + 1 : k \in 1 .. n \/ k = n + 1
    OBVIOUS
<1>3. "group level" \notin Kinds
    BY DEF Kinds
<1>4. /\ f \in FileType
      /\ kind = "group level" =>
            /\ f.light = file.light /\ f.group[w] = GroupAnswer(L, G, w)
            /\ \A g \in Groups : g # w => f.group[g] = file.group[g]
      /\ kind # "group level" =>
            /\ f.group = file.group
            /\ \A l \in Lights : l # w => f.light[l] = file.light[l]
            /\ LightSays(f.light[w], kind, L[w])
            /\ \A other \in Kinds : LightSays(file.light[w], other, L[w]) => LightSays(f.light[w], other, L[w])
    <2>1. CASE kind = "group level" /\ w \in Groups
        <3>1. f = Recorded(file, "group level", w, L, G)
            BY <2>1
        <3> HIDE DEF f
        <3>2. /\ f \in FileType /\ f.light = file.light /\ f.group[w] = GroupAnswer(L, G, w)
              /\ \A g \in Groups : g # w => f.group[g] = file.group[g]
            BY <2>1, <3>1, RecordedGroup
        <3> QED
            BY <2>1, <3>2
    <2>2. CASE kind \in Kinds /\ w \in Lights
        <3>1. /\ f \in FileType /\ f.group = file.group
              /\ \A l \in Lights : l # w => f.light[l] = file.light[l]
              /\ LightSays(f.light[w], kind, L[w])
              /\ \A other \in Kinds : LightSays(file.light[w], other, L[w]) => LightSays(f.light[w], other, L[w])
            BY <2>2, RecordedLight
        <3>2. kind # "group level"
            BY <1>3, <2>2
        <3> HIDE DEF f
        <3> QED
            BY <3>1, <3>2
    <2> QED
        BY <1>1, <2>1, <2>2
<1> HIDE DEF f
<1>5. ASSUME NEW k \in 1 .. n + 1, NEW l \in Lights \ busy, NEW other \in Kinds, Questions[k] = <<other, l>>
      PROVE  LightSays(f.light[l], other, L[l])
    <2>1. CASE k \in 1 .. n
        <3>1. LightSays(file.light[l], other, L[l])
            BY <1>5, <2>1 DEF FileTells
        <3>2. CASE f.light[l] = file.light[l]
            BY <3>1, <3>2
        <3>3. CASE f.light[l] # file.light[l]
            <4>1. l = w /\ kind # "group level"
                BY <1>4, <3>3
            <4> QED
                BY <1>4, <3>1, <4>1
        <3> QED
            BY <3>2, <3>3
    <2>2. CASE k = n + 1
        <3>1. <<other, l>> = <<kind, w>>
            BY <1>1, <1>5, <2>2
        <3>2. other = kind /\ l = w
            BY <3>1
        <3> QED
            BY <1>3, <1>4, <3>2
    <2> QED
        BY <1>2, <2>1, <2>2
<1>6. ASSUME NEW k \in 1 .. n + 1, NEW g \in Groups, Questions[k] = <<"group level", g>>, Members[g] \cap busy = {}
      PROVE  f.group[g] = GroupAnswer(L, G, g)
    <2>1. CASE k \in 1 .. n
        <3>1. file.group[g] = GroupAnswer(L, G, g)
            BY <1>6, <2>1 DEF FileTells
        <3> QED
            BY <1>4, <3>1
    <2>2. CASE k = n + 1
        <3>1. <<"group level", g>> = <<kind, w>>
            BY <1>1, <1>6, <2>2
        <3>2. kind = "group level" /\ g = w
            BY <3>1
        <3> QED
            BY <1>4, <3>2
    <2> QED
        BY <1>2, <2>1, <2>2
<1>7. FileTells(f, n + 1, busy, L, G)
    BY <1>5, <1>6 DEF FileTells
<1> QED
    BY <1>4, <1>7 DEF f, kind, w

-----------------------------------------------------------------------------
(* The steps                                                                 *)

\* A question is a query of the controller, or one that changes nothing.
LEMMA HandleIsQuery ==
    ASSUME IInv, NEW kind, NEW w, Handle(kind, w),
           (kind = "group level" /\ w \in Groups) \/ (kind \in Kinds /\ w \in Lights)
    PROVE  IInv' /\ Keeps(light, light') /\ op'.kind = "query"
<1>1. w \in Wires /\ light \in LightsType /\ MaxArc \in Nat
    BY LevelAssumption DEF Wires, IInv, Sound, LevelAssumption
<1>2. QueryLevel(w) \/ QueryStatus(w) \/ Answered(light, w)
    BY DEF Handle
<1>3. CASE QueryLevel(w) \/ QueryStatus(w)
    <2>1. Next
        BY <1>1, <1>3 DEF Next, Looks
    <2>2. Keeps(light, light') /\ op' = Op("query", w)
        BY <1>1, <1>3, QueryLevelKeeps, QueryStatusKeeps
    <2> QED
        BY <2>1, <2>2, NextInv DEF Op
<1>4. CASE Answered(light, w)
    <2>1. light' = light /\ group' = group /\ ticked' = ticked /\ op' = Op("query", w)
        BY <1>4 DEF Answered, Commit, Outcome
    <2> QED
        BY <2>1 DEF IInv, Keeps, Op
<1> QED
    BY <1>2, <1>3, <1>4

\* load_world makes gear and groups of whatever the file holds.
LEMMA LoadedSound ==
    ASSUME NEW file \in FileType
    PROVE  Sound(FileLights(file), FileGroups(file))
<1>1. MaxArc \in Nat \ {0} /\ FirstScene \in Scenes
    BY LevelAssumption, OrderAssumption DEF LevelAssumption, OrderAssumption
<1>2. ASSUME NEW l \in Lights PROVE LoadedFrom(file.light[l]) \in GearType
    <2> DEFINE x == file.light[l]
               active == IF x.level > 0 THEN x.level ELSE MaxArc
    <2>1. x \in FileLightType
        BY DEF FileType
    <2> HIDE DEF x
    <2>2. active \in 1 .. MaxArc
        BY <1>1, <2>1 DEF FileLightType, Levels
    <2>3. NoFade \in FadeType
        BY <1>1, NoFadeType
    <2>4. LoadedFrom(x) = [level |-> x.level, lastActive |-> active,
                           lastScene |-> x.lastScene, sceneCurrent |-> x.sceneCurrent, colour |-> x.colour,
                           lampOn |-> x.lampOn, fadeBit |-> x.fadeBit, fade |-> NoFade]
        BY DEF LoadedFrom
    <2> HIDE DEF active
    <2>5. LoadedFrom(x) \in GearType
        BY <2>1, <2>2, <2>3, <2>4 DEF FileLightType, GearType
    <2> QED
        BY <2>5 DEF x
<1>3. FileLights(file) \in LightsType
    BY <1>2 DEF FileLights, LightsType
<1>4. FileGroups(file) \in GroupsType
    BY <1>1 DEF FileGroups, FileType, GroupsType, GroupType
<1>5. \A g \in Groups : ~FileGroups(file)[g].sceneCurrent
    BY DEF FileGroups
<1> QED
    BY <1>3, <1>4, <1>5 DEF Sound, SceneAgrees

LEMMA EmptyFileType == EmptyFile \in FileType /\ Uncoloured(EmptyFile)
<1>1. MaxArc \in Nat /\ FirstScene \in Scenes
    BY LevelAssumption, OrderAssumption DEF LevelAssumption, OrderAssumption
<1>2. DefaultLight \in FileLightType
    BY <1>1 DEF DefaultLight, FileLightType, Levels
<1> QED
    BY <1>1, <1>2 DEF EmptyFile, FileType, Levels, Uncoloured, DefaultLight

LEMMA QuestionsCounted == Len(Questions) \in Nat
<1>1. Questions \in Seq(Question)
    BY QuestionsAre
<1> QED
    BY <1>1

\* The dump keeps its type, whatever it writes down.
LEMMA SnapshotInitInv == SnapshotInit => SInv
<1> SUFFICES ASSUME SnapshotInit PROVE SInv
    OBVIOUS
<1>1. IInv /\ op.kind = "load"
    BY InitInv DEF SnapshotInit, Init, Op
<1>2. dump = Idle
    BY DEF SnapshotInit
<1>3. DumpType /\ Uncoloured(dump.file)
    BY <1>2, EmptyFileType, QuestionsCounted DEF DumpType, Idle
<1>4. ~dump.on /\ dump.asked = 0
    BY <1>2 DEF Idle
<1>5. FileTells(dump.file, 0, dump.busy, light, group)
    BY TellsNothing
<1> QED
    BY <1>1, <1>3, <1>4, <1>5 DEF SInv

\* What every step of the dump and of others preserves.
Recovers ==
    op'.kind # "load" =>
        \A l \in Lights :
            (Coherent(light[l]) \/ (op'.kind = "level" /\ l \in Targets[op'.wire]))
                => Coherent(light'[l])

LEMMA StartDumpStep == SInv /\ StartDump => SInv' /\ Recovers
<1> SUFFICES ASSUME SInv, StartDump PROVE SInv' /\ Recovers
    OBVIOUS
<1>1. UNCHANGED <<light, group, ticked, op>>
    BY DEF StartDump, vars
<1>2. IInv' /\ (op'.kind = "level" => op'.wire \in Wires /\ Heals(light', op'.wire))
    BY <1>1 DEF SInv, IInv, Heals
<1> DEFINE b == {l \in Lights : Fading(light[l])}
<1>3. /\ dump' = [dump EXCEPT !.on = TRUE, !.number = @ + 1, !.busy = b]
      /\ ~dump.on /\ dump.asked = 0
    BY DEF StartDump, SInv
<1>4. b \in SUBSET Lights
    OBVIOUS
<1> HIDE DEF b
<1>5. DumpType'
    <2>1. DumpType
        BY DEF SInv
    <2>2. dump.number + 1 \in Nat
        BY <2>1 DEF DumpType
    <2> QED
        BY <1>3, <1>4, <2>1, <2>2 DEF DumpType
<1>6. dump'.on /\ dump'.asked = 0 /\ dump'.file = dump.file
    BY <1>3 DEF SInv, DumpType
<1>7. FileTells(dump'.file, 0, dump'.busy, light', group')
    BY TellsNothing
<1>8. SInv'
    BY <1>2, <1>5, <1>6, <1>7 DEF SInv, Uncoloured
<1>9. Recovers
    BY <1>1 DEF Recovers, SInv, Heals
<1> QED
    BY <1>8, <1>9

\* Whatever happens to the lights meanwhile, those it happens to become busy.
LEMMA WatchedTells ==
    ASSUME SInv, dump.lost = 0
    PROVE  FileTells(dump.file, dump.asked, Busy, light', group')
<1>1. dump.asked \in Nat
    BY QuestionsCounted DEF SInv, DumpType
<1>2. FileTells(dump.file, dump.asked, dump.busy, light, group)
    BY DEF SInv
<1>3. dump.busy \subseteq Busy /\ \A l \in Lights \ Busy : light'[l] = light[l]
    BY DEF Busy
<1> HIDE DEF Busy
<1> QED
    BY <1>1, <1>2, <1>3, TellsStill

LEMMA AskStep == SInv /\ Ask => SInv' /\ Recovers
<1> SUFFICES ASSUME SInv, Ask PROVE SInv' /\ Recovers
    OBVIOUS
<1> DEFINE n == dump.asked
           N == Len(Questions)
           kind == Questions[n + 1][1]
           w == Questions[n + 1][2]
           f == Recorded(dump.file, kind, w, light', group')
           b == Busy
<1>1. DumpType /\ N \in Nat /\ n \in Nat /\ n + 1 \in 1 .. N
    <2>1. DumpType /\ N \in Nat /\ n \in 0 .. N /\ n # N
        BY QuestionsCounted DEF SInv, Ask, Done, DumpType
    <2> HIDE DEF n, N
    <2> QED
        BY <2>1
<1>2. Handle(kind, w) /\ dump' = [dump EXCEPT !.asked = n + 1, !.busy = b, !.file = f] /\ dump.on
    BY DEF Ask
<1>3. (kind = "group level" /\ w \in Groups) \/ (kind \in Kinds /\ w \in Lights)
    BY <1>1, QuestionAt
<1>4. IInv' /\ Keeps(light, light') /\ op'.kind = "query"
    <2> HIDE DEF kind, w
    <2> QED
        BY <1>2, <1>3, HandleIsQuery DEF SInv
<1>5. MaxArc \in Nat /\ dump.file \in FileType /\ light' \in LightsType /\ group' \in GroupsType
    BY <1>1, <1>4, LevelAssumption DEF LevelAssumption, DumpType, IInv, Sound
<1>6. f \in FileType /\ Uncoloured(f)
    BY <1>1, <1>5, RecordedType DEF SInv
<1>7. dump.lost = 0 => FileTells(f, n + 1, b, light', group')
    <2> SUFFICES ASSUME dump.lost = 0 PROVE FileTells(f, n + 1, b, light', group')
        OBVIOUS
    <2>1. FileTells(dump.file, n, b, light', group')
        BY WatchedTells
    <2> HIDE DEF n, b
    <2> QED
        BY <1>1, <1>5, <2>1, RecordedTells
<1>8. b \in SUBSET Lights
    BY <1>1 DEF Busy, DumpType
<1> HIDE DEF kind, w, f, b
<1>9. DumpType'
    <2>1. n + 1 \in 0 .. N
        <3> HIDE DEF n, N
        <3> QED
            BY <1>1
    <2> QED
        BY <1>1, <1>2, <1>6, <1>8, <2>1 DEF DumpType
<1>10. /\ dump'.on /\ dump'.lost = dump.lost /\ dump'.file = f
       /\ dump'.asked = n + 1 /\ dump'.busy = b
    BY <1>1, <1>2 DEF DumpType
<1> HIDE DEF n, N
<1>11. SInv'
    BY <1>4, <1>6, <1>7, <1>9, <1>10 DEF SInv, Uncoloured
<1>12. Recovers
    BY <1>4 DEF Recovers, Keeps
<1> QED
    BY <1>11, <1>12

LEMMA AskInVainStep == SInv /\ AskInVain => SInv' /\ Recovers
<1> SUFFICES ASSUME SInv, AskInVain PROVE SInv' /\ Recovers
    OBVIOUS
<1> DEFINE n == dump.asked
           N == Len(Questions)
           kind == Questions[n + 1][1]
           w == Questions[n + 1][2]
           next == n + (IF kind = "status" THEN Len(LightQuestions(w)) ELSE 1)
           b == Busy
<1>1. DumpType /\ N \in Nat /\ n \in Nat /\ n + 1 \in 1 .. N
    <2>1. DumpType /\ N \in Nat /\ n \in 0 .. N /\ n # N
        BY QuestionsCounted DEF SInv, AskInVain, Done, DumpType
    <2> HIDE DEF n, N
    <2> QED
        BY <2>1
<1>2. /\ Handle(kind, w) \/ UNCHANGED vars
      /\ dump' = [dump EXCEPT !.asked = next, !.lost = @ + 1, !.busy = b]
      /\ dump.on
    BY DEF AskInVain
<1>3. /\ Questions[n + 1] = <<kind, w>>
      /\ (kind = "group level" /\ w \in Groups) \/ (kind \in Kinds /\ w \in Lights)
    BY <1>1, QuestionAt
<1>4. next \in 0 .. N
    <2>1. CASE kind = "status"
        <3>1. w \in Lights /\ Len(LightQuestions(w)) \in Nat
            BY <1>3, <2>1, AboutOneLight DEF Kinds
        <3>2. Questions[n + 1] = <<"status", w>>
            BY <1>3, <2>1
        <3> HIDE DEF kind, w, n
        <3>3. (n + 1) + Len(LightQuestions(w)) <= N + 1
            BY <1>1, <3>1, <3>2, QuestionsAre
        <3>4. next = n + Len(LightQuestions(w))
            BY <2>1, <3>1
        <3> HIDE DEF next, N
        <3> QED
            BY <1>1, <3>1, <3>3, <3>4
    <2>2. CASE kind # "status"
        <3>1. next = n + 1
            BY <2>2
        <3> HIDE DEF next, N, n
        <3> QED
            BY <1>1, <3>1
    <2> QED
        BY <2>1, <2>2
<1> HIDE DEF kind, w
<1>5. IInv' /\ Keeps(light, light') /\ Recovers /\ (op'.kind = "level" => op'.wire \in Wires /\ Heals(light', op'.wire))
    <2>1. CASE Handle(kind, w)
        <3>1. IInv' /\ Keeps(light, light') /\ op'.kind = "query"
            BY <1>3, <2>1, HandleIsQuery DEF SInv
        <3> QED
            BY <3>1 DEF Recovers, Keeps
    <2>2. CASE UNCHANGED vars
        <3>1. UNCHANGED <<light, group, ticked, op>>
            BY <2>2 DEF vars
        <3>2. IInv' /\ (op'.kind = "level" => op'.wire \in Wires /\ Heals(light', op'.wire))
            BY <3>1 DEF SInv, IInv, Heals
        <3>3. Recovers
            BY <3>1 DEF Recovers, SInv, Heals
        <3>4. Keeps(light, light')
            BY <3>1 DEF Keeps
        <3> QED
            BY <3>2, <3>3, <3>4
    <2> QED
        BY <1>2, <2>1, <2>2
<1>6. b \in SUBSET Lights
    BY <1>1 DEF Busy, DumpType
<1> HIDE DEF next, b
<1>7. DumpType'
    <2>1. dump.lost + 1 \in Nat
        BY <1>1 DEF DumpType
    <2> QED
        BY <1>1, <1>2, <1>4, <1>6, <2>1 DEF DumpType
<1>8. dump'.on /\ dump'.lost # 0 /\ dump'.file = dump.file
    BY <1>1, <1>2 DEF DumpType
<1>9. SInv'
    BY <1>5, <1>7, <1>8 DEF SInv, Uncoloured
<1> QED
    BY <1>5, <1>9

LEMMA OthersStep == SInv /\ Others => SInv' /\ Recovers
<1> SUFFICES ASSUME SInv, Others PROVE SInv' /\ Recovers
    OBVIOUS
<1>1. IInv' /\ Healing
    BY NextInv, NextHeals DEF Others, OthersCommand, OthersLook, Next, SInv
<1>2. Recovers
    BY <1>1 DEF Recovers, Healing, Keeps, Heals
<1> DEFINE b == Busy
<1>3. DumpType /\ b \in SUBSET Lights
    BY DEF Busy, SInv, DumpType
<1>4. PICK c \in {dump.commands + 0, dump.commands + 1} :
        dump' = IF dump.on THEN [dump EXCEPT !.busy = b, !.commands = c] ELSE dump
    BY DEF Others, OthersCommand, OthersLook, Watched
<1>5. dump.lost = 0 => FileTells(dump.file, dump.asked, b, light', group')
    BY WatchedTells
<1>10. c \in Nat
    BY <1>3 DEF DumpType
<1> HIDE DEF b
<1>6. DumpType'
    BY <1>3, <1>4, <1>10 DEF DumpType
<1>7. /\ dump'.on = dump.on /\ dump'.asked = dump.asked
      /\ dump'.lost = dump.lost /\ dump'.file = dump.file
      /\ dump'.busy = IF dump.on THEN b ELSE dump.busy
    BY <1>3, <1>4 DEF DumpType
<1>8. dump'.lost = 0 => FileTells(dump'.file, dump'.asked, dump'.busy, light', group')
    <2>1. CASE dump.on
        BY <1>5, <1>7, <2>1
    <2>2. CASE ~dump.on
        <3>1. dump'.asked = 0
            BY <1>7, <2>2 DEF SInv
        <3> QED
            BY <3>1, TellsNothing
    <2> QED
        BY <2>1, <2>2
<1>9. SInv'
    BY <1>1, <1>6, <1>7, <1>8 DEF SInv, Healing, Uncoloured
<1> QED
    BY <1>2, <1>9

LEMMA LoadStep == SInv /\ Load => SInv' /\ Recovers
<1> SUFFICES ASSUME SInv, Load PROVE SInv' /\ Recovers
    OBVIOUS
<1>1. op'.kind = "load"
    BY DEF Load, Op
<1>2. IInv'
    BY LoadedSound DEF Load, SInv, DumpType, IInv
<1>3. dump' = [on |-> FALSE, number |-> dump.number, asked |-> 0, file |-> EmptyFile,
               lost |-> 0, commands |-> 0, busy |-> {}]
    BY DEF Load, Idle
<1>4. DumpType' /\ Uncoloured(dump'.file)
    BY <1>3, EmptyFileType, QuestionsCounted DEF SInv, DumpType
<1>5. dump'.asked = 0 /\ FileTells(dump'.file, 0, dump'.busy, light', group')
    BY <1>3, TellsNothing
<1>6. SInv'
    BY <1>1, <1>2, <1>4, <1>5 DEF SInv, Uncoloured
<1> QED
    BY <1>1, <1>6 DEF Recovers

LEMMA SnapshotStep == SInv /\ [SnapshotNext]_snapshotVars => SInv'
<1>1. CASE UNCHANGED snapshotVars
    BY <1>1 DEF snapshotVars, SInv, IInv, DumpType, Heals, FileTells, Uncoloured
<1> QED
    BY <1>1, StartDumpStep, AskStep, AskInVainStep, OthersStep, LoadStep DEF SnapshotNext

LEMMA SnapshotInvariant == SnapshotSpec => []SInv
BY SnapshotInitInv, SnapshotStep, PTL DEF SnapshotSpec

-----------------------------------------------------------------------------
(* What they amount to                                                       *)

LEMMA FileComplete ==
    ASSUME SInv, Done, dump.lost = 0
    PROVE  /\ \A l \in Lights \ dump.busy : \A kind \in AskedOf(l) :
                 LightSays(dump.file.light[l], kind, light[l])
           /\ \A g \in Groups : Members[g] \cap dump.busy = {} =>
                 dump.file.group[g] = GroupAnswer(light, group, g)
<1>1. FileTells(dump.file, Len(Questions), dump.busy, light, group)
    BY DEF SInv, Done
<1>2. ASSUME NEW l \in Lights \ dump.busy, NEW kind \in AskedOf(l)
      PROVE  LightSays(dump.file.light[l], kind, light[l])
    <2>1. PICK k \in 1 .. Len(Questions) : Questions[k] = <<kind, l>>
        BY QuestionsAre
    <2> QED
        BY <1>1, <2>1 DEF FileTells, AskedOf
<1>3. ASSUME NEW g \in Groups, Members[g] \cap dump.busy = {}
      PROVE  dump.file.group[g] = GroupAnswer(light, group, g)
    <2>1. PICK k \in 1 .. Len(Questions) : Questions[k] = <<"group level", g>>
        BY QuestionsAre
    <2> QED
        BY <1>1, <1>3, <2>1 DEF FileTells
<1> QED
    BY <1>2, <1>3

LEMMA UntouchedExact == SInv => UntouchedIsExact
<1> SUFFICES ASSUME SInv, Done, dump.lost = 0
             PROVE  LET L == FileLights(dump.file)
                        G == FileGroups(dump.file)
                    IN  /\ \A l \in Lights \ dump.busy : Reported(L[l]) = Carried(l, light[l])
                        /\ \A g \in Groups : Members[g] \cap dump.busy = {} =>
                              /\ GroupAnswer(L, G, g) = GroupAnswer(light, group, g)
                              /\ InSync(L, G, g)
    BY DEF UntouchedIsExact
<1> DEFINE L == FileLights(dump.file)
           G == FileGroups(dump.file)
<1>1. ASSUME NEW l \in Lights \ dump.busy
      PROVE  /\ Visible(L[l]) = Visible(light[l])
             /\ Reported(L[l]) = Carried(l, light[l])
    <2> DEFINE x == dump.file.light[l]
               y == light[l]
               c == IF l \in ColourLights THEN ColourRead(y.colour) ELSE NoColour
    <2>1. /\ \A kind \in AskedOf(l) : LightSays(x, kind, y)
          /\ l \notin ColourLights => x.colour = NoColour
        BY FileComplete DEF SInv, Uncoloured
    <2>2. /\ x.level = Visible(y) /\ x.lampOn = y.lampOn /\ x.fadeBit = y.fadeBit
          /\ x.lastScene = y.lastScene /\ x.sceneCurrent = y.sceneCurrent /\ x.colour = c
        <3> HIDE DEF x, y
        <3>1. /\ {"status", "level", "last scene", "scene current"} \subseteq AskedOf(l)
              /\ l \in ColourLights => "colour" \in AskedOf(l)
            BY DEF AskedOf, Kinds
        <3>2. l \in ColourLights => x.colour = ColourRead(y.colour)
            BY <2>1, <3>1 DEF LightSays
        <3> QED
            BY <2>1, <3>1, <3>2 DEF LightSays
    <2>3. /\ L[l].level = x.level /\ L[l].fade = NoFade
          /\ L[l].lampOn = x.lampOn /\ L[l].fadeBit = x.fadeBit
          /\ L[l].lastScene = x.lastScene /\ L[l].sceneCurrent = x.sceneCurrent /\ L[l].colour = x.colour
        BY DEF FileLights, LoadedFrom
    <2> HIDE DEF x, y, c, L
    <2>4. Visible(L[l]) = Visible(y)
        BY <2>2, <2>3, RestShow
    <2>5. Carried(l, y) = [level |-> Visible(y), lampOn |-> y.lampOn, fadeBit |-> y.fadeBit,
                           lastScene |-> y.lastScene, sceneCurrent |-> y.sceneCurrent, colour |-> c]
        BY DEF Carried, Reported, c
    <2>6. Reported(L[l]) = Carried(l, y)
        BY <2>2, <2>3, <2>4, <2>5 DEF Reported
    <2> QED
        BY <2>4, <2>6 DEF y
<1>2. ASSUME NEW g \in Groups, Members[g] \cap dump.busy = {}
      PROVE  GroupAnswer(L, G, g) = GroupAnswer(light, group, g) /\ InSync(L, G, g)
    <2>1. \A m \in Members[g] : m \in Lights \ dump.busy
        BY <1>2, MembersType
    <2>2. \A m \in Members[g] : Visible(L[m]) = Visible(light[m])
        BY <1>1, <2>1
    <2>3. G[g].level = GroupAnswer(light, group, g)
        BY <1>2, FileComplete DEF FileGroups
    <2> HIDE DEF L, G
    <2>4. GroupAnswer(L, G, g) = GroupAnswer(light, group, g)
        BY <2>2, SameAnswer
    <2>5. Members[g] # {} => GroupLevel(L, G, g) = GroupAnswer(L, G, g)
        BY DEF GroupAnswer
    <2>6. Members[g] = {} => GroupLevel(L, G, g) = G[g].level
        BY DEF GroupLevel
    <2> QED
        BY <2>3, <2>4, <2>5, <2>6 DEF InSync
<1> QED
    BY <1>1, <1>2

\* The world loaded from a dump answers for every light and every group that nobody
\* touched during the dump what the running controller answers, but for the colour,
\* which is converted on its way and is lost from a light without type 8, whatever
\* happened to the others between any two questions.
THEOREM UntouchedStaysExact == SnapshotSpec => []UntouchedIsExact
BY SnapshotInvariant, UntouchedExact, PTL

\* However badly a dump of changing lights left a status byte, no step of the
\* loaded world makes a byte wrong that was right, and the first level command that
\* reaches a light puts its byte right.
THEOREM StatusAlwaysRecovers == SnapshotSpec => StatusRecovers
<1>1. SInv /\ [SnapshotNext]_snapshotVars => [Recovers]_snapshotVars
    BY StartDumpStep, AskStep, AskInVainStep, OthersStep, LoadStep DEF SnapshotNext
<1>2. SnapshotSpec => [][Recovers]_snapshotVars
    BY SnapshotInvariant, <1>1, PTL DEF SnapshotSpec
<1> QED
    BY <1>2 DEF StatusRecovers, Recovers

=============================================================================
