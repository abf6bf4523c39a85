---------------------------- MODULE FramingProofs ----------------------------
(***************************************************************************)
(* Taking requests out of a stream of bytes, for any requests, chunks and  *)
(* sizes of frames: a frame that is complete stays the same when more      *)
(* bytes come (SizeStays), so the frames of a stream are those of its      *)
(* first part and then those of what that left with the rest (TakenInTwo). *)
(***************************************************************************)
EXTENDS Framing, SequenceTheorems, Iteration

LEMMA FrontOfConcat ==
    ASSUME NEW S, NEW b \in Seq(S), NEW c \in Seq(S)
    PROVE  /\ b \o c \in Seq(S)
           /\ Len(b \o c) = Len(b) + Len(c) /\ Len(b) \in Nat /\ Len(c) \in Nat
           /\ \A n \in 1 .. Len(b) : (b \o c)[n] = b[n] /\ b[n] \in S
           /\ \A n \in 0 .. Len(b) : SubSeq(b \o c, 1, n) = SubSeq(b, 1, n)
<1>1. /\ b \o c \in Seq(S)
      /\ Len(b \o c) = Len(b) + Len(c) /\ Len(b) \in Nat /\ Len(c) \in Nat
      /\ \A n \in 1 .. Len(b) : (b \o c)[n] = b[n] /\ b[n] \in S
    OBVIOUS
<1>2. ASSUME NEW n \in 0 .. Len(b) PROVE SubSeq(b \o c, 1, n) = SubSeq(b, 1, n)
    <2>1. CASE n = 0
        BY <2>1, SubSeqEmpty
    <2>2. CASE n # 0
        <3>1. 1 \in 1 .. Len(b) /\ n \in 1 .. Len(b)
            BY <1>1, <2>2
        <3> QED
            BY <3>1, SubSeqOfConcat1
    <2> QED
        BY <2>1, <2>2
<1> QED
    BY <1>1, <1>2

-----------------------------------------------------------------------------
(* The size of a frame                                                       *)

Upper(b) == IF Len(b) < ColourMax THEN Len(b) ELSE ColourMax
Valid(b) == {n \in ColourMin .. Upper(b) : Validates(SubSeq(b, 1, n))}

LEMMA ColourSizeIs ==
    ASSUME NEW b \in Seq(Bytes)
    PROVE  /\ Valid(b) \in SUBSET Nat
           /\ Valid(b) # {} => /\ ColourSize(b) \in Valid(b)
                               /\ \A n \in Valid(b) : ColourSize(b) <= n
           /\ Valid(b) = {} => ColourSize(b) = IF Len(b) < ColourMax THEN None ELSE ColourMax
<1>1. Valid(b) \in SUBSET Nat
    BY FramingAssumption DEF Valid, Upper
<1>2. ColourSize(b) = IF Valid(b) # {} THEN CHOOSE n \in Valid(b) : \A k \in Valid(b) : n <= k
                      ELSE IF Len(b) < ColourMax THEN None ELSE ColourMax
    BY DEF ColourSize, Valid, Upper
<1>3. Valid(b) # {} => \E n \in Valid(b) : \A k \in Valid(b) : n <= k
    BY <1>1, LeastNumber
<1> QED
    BY <1>1, <1>2, <1>3

\* A frame is not longer than the bytes there are.
LEMMA SizeFits ==
    ASSUME NEW b \in Seq(Bytes)
    PROVE  /\ request_frame_size(b) \in Nat \cup {None}
           /\ request_frame_size(b) # None => b # <<>> /\ request_frame_size(b) <= Len(b)
<1>0. Len(b) \in Nat /\ \A n \in 1 .. Len(b) : b[n] \in Bytes
    OBVIOUS
<1>1. Len(b) \in Nat /\ \A n \in 1 .. Len(b) : b[n] \in Nat
    <2>1. Bytes \subseteq Nat
        BY FramingAssumption
    <2> QED
        BY <1>0, <2>1
<1>2. /\ ColourSize(b) \in Nat \cup {None}
      /\ ColourSize(b) # None => ColourSize(b) <= Len(b)
    BY <1>1, ColourSizeIs, FramingAssumption DEF Valid, Upper
<1>3. /\ DynamicSize(b) \in Nat \cup {None}
      /\ DynamicSize(b) # None => DynamicSize(b) <= Len(b)
    BY <1>1 DEF DynamicSize
<1>4. CASE b = <<>>
    BY <1>4 DEF request_frame_size
<1>5. CASE b # <<>>
    BY <1>1, <1>2, <1>3, <1>5, FramingAssumption DEF request_frame_size
<1> QED
    BY <1>4, <1>5

LEMMA ColourSizeStays ==
    ASSUME NEW b \in Seq(Bytes), NEW c \in Seq(Bytes), ColourSize(b) # None
    PROVE  ColourSize(b \o c) = ColourSize(b)
<1> DEFINE d == b \o c
<1>1. /\ d \in Seq(Bytes) /\ Len(d) = Len(b) + Len(c) /\ Len(b) \in Nat /\ Len(c) \in Nat
      /\ \A n \in 0 .. Len(b) : SubSeq(d, 1, n) = SubSeq(b, 1, n)
    BY FrontOfConcat
<1>2. /\ Upper(b) \in Nat /\ Upper(d) \in Nat /\ Upper(b) <= Upper(d) /\ Upper(b) <= Len(b)
      /\ Len(b) >= ColourMax => Upper(d) = Upper(b)
      /\ ColourMin \in Nat /\ ColourMax \in Nat
    BY <1>1, FramingAssumption DEF Upper
<1> HIDE DEF d
<1>3. \A n \in 0 .. Upper(b) : n \in Valid(d) <=> n \in Valid(b)
    <2> SUFFICES ASSUME NEW n \in 0 .. Upper(b) PROVE n \in Valid(d) <=> n \in Valid(b)
        OBVIOUS
    <2>1. n \in 0 .. Len(b) /\ (n \in ColourMin .. Upper(d) <=> n \in ColourMin .. Upper(b))
        BY <1>2, <1>1
    <2>2. SubSeq(d, 1, n) = SubSeq(b, 1, n)
        BY <1>1, <2>1
    <2> QED
        BY <2>1, <2>2 DEF Valid
<1>4. CASE Valid(b) # {}
    <2>1. ColourSize(b) \in Valid(b) /\ \A n \in Valid(b) : ColourSize(b) <= n
        BY <1>4, ColourSizeIs
    <2>2. Valid(b) \subseteq 0 .. Upper(b) /\ Valid(d) \subseteq Nat
        BY <1>2 DEF Valid
    <2>3. Valid(d) # {} /\ ColourSize(b) \in Valid(d)
        BY <1>3, <2>1, <2>2
    <2>4. ColourSize(d) \in Valid(d) /\ \A n \in Valid(d) : ColourSize(d) <= n
        BY <1>1, <2>3, ColourSizeIs
    <2>5. ColourSize(d) <= ColourSize(b) /\ ColourSize(d) \in 0 .. Upper(b)
        BY <1>2, <2>1, <2>2, <2>3, <2>4
    <2>6. ColourSize(b) <= ColourSize(d)
        BY <1>3, <2>1, <2>4, <2>5
    <2> QED
        BY <1>2, <2>1, <2>2, <2>5, <2>6 DEF d
<1>5. CASE Valid(b) = {}
    <2>1. Len(b) >= ColourMax /\ ColourSize(b) = ColourMax
        BY <1>1, <1>2, <1>5, ColourSizeIs
    <2>2. Valid(d) = {}
        BY <1>2, <1>3, <1>5, <2>1 DEF Valid
    <2>3. ~(Len(d) < ColourMax)
        BY <1>1, <1>2, <2>1
    <2> QED
        BY <1>1, <2>1, <2>2, <2>3, ColourSizeIs DEF d
<1> QED
    BY <1>4, <1>5

\* A frame that is complete does not change with the bytes that follow it.
LEMMA SizeStays ==
    ASSUME NEW b \in Seq(Bytes), NEW c \in Seq(Bytes), request_frame_size(b) # None
    PROVE  request_frame_size(b \o c) = request_frame_size(b)
<1> DEFINE d == b \o c
<1>1. /\ Len(d) = Len(b) + Len(c) /\ Len(b) \in Nat /\ Len(c) \in Nat
      /\ \A n \in 1 .. Len(b) : d[n] = b[n] /\ b[n] \in Nat
    <2>1. \A n \in 1 .. Len(b) : d[n] = b[n] /\ b[n] \in Bytes
        BY FrontOfConcat
    <2>2. Len(d) = Len(b) + Len(c) /\ Len(b) \in Nat /\ Len(c) \in Nat
        BY FrontOfConcat
    <2> HIDE DEF d
    <2> QED
        BY <2>1, <2>2, FramingAssumption
<1>2. b # <<>> /\ Len(b) >= 1 /\ d # <<>> /\ d[1] = b[1]
    <2>1. b # <<>>
        BY DEF request_frame_size
    <2>2. Len(b) >= 1
        BY <2>1
    <2>3. Len(d) >= 1
        BY <1>1, <2>2
    <2> HIDE DEF d
    <2>4. d # <<>>
        BY <2>3
    <2> QED
        BY <1>1, <2>1, <2>2, <2>4
<1>3. ColourSize(b) # None => ColourSize(d) = ColourSize(b)
    BY ColourSizeStays
<1> HIDE DEF d
<1>4. DynamicSize(b) # None => DynamicSize(d) = DynamicSize(b)
    <2> SUFFICES ASSUME DynamicSize(b) # None PROVE DynamicSize(d) = DynamicSize(b)
        OBVIOUS
    <2>1. ~(Len(b) < 4) /\ ~(Len(b) < 5 + b[4]) /\ DynamicSize(b) = 5 + b[4]
        BY DEF DynamicSize
    <2>2. d[4] = b[4] /\ b[4] \in Nat
        BY <1>1, <2>1
    <2>3. ~(Len(d) < 4) /\ ~(Len(d) < 5 + d[4])
        BY <1>1, <2>1, <2>2
    <2> QED
        BY <2>1, <2>2, <2>3 DEF DynamicSize
<1>5. CASE b[1] # Magic
    BY <1>2, <1>5 DEF request_frame_size, d
<1>6. CASE b[1] = Magic
    <2>1. ~(Len(b) < 3)
        BY <1>2, <1>6 DEF request_frame_size
    <2>2. ~(Len(d) < 3) /\ d[3] = b[3]
        BY <1>1, <2>1
    <2>3. Len(b) >= BasicSize => Len(d) >= BasicSize
        BY <1>1, FramingAssumption
    <2>4. BasicSize \in Nat
        BY FramingAssumption
    <2>5. request_frame_size(d) =
             IF d[3] \in DynamicCommands THEN DynamicSize(d)
             ELSE IF d[3] \in VariableCommands THEN ColourSize(d)
             ELSE IF Len(d) < BasicSize THEN None ELSE BasicSize
        BY <1>2, <1>6, <2>2 DEF request_frame_size
    <2>6. request_frame_size(b) =
             IF b[3] \in DynamicCommands THEN DynamicSize(b)
             ELSE IF b[3] \in VariableCommands THEN ColourSize(b)
             ELSE IF Len(b) < BasicSize THEN None ELSE BasicSize
        BY <1>2, <1>6, <2>1 DEF request_frame_size
    <2> QED
        BY <1>1, <1>3, <1>4, <2>2, <2>3, <2>4, <2>5, <2>6 DEF d
<1> QED
    BY <1>5, <1>6

-----------------------------------------------------------------------------
(* Parts of a sequence                                                       *)

LEMMA Part ==
    ASSUME NEW S, NEW b \in Seq(S), NEW m \in Nat, NEW n \in Nat, m <= n, n <= Len(b)
    PROVE  /\ SubSeq(b, m + 1, n) \in Seq(S)
           /\ Len(SubSeq(b, m + 1, n)) = n - m
           /\ \A j \in 1 .. n - m : SubSeq(b, m + 1, n)[j] = b[m + j]
<1>1. \A j \in m + 1 .. n : b[j] \in S
    BY Len(b) \in Nat
<1>2. /\ SubSeq(b, m + 1, n) \in Seq(S)
      /\ Len(SubSeq(b, m + 1, n)) = IF m + 1 <= n THEN n - (m + 1) + 1 ELSE 0
      /\ \A j \in 1 .. n - (m + 1) + 1 : SubSeq(b, m + 1, n)[j] = b[(m + 1) + j - 1]
    BY <1>1, SubSeqProperties
<1>3. n - (m + 1) + 1 = n - m /\ \A j \in Nat : (m + 1) + j - 1 = m + j
    OBVIOUS
<1> QED
    BY <1>2, <1>3

After(b, n) == SubSeq(b, n + 1, Len(b))

LEMMA AfterIs ==
    ASSUME NEW S, NEW b \in Seq(S), NEW n \in 0 .. Len(b)
    PROVE  /\ After(b, n) \in Seq(S)
           /\ Len(After(b, n)) = Len(b) - n
           /\ \A j \in 1 .. Len(b) - n : After(b, n)[j] = b[n + j]
<1>1. n \in Nat /\ Len(b) \in Nat /\ n <= Len(b) /\ Len(b) <= Len(b)
    OBVIOUS
<1> QED
    BY <1>1, Part DEF After

LEMMA AfterAfter ==
    ASSUME NEW S, NEW b \in Seq(S), NEW n \in 0 .. Len(b), NEW k \in 0 .. Len(b) - n
    PROVE  /\ n + k \in 0 .. Len(b)
           /\ After(After(b, n), k) = After(b, n + k)
           /\ \A m \in k .. Len(b) - n : SubSeq(After(b, n), k + 1, m) = SubSeq(b, n + k + 1, n + m)
<1> DEFINE s == After(b, n)
<1>1. n + k \in 0 .. Len(b) /\ Len(b) \in Nat
    OBVIOUS
<1>2. s \in Seq(S) /\ Len(s) = Len(b) - n /\ \A j \in 1 .. Len(b) - n : s[j] = b[n + j]
    BY AfterIs
<1> HIDE DEF s
<1>3. ASSUME NEW m \in k .. Len(b) - n
      PROVE  SubSeq(s, k + 1, m) = SubSeq(b, n + k + 1, n + m)
    <2> DEFINE t == SubSeq(s, k + 1, m)
               u == SubSeq(b, (n + k) + 1, n + m)
    <2>1. m \in Nat /\ k \in Nat /\ k <= m /\ m <= Len(s)
        BY <1>2
    <2>2. n + k \in Nat /\ n + m \in Nat /\ n + k <= n + m /\ n + m <= Len(b)
        BY <1>2
    <2>3. t \in Seq(S) /\ Len(t) = m - k /\ \A j \in 1 .. m - k : t[j] = s[k + j]
        BY <1>2, <2>1, Part
    <2>4. u \in Seq(S) /\ Len(u) = (n + m) - (n + k)
          /\ \A j \in 1 .. (n + m) - (n + k) : u[j] = b[(n + k) + j]
        BY <2>2, Part
    <2> HIDE DEF t, u
    <2>5. (n + m) - (n + k) = m - k
        BY <2>1
    <2>6. ASSUME NEW j \in 1 .. m - k PROVE t[j] = u[j]
        <3>1. k + j \in 1 .. Len(b) - n /\ n + (k + j) = (n + k) + j
            BY <2>1
        <3> QED
            BY <1>2, <2>3, <2>4, <2>5, <3>1
    <2>7. t = u
        BY <2>3, <2>4, <2>5, <2>6, SeqEqual
    <2> QED
        BY <2>7 DEF t, u
<1>4. After(s, k) = After(b, n + k)
    <2>1. Len(b) - n \in k .. Len(b) - n /\ n + (Len(b) - n) = Len(b)
        BY <1>1
    <2>2. SubSeq(s, k + 1, Len(b) - n) = SubSeq(b, n + k + 1, Len(b))
        BY <1>3, <2>1
    <2> QED
        BY <1>2, <2>2 DEF After
<1> QED
    BY <1>1, <1>3, <1>4 DEF s

LEMMA AfterConcat ==
    ASSUME NEW S, NEW b \in Seq(S), NEW c \in Seq(S), NEW n \in 0 .. Len(b)
    PROVE  After(b \o c, n) = After(b, n) \o c
<1> DEFINE d == b \o c
           t == After(d, n)
           u == After(b, n) \o c
<1>1. d \in Seq(S) /\ Len(d) = Len(b) + Len(c) /\ Len(b) \in Nat /\ Len(c) \in Nat
      /\ \A i \in 1 .. Len(b) + Len(c) : d[i] = IF i <= Len(b) THEN b[i] ELSE c[i - Len(b)]
    BY ConcatProperties
<1> HIDE DEF d
<1>2. n \in 0 .. Len(d)
    BY <1>1
<1>3. t \in Seq(S) /\ Len(t) = Len(d) - n /\ \A j \in 1 .. Len(d) - n : t[j] = d[n + j]
    BY <1>1, <1>2, AfterIs
<1>4. /\ After(b, n) \in Seq(S) /\ Len(After(b, n)) = Len(b) - n
      /\ \A j \in 1 .. Len(b) - n : After(b, n)[j] = b[n + j]
    BY AfterIs
<1>5. /\ u \in Seq(S) /\ Len(u) = (Len(b) - n) + Len(c)
      /\ \A i \in 1 .. (Len(b) - n) + Len(c) :
            u[i] = IF i <= Len(b) - n THEN After(b, n)[i] ELSE c[i - (Len(b) - n)]
    <2> DEFINE v == After(b, n)
    <2>1. v \in Seq(S) /\ Len(v) = Len(b) - n
        BY <1>4
    <2> HIDE DEF v
    <2>2. /\ v \o c \in Seq(S)
          /\ Len(v \o c) = Len(v) + Len(c)
          /\ \A i \in 1 .. Len(v) + Len(c) :
                (v \o c)[i] = IF i <= Len(v) THEN v[i] ELSE c[i - Len(v)]
        BY <2>1, ConcatProperties
    <2> QED
        BY <2>1, <2>2 DEF v
<1> HIDE DEF t, u
<1>6. Len(t) = Len(u) /\ Len(t) = (Len(b) - n) + Len(c)
    BY <1>1, <1>3, <1>5
<1>7. ASSUME NEW i \in 1 .. Len(t) PROVE t[i] = u[i]
    <2>1. i \in 1 .. Len(d) - n /\ n + i \in 1 .. Len(b) + Len(c)
        BY <1>1, <1>3
    <2>2. t[i] = d[n + i]
        BY <1>3, <2>1
    <2>3. CASE i <= Len(b) - n
        <3>1. n + i <= Len(b) /\ i \in 1 .. Len(b) - n
            BY <1>1, <2>1, <2>3
        <3>2. u[i] = After(b, n)[i]
            BY <1>5, <1>6, <2>3
        <3> QED
            BY <1>1, <1>4, <2>1, <2>2, <3>1, <3>2
    <2>4. CASE ~(i <= Len(b) - n)
        <3>1. ~(n + i <= Len(b)) /\ (n + i) - Len(b) = i - (Len(b) - n)
            BY <1>1, <2>1, <2>4
        <3>2. u[i] = c[i - (Len(b) - n)]
            BY <1>5, <1>6, <2>4
        <3> QED
            BY <1>1, <2>1, <2>2, <3>1, <3>2
    <2> QED
        BY <2>3, <2>4
<1>8. t = u
    BY <1>3, <1>5, <1>6, <1>7, SeqEqual
<1> QED
    BY <1>8 DEF d, t, u

-----------------------------------------------------------------------------
(* The loop of extract_request_frame                                         *)

Taken == [frames : Seq(Seq(Bytes)), rest : Seq(Bytes)]

Size(b, n) == request_frame_size(After(b, n))

IsExtraction(f, b) ==
    f = [n \in 0 .. Len(b) |->
            IF Size(b, n) = None THEN [frames |-> <<>>, rest |-> After(b, n)]
            ELSE IF Size(b, n) = 0 THEN f[n + 1]
            ELSE [f[n + Size(b, n)] EXCEPT !.frames = <<SubSeq(b, n + 1, n + Size(b, n))>> \o @]]

Extraction(b) == CHOOSE f : IsExtraction(f, b)

LEMMA SizeAt ==
    ASSUME NEW b \in Seq(Bytes), NEW n \in 0 .. Len(b)
    PROVE  /\ After(b, n) \in Seq(Bytes)
           /\ Size(b, n) \in Nat \cup {None}
           /\ Size(b, n) # None => n + 1 <= Len(b) /\ n + Size(b, n) <= Len(b)
<1>1. /\ After(b, n) \in Seq(Bytes) /\ Len(After(b, n)) = Len(b) - n
      /\ Len(b) \in Nat
    BY AfterIs
<1>2. /\ Size(b, n) \in Nat \cup {None}
      /\ Size(b, n) # None => After(b, n) # <<>> /\ Size(b, n) <= Len(After(b, n))
    BY <1>1, SizeFits DEF Size
<1>3. After(b, n) # <<>> => Len(After(b, n)) # 0
    BY <1>1
<1> QED
    BY <1>1, <1>2, <1>3, FramingAssumption

\* Putting a frame in front of what was taken.
LEMMA FrameInFront ==
    ASSUME NEW v \in Taken, NEW x \in Seq(Bytes)
    PROVE  /\ [v EXCEPT !.frames = <<x>> \o @] \in Taken
           /\ [v EXCEPT !.frames = <<x>> \o @] = [frames |-> <<x>> \o v.frames, rest |-> v.rest]
<1>1. <<x>> \o v.frames \in Seq(Seq(Bytes))
    <2>1. <<x>> \in Seq(Seq(Bytes)) /\ v.frames \in Seq(Seq(Bytes))
        BY DEF Taken
    <2> QED
        BY <2>1, ConcatProperties
<1> DEFINE y == <<x>> \o v.frames
<1>2. [v EXCEPT !.frames = <<x>> \o @] = [v EXCEPT !.frames = y]
    OBVIOUS
<1>3. y \in Seq(Seq(Bytes))
    BY <1>1
<1> HIDE DEF y
<1>4. [v EXCEPT !.frames = y] \in Taken /\ [v EXCEPT !.frames = y] = [frames |-> y, rest |-> v.rest]
    BY <1>3 DEF Taken
<1> QED
    BY <1>2, <1>4 DEF y

LEMMA ExtractionExists ==
    ASSUME NEW b \in Seq(Bytes)
    PROVE  \E f : IsExtraction(f, b)
<1> DEFINE N == Len(b)
           frame(n) == SubSeq(b, n + 1, n + Size(b, n))
           goes == [n \in 0 .. N |-> IF Size(b, n) = None THEN N + 1
                                     ELSE IF Size(b, n) = 0 THEN n + 1
                                     ELSE n + Size(b, n)]
           stops == [n \in 0 .. N |-> [frames |-> <<>>, rest |-> After(b, n)]]
           more(n, v) == IF Size(b, n) = None \/ Size(b, n) = 0 THEN v
                         ELSE [v EXCEPT !.frames = <<frame(n)>> \o @]
           body == [x \in (0 .. N) \X Taken |-> more(x[1], x[2])]
<1>1. N \in Nat
    OBVIOUS
<1>2. goes \in [0 .. N -> Nat] /\ \A n \in 0 .. N : goes[n] > n
    BY <1>1, SizeAt
<1>3. stops \in [0 .. N -> Taken]
    <2>1. ASSUME NEW n \in 0 .. N PROVE [frames |-> <<>>, rest |-> After(b, n)] \in Taken
        <3>1. After(b, n) \in Seq(Bytes) /\ <<>> \in Seq(Seq(Bytes))
            BY SizeAt
        <3> QED
            BY <3>1 DEF Taken
    <2> QED
        BY <2>1
<1>4. ASSUME NEW n \in 0 .. N, NEW v \in Taken PROVE more(n, v) \in Taken
    <2>1. CASE Size(b, n) = None \/ Size(b, n) = 0
        BY <2>1
    <2>2. CASE ~(Size(b, n) = None \/ Size(b, n) = 0)
        <3>1. /\ Size(b, n) \in Nat /\ n \in Nat /\ n + Size(b, n) \in Nat
              /\ n <= n + Size(b, n) /\ n + Size(b, n) <= Len(b)
            BY <2>2, SizeAt
        <3>2. frame(n) \in Seq(Bytes)
            BY <3>1, Part
        <3> HIDE DEF frame
        <3> QED
            BY <2>2, <3>2, FrameInFront
    <2> QED
        BY <2>1, <2>2
<1>5. body \in [(0 .. N) \X Taken -> Taken]
    <2> HIDE DEF more, N
    <2> QED
        BY <1>4
<1>6. PICK f \in [0 .. N -> Taken] : IsLeap(f, N, goes, stops, body)
    <2> HIDE DEF goes, stops, body
    <2> QED
        BY <1>1, <1>2, <1>3, <1>5, LeapExists
<1>7. ASSUME NEW n \in 0 .. N
      PROVE  (IF goes[n] > N THEN stops[n] ELSE body[<<n, f[goes[n]]>>])
                = IF Size(b, n) = None THEN [frames |-> <<>>, rest |-> After(b, n)]
                  ELSE IF Size(b, n) = 0 THEN f[n + 1]
                  ELSE [f[n + Size(b, n)] EXCEPT !.frames = <<frame(n)>> \o @]
    <2>1. ASSUME NEW m \in 0 .. N PROVE body[<<n, f[m]>>] = more(n, f[m])
        <3> HIDE DEF more
        <3>1. <<n, f[m]>> \in (0 .. N) \X Taken
            BY <1>6
        <3> QED
            BY <3>1
    <2>2. CASE Size(b, n) = None
        <3>1. goes[n] > N
            BY <1>1, <2>2
        <3> QED
            BY <2>2, <3>1
    <2>3. CASE Size(b, n) # None
        <3>1. goes[n] \in 0 .. N /\ ~(goes[n] > N)
            BY <1>1, <2>3, SizeAt
        <3>2. goes[n] = IF Size(b, n) = 0 THEN n + 1 ELSE n + Size(b, n)
            BY <2>3
        <3>3. more(n, f[goes[n]]) = IF Size(b, n) = 0 THEN f[goes[n]]
                                    ELSE [f[goes[n]] EXCEPT !.frames = <<frame(n)>> \o @]
            BY <2>3
        <3> HIDE DEF goes, body, more, frame
        <3> QED
            BY <2>1, <2>3, <3>1, <3>2, <3>3
    <2> QED
        BY <2>2, <2>3
<1>8. IsExtraction(f, b)
    <2> HIDE DEF goes, stops, body
    <2>1. f = [n \in 0 .. N |-> IF goes[n] > N THEN stops[n] ELSE body[<<n, f[goes[n]]>>]]
        BY <1>6 DEF IsLeap
    <2> QED
        BY <1>7, <2>1, Zenon DEF IsExtraction
<1> QED
    BY <1>8

LEMMA ExtractedIs ==
    ASSUME NEW b \in Seq(Bytes)
    PROVE  IsExtraction(Extraction(b), b) /\ Extracted(b) = Extraction(b)[0]
<1>1. IsExtraction(Extraction(b), b)
    BY ExtractionExists, Zenon DEF Extraction
<1>2. Extracted(b) = Extraction(b)[0]
    BY Zenon DEF Extracted, Extraction, IsExtraction, Size, After
<1> QED
    BY <1>1, <1>2

\* Position by position.
LEMMA ExtractionAt ==
    ASSUME NEW b \in Seq(Bytes), NEW n \in 0 .. Len(b)
    PROVE  LET f == Extraction(b)
           IN  f[n] = IF Size(b, n) = None THEN [frames |-> <<>>, rest |-> After(b, n)]
                      ELSE IF Size(b, n) = 0 THEN f[n + 1]
                      ELSE [f[n + Size(b, n)] EXCEPT
                               !.frames = <<SubSeq(b, n + 1, n + Size(b, n))>> \o @]
<1> DEFINE f == Extraction(b)
<1>1. IsExtraction(f, b)
    BY ExtractedIs
<1> HIDE DEF f
<1>2. f[n] = IF Size(b, n) = None THEN [frames |-> <<>>, rest |-> After(b, n)]
             ELSE IF Size(b, n) = 0 THEN f[n + 1]
             ELSE [f[n + Size(b, n)] EXCEPT !.frames = <<SubSeq(b, n + 1, n + Size(b, n))>> \o @]
    BY <1>1, Zenon DEF IsExtraction
<1> QED
    BY <1>2 DEF f

LEMMA ExtractionType ==
    ASSUME NEW b \in Seq(Bytes), NEW n \in 0 .. Len(b)
    PROVE  Extraction(b)[n] \in Taken
<1> DEFINE f == Extraction(b)
           N == Len(b)
           T == {k \in 0 .. N : f[N - k] \notin Taken}
<1>0. N \in Nat
    OBVIOUS
<1> HIDE DEF f, N
<1>1. SUFFICES ASSUME T # {} PROVE FALSE
    <2>1. N - n \in 0 .. N /\ N - (N - n) = n
        BY <1>0 DEF N
    <2> QED
        BY <2>1 DEF f
<1>2. PICK k \in T : \A j \in T : k <= j
    <2>1. T \in SUBSET Nat
        BY <1>0
    <2> HIDE DEF T
    <2> QED
        BY <1>1, <2>1, LeastNumber
<1> DEFINE m == N - k
<1>3. /\ m \in 0 .. N /\ f[m] \notin Taken
      /\ \A j \in m + 1 .. N : f[j] \in Taken
    <2>1. m \in 0 .. N /\ f[m] \notin Taken
        BY <1>2, <1>0
    <2>2. ASSUME NEW j \in m + 1 .. N PROVE f[j] \in Taken
        <3>1. N - j \in 0 .. N /\ N - (N - j) = j /\ ~(k <= N - j)
            BY <1>0, <1>2, <2>1
        <3> QED
            BY <1>2, <3>1
    <2> QED
        BY <2>1, <2>2
<1> HIDE DEF m
<1>4. /\ After(b, m) \in Seq(Bytes)
      /\ Size(b, m) \in Nat \cup {None}
      /\ Size(b, m) # None => m + 1 <= N /\ m + Size(b, m) <= N
    BY <1>3, SizeAt DEF N
<1>5. f[m] = IF Size(b, m) = None THEN [frames |-> <<>>, rest |-> After(b, m)]
             ELSE IF Size(b, m) = 0 THEN f[m + 1]
             ELSE [f[m + Size(b, m)] EXCEPT !.frames = <<SubSeq(b, m + 1, m + Size(b, m))>> \o @]
    BY <1>3, ExtractionAt DEF f, N
<1>6. CASE Size(b, m) = None
    <2>1. f[m] = [frames |-> <<>>, rest |-> After(b, m)]
        BY <1>5, <1>6
    <2>2. <<>> \in Seq(Seq(Bytes))
        OBVIOUS
    <2>3. f[m] \in Taken
        BY <1>4, <2>1, <2>2 DEF Taken
    <2> QED
        BY <1>3, <2>3
<1>7. CASE Size(b, m) # None /\ Size(b, m) = 0
    <2>1. m + 1 \in m + 1 .. N
        BY <1>0, <1>3, <1>4, <1>7
    <2> QED
        BY <1>3, <1>5, <1>7, <2>1
<1>8. CASE Size(b, m) # None /\ Size(b, m) # 0
    <2> DEFINE x == SubSeq(b, m + 1, m + Size(b, m))
    <2>1. /\ m + Size(b, m) \in m + 1 .. N /\ m \in Nat /\ m + Size(b, m) \in Nat
          /\ m <= m + Size(b, m) /\ m + Size(b, m) <= Len(b)
        BY <1>0, <1>3, <1>4, <1>8 DEF N
    <2>2. x \in Seq(Bytes)
        BY <2>1, Part
    <2>3. f[m] = [f[m + Size(b, m)] EXCEPT !.frames = <<x>> \o @]
        BY <1>5, <1>8
    <2> HIDE DEF x
    <2>4. f[m + Size(b, m)] \in Taken
        BY <1>3, <2>1
    <2> DEFINE v == f[m + Size(b, m)]
    <2>5. [v EXCEPT !.frames = <<x>> \o @] \in Taken
        <3>1. v \in Taken
            BY <2>4
        <3> HIDE DEF v
        <3> QED
            BY <2>2, <3>1, FrameInFront
    <2>6. f[m] \in Taken
        BY <2>3, <2>5
    <2> QED
        BY <1>3, <2>6
<1> QED
    BY <1>6, <1>7, <1>8

\* Positions are counted from wherever the bytes begin.
LEMMA ExtractionShifts ==
    ASSUME NEW b \in Seq(Bytes), NEW n \in 0 .. Len(b), NEW k0 \in 0 .. Len(b) - n
    PROVE  Extraction(b)[n + k0] = Extraction(After(b, n))[k0]
<1> DEFINE s == After(b, n)
           f == Extraction(b)
           g == Extraction(s)
           N == Len(b) - n
           T == {j \in 0 .. N : f[n + (N - j)] # g[N - j]}
<1>1. s \in Seq(Bytes) /\ Len(s) = N /\ N \in Nat /\ n \in Nat /\ Len(b) = n + N
    BY AfterIs
<1>2. ASSUME NEW k \in 0 .. N
      PROVE  /\ n + k \in 0 .. Len(b)
             /\ After(s, k) = After(b, n + k)
             /\ Size(s, k) = Size(b, n + k)
             /\ \A m \in k .. N : SubSeq(s, k + 1, m) = SubSeq(b, n + k + 1, n + m)
    BY <1>2, AfterAfter DEF Size
<1> HIDE DEF s, f, g, N
<1>3. SUFFICES ASSUME T # {} PROVE FALSE
    <2>1. N - k0 \in 0 .. N /\ N - (N - k0) = k0
        BY <1>1 DEF N
    <2> QED
        BY <2>1 DEF s, f, g
<1>4. PICK j \in T : \A i \in T : j <= i
    <2>1. T \in SUBSET Nat
        BY <1>1
    <2> HIDE DEF T
    <2> QED
        BY <1>3, <2>1, LeastNumber
<1> DEFINE k == N - j
<1>5. k \in 0 .. N /\ f[n + k] # g[k] /\ \A i \in k + 1 .. N : f[n + i] = g[i]
    <2>1. k \in 0 .. N /\ f[n + k] # g[k]
        BY <1>1, <1>4
    <2>2. ASSUME NEW i \in k + 1 .. N PROVE f[n + i] = g[i]
        <3>1. N - i \in 0 .. N /\ N - (N - i) = i /\ ~(j <= N - i)
            BY <1>1, <1>4, <2>1
        <3> QED
            BY <1>4, <3>1
    <2> QED
        BY <2>1, <2>2
<1> HIDE DEF k, T
<1> DEFINE z == Size(b, n + k)
<1>6. /\ n + k \in 0 .. Len(b) /\ After(s, k) = After(b, n + k) /\ Size(s, k) = z
      /\ \A m \in k .. N : SubSeq(s, k + 1, m) = SubSeq(b, n + k + 1, n + m)
    BY <1>2, <1>5
<1>7. /\ z \in Nat \cup {None}
      /\ z # None => k + 1 <= N /\ k + z <= N
    <2>1. /\ Size(b, n + k) \in Nat \cup {None}
          /\ Size(b, n + k) # None => n + k + 1 <= Len(b) /\ n + k + Size(b, n + k) <= Len(b)
        BY <1>6, SizeAt
    <2> HIDE DEF z
    <2> QED
        BY <1>1, <1>5, <2>1 DEF z
<1>8. f[n + k] = IF z = None THEN [frames |-> <<>>, rest |-> After(b, n + k)]
                 ELSE IF z = 0 THEN f[n + k + 1]
                 ELSE [f[n + k + z] EXCEPT !.frames = <<SubSeq(b, n + k + 1, n + k + z)>> \o @]
    BY <1>6, ExtractionAt DEF f
<1>9. g[k] = IF z = None THEN [frames |-> <<>>, rest |-> After(s, k)]
             ELSE IF z = 0 THEN g[k + 1]
             ELSE [g[k + z] EXCEPT !.frames = <<SubSeq(s, k + 1, k + z)>> \o @]
    <2>1. k \in 0 .. Len(s)
        BY <1>1, <1>5
    <2> HIDE DEF z
    <2> QED
        BY <1>1, <1>6, <2>1, ExtractionAt DEF g
<1> HIDE DEF z
<1>10. CASE z = None
    BY <1>5, <1>6, <1>8, <1>9, <1>10
<1>11. CASE z # None /\ z = 0
    <2>1. k + 1 \in k + 1 .. N /\ n + (k + 1) = n + k + 1
        BY <1>1, <1>5, <1>7, <1>11
    <2> QED
        BY <1>5, <1>8, <1>9, <1>11, <2>1
<1>12. CASE z # None /\ z # 0
    <2>1. k + z \in k + 1 .. N /\ k + z \in k .. N /\ n + (k + z) = n + k + z
        BY <1>1, <1>5, <1>7, <1>12
    <2>2. f[n + k + z] = g[k + z]
        BY <1>5, <2>1
    <2>3. SubSeq(s, k + 1, k + z) = SubSeq(b, n + k + 1, n + k + z)
        BY <1>6, <2>1
    <2> QED
        BY <1>5, <1>8, <1>9, <1>12, <2>2, <2>3
<1> QED
    BY <1>10, <1>11, <1>12

\* extract_request_frame once, then on what is left.
LEMMA ExtractedStep ==
    ASSUME NEW b \in Seq(Bytes)
    PROVE  LET z == request_frame_size(b)
           IN  /\ Extracted(b) \in Taken
               /\ z = None => Extracted(b) = [frames |-> <<>>, rest |-> b]
               /\ z = 0 => /\ 1 <= Len(b)
                           /\ Extracted(b) = Extracted(After(b, 1))
               /\ z \notin {None, 0} =>
                     /\ z \in 1 .. Len(b)
                     /\ Extracted(b) = [frames |-> <<SubSeq(b, 1, z)>> \o Extracted(After(b, z)).frames,
                                        rest |-> Extracted(After(b, z)).rest]
<1> DEFINE z == request_frame_size(b)
           f == Extraction(b)
<1>1. After(b, 0) = b /\ Size(b, 0) = z /\ 0 \in 0 .. Len(b) /\ Len(b) \in Nat
    <2>1. After(b, 0) = b
        BY SubSeqFull DEF After
    <2> QED
        BY <2>1 DEF Size
<1>2. /\ Extracted(b) = f[0] /\ f[0] \in Taken
    BY <1>1, ExtractedIs, ExtractionType
<1>3. ASSUME NEW n \in 0 .. Len(b) PROVE f[n] = Extracted(After(b, n)) /\ f[n] \in Taken
    <2>1. 0 \in 0 .. Len(b) - n /\ n + 0 = n
        BY <1>1
    <2>2. f[n] = Extraction(After(b, n))[0]
        BY <2>1, ExtractionShifts
    <2>3. After(b, n) \in Seq(Bytes)
        BY AfterIs
    <2> QED
        BY <2>2, <2>3, ExtractedIs, ExtractionType
<1>4. z \in Nat \cup {None} /\ (z # None => 1 <= Len(b) /\ z <= Len(b))
    <2>1. z \in Nat \cup {None} /\ (z # None => b # <<>> /\ z <= Len(b))
        BY SizeFits
    <2>2. b # <<>> => 1 <= Len(b)
        OBVIOUS
    <2> HIDE DEF z
    <2> QED
        BY <2>1, <2>2
<1>5. f[0] = IF z = None THEN [frames |-> <<>>, rest |-> b]
             ELSE IF z = 0 THEN f[1]
             ELSE [f[z] EXCEPT !.frames = <<SubSeq(b, 1, z)>> \o @]
    <2>1. f[0] = IF Size(b, 0) = None THEN [frames |-> <<>>, rest |-> After(b, 0)]
                 ELSE IF Size(b, 0) = 0 THEN f[0 + 1]
                 ELSE [f[0 + Size(b, 0)] EXCEPT
                          !.frames = <<SubSeq(b, 0 + 1, 0 + Size(b, 0))>> \o @]
        BY <1>1, ExtractionAt
    <2>2. 0 + 1 = 1 /\ (z # None => 0 + z = z)
        BY <1>4
    <2> HIDE DEF z, f
    <2> QED
        BY <1>1, <2>1, <2>2
<1> HIDE DEF z, f
<1>6. z = 0 => 1 <= Len(b) /\ Extracted(b) = Extracted(After(b, 1))
    <2> SUFFICES ASSUME z = 0 PROVE 1 <= Len(b) /\ Extracted(b) = Extracted(After(b, 1))
        OBVIOUS
    <2>1. z # None
        BY FramingAssumption
    <2>2. 1 <= Len(b) /\ 1 \in 0 .. Len(b)
        BY <1>1, <1>4, <2>1
    <2> QED
        BY <1>2, <1>3, <1>5, <2>1, <2>2
<1>7. z \notin {None, 0} =>
         /\ z \in 1 .. Len(b)
         /\ Extracted(b) = [frames |-> <<SubSeq(b, 1, z)>> \o Extracted(After(b, z)).frames,
                            rest |-> Extracted(After(b, z)).rest]
    <2> SUFFICES ASSUME z \notin {None, 0}
                 PROVE  /\ z \in 1 .. Len(b)
                        /\ Extracted(b) = [frames |-> <<SubSeq(b, 1, z)>> \o Extracted(After(b, z)).frames,
                                           rest |-> Extracted(After(b, z)).rest]
        OBVIOUS
    <2>1. z \in 1 .. Len(b) /\ z \in 0 .. Len(b) /\ z \in Nat /\ 0 \in Nat /\ 0 <= z /\ z <= Len(b)
        BY <1>1, <1>4
    <2> DEFINE x == SubSeq(b, 1, z)
               v == Extracted(After(b, z))
    <2>2. f[z] = v /\ v \in Taken
        BY <1>3, <2>1
    <2>3. x \in Seq(Bytes)
        <3>1. SubSeq(b, 0 + 1, z) \in Seq(Bytes) /\ 0 + 1 = 1
            BY <2>1, Part
        <3> QED
            BY <3>1
    <2>4. f[0] = [v EXCEPT !.frames = <<x>> \o @]
        BY <1>5, <2>2
    <2> HIDE DEF x, v
    <2>5. f[0] = [frames |-> <<x>> \o v.frames, rest |-> v.rest]
        BY <2>2, <2>3, <2>4, FrameInFront
    <2> QED
        BY <1>2, <2>1, <2>5 DEF x, v
<1> QED
    BY <1>2, <1>5, <1>6, <1>7 DEF z

LEMMA ShortestSequence ==
    ASSUME NEW S, NEW T \in SUBSET Seq(S), T # {}
    PROVE  \E t \in T : \A u \in Seq(S) : Len(u) < Len(t) => u \notin T
<1> DEFINE L == {Len(t) : t \in T}
<1>1. L \in SUBSET Nat /\ L # {}
    <2>1. \A t \in T : Len(t) \in Nat
        OBVIOUS
    <2>2. \E t \in T : Len(t) \in L
        OBVIOUS
    <2> QED
        BY <2>1, <2>2
<1> HIDE DEF L
<1>2. PICK n \in L : \A k \in L : n <= k
    BY <1>1, LeastNumber
<1>3. PICK t \in T : Len(t) = n
    BY <1>2 DEF L
<1>4. ASSUME NEW u \in Seq(S), Len(u) < Len(t), u \in T PROVE FALSE
    <2>1. Len(u) \in L /\ Len(u) \in Nat /\ Len(t) \in Nat
        BY <1>3, <1>4 DEF L
    <2>2. n <= Len(u)
        BY <1>2, <2>1
    <2> QED
        BY <1>3, <1>4, <2>1, <2>2
<1> QED
    BY <1>3, <1>4

-----------------------------------------------------------------------------
(* Two chunks                                                                *)

\* What is taken from b and, with more bytes behind what b left, after it.
InTwo(b, c) ==
    LET first == Extracted(b)
        second == Extracted(first.rest \o c)
    IN  [frames |-> first.frames \o second.frames, rest |-> second.rest]

LEMMA TakenInTwo ==
    ASSUME NEW b0 \in Seq(Bytes), NEW c \in Seq(Bytes)
    PROVE  Extracted(b0 \o c) = InTwo(b0, c)
<1> DEFINE T == {b \in Seq(Bytes) : Extracted(b \o c) # InTwo(b, c)}
<1> SUFFICES ASSUME T # {} PROVE FALSE
    BY DEF T
<1>1. PICK b \in T : \A u \in Seq(Bytes) : Len(u) < Len(b) => u \notin T
    <2>1. T \in SUBSET Seq(Bytes)
        OBVIOUS
    <2> HIDE DEF T
    <2> QED
        BY <2>1, ShortestSequence
<1> DEFINE z == request_frame_size(b)
           d == b \o c
<1>2. b \in Seq(Bytes) /\ d \in Seq(Bytes) /\ Len(b) \in Nat
    <2>1. b \in Seq(Bytes)
        BY <1>1
    <2> QED
        BY <2>1, FrontOfConcat
<1>3. ASSUME NEW n \in 1 .. Len(b)
      PROVE  /\ After(b, n) \in Seq(Bytes)
             /\ After(d, n) = After(b, n) \o c
             /\ Extracted(After(d, n)) = InTwo(After(b, n), c)
    <2>1. n \in 0 .. Len(b) /\ Len(b) - n < Len(b)
        BY <1>2
    <2>2. /\ After(b, n) \in Seq(Bytes) /\ Len(After(b, n)) = Len(b) - n
          /\ After(d, n) = After(b, n) \o c
        BY <1>2, <2>1, AfterIs, AfterConcat
    <2>3. After(b, n) \notin T
        BY <1>1, <2>1, <2>2
    <2> QED
        BY <2>2, <2>3
<1>4. b \in Seq(Bytes) /\ Extracted(d) # InTwo(b, c)
    BY <1>1
<1> HIDE DEF T
<1>5. CASE z = None
    <2>1. Extracted(b) = [frames |-> <<>>, rest |-> b]
        BY <1>2, <1>5, ExtractedStep
    <2>2. Extracted(d) \in Taken
        BY <1>2, ExtractedStep
    <2>3. <<>> \o Extracted(d).frames = Extracted(d).frames
        <3>1. Extracted(d).frames \in Seq(Seq(Bytes))
            BY <2>2 DEF Taken
        <3> QED
            BY <3>1, ConcatEmptySeq
    <2>4. InTwo(b, c) = [frames |-> <<>> \o Extracted(d).frames, rest |-> Extracted(d).rest]
        BY <2>1 DEF InTwo
    <2> QED
        BY <1>4, <2>2, <2>3, <2>4 DEF Taken
<1>6. CASE z # None /\ z = 0
    <2>1. 1 \in 1 .. Len(b) /\ Extracted(b) = Extracted(After(b, 1))
        <3>1. 1 <= Len(b) /\ Extracted(b) = Extracted(After(b, 1))
            BY <1>2, <1>6, ExtractedStep
        <3> HIDE DEF z, d
        <3> QED
            BY <1>2, <3>1
    <2>2. request_frame_size(d) = 0
        BY <1>2, <1>6, SizeStays
    <2>3. Extracted(d) = Extracted(After(d, 1))
        BY <1>2, <2>2, ExtractedStep
    <2>4. InTwo(b, c) = InTwo(After(b, 1), c)
        BY <2>1 DEF InTwo
    <2> QED
        BY <1>3, <1>4, <2>1, <2>3, <2>4
<1>7. CASE z # None /\ z # 0
    <2> DEFINE x == SubSeq(b, 1, z)
               a == After(b, z)
               more == Extracted(Extracted(a).rest \o c)
    <2>1. /\ z \in 1 .. Len(b)
          /\ Extracted(b) = [frames |-> <<x>> \o Extracted(a).frames, rest |-> Extracted(a).rest]
        BY <1>2, <1>7, ExtractedStep
    <2>2. request_frame_size(d) = z
        BY <1>2, <1>7, SizeStays
    <2>3. SubSeq(d, 1, z) = x
        <3>1. z \in 0 .. Len(b)
            BY <2>1
        <3> QED
            BY <1>2, <3>1, FrontOfConcat
    <2>4. Extracted(d) = [frames |-> <<x>> \o Extracted(After(d, z)).frames,
                          rest |-> Extracted(After(d, z)).rest]
        BY <1>2, <1>7, <2>2, <2>3, ExtractedStep
    <2>5. a \in Seq(Bytes) /\ Extracted(After(d, z)) = InTwo(a, c)
        BY <1>3, <2>1
    <2>6. Extracted(a) \in Taken
        BY <2>5, ExtractedStep
    <2>7. more \in Taken
        <3>1. Extracted(a).rest \in Seq(Bytes)
            BY <2>6 DEF Taken
        <3>2. Extracted(a).rest \o c \in Seq(Bytes)
            BY <3>1, ConcatProperties
        <3> QED
            BY <3>2, ExtractedStep
    <2>8. x \in Seq(Bytes)
        <3>1. 0 \in Nat /\ z \in Nat /\ 0 <= z /\ z <= Len(b) /\ 0 + 1 = 1
            BY <2>1
        <3> QED
            BY <1>2, <3>1, Part
    <2> HIDE DEF x, a, z, d
    <2>9. InTwo(a, c) = [frames |-> Extracted(a).frames \o more.frames, rest |-> more.rest]
        BY DEF InTwo
    <2>10. InTwo(b, c) = [frames |-> (<<x>> \o Extracted(a).frames) \o more.frames,
                          rest |-> more.rest]
        BY <2>1 DEF InTwo
    <2> HIDE DEF more
    <2>11. Extracted(d) = [frames |-> <<x>> \o (Extracted(a).frames \o more.frames),
                           rest |-> more.rest]
        BY <2>4, <2>5, <2>9
    <2>12. <<x>> \o (Extracted(a).frames \o more.frames)
             = (<<x>> \o Extracted(a).frames) \o more.frames
        <3>1. /\ <<x>> \in Seq(Seq(Bytes)) /\ Extracted(a).frames \in Seq(Seq(Bytes))
              /\ more.frames \in Seq(Seq(Bytes))
            BY <2>6, <2>7, <2>8 DEF Taken
        <3>2. \A s, t, u \in Seq(Seq(Bytes)) : (s \o t) \o u = s \o (t \o u)
            BY ConcatAssociative
        <3> QED
            BY <3>1, <3>2, Zenon
    <2> QED
        BY <1>4, <2>10, <2>11, <2>12 DEF d
<1> QED
    BY <1>5, <1>6, <1>7

-----------------------------------------------------------------------------
(* What a frame is                                                           *)

IsAnswered(f) == Parsed(f) = IF Validates(f) THEN "request" ELSE "checksum"

\* parse_request has no other objection to a frame of the size that
\* request_frame_size gave it.
LEMMA FrameIsAnswered ==
    ASSUME NEW b \in Seq(Bytes), request_frame_size(b) \notin {None, 0}
    PROVE  IsAnswered(SubSeq(b, 1, request_frame_size(b)))
<1> DEFINE z == request_frame_size(b)
           x == SubSeq(b, 1, z)
<1>1. z \in Nat /\ b # <<>> /\ z <= Len(b) /\ Len(b) \in Nat
    BY SizeFits
<1>2. x \in Seq(Bytes) /\ Len(x) = z /\ \A j \in 1 .. z : x[j] = b[j]
    <2>1. 0 \in Nat /\ 0 <= z /\ 0 + 1 = 1 /\ z - 0 = z /\ \A j \in Nat : 0 + j = j
        BY <1>1
    <2> HIDE DEF z
    <2> QED
        BY <1>1, <2>1, Part
<1>3. /\ b[1] = Magic /\ ~(Len(b) < 3)
      /\ z = IF b[3] \in DynamicCommands THEN DynamicSize(b)
             ELSE IF b[3] \in VariableCommands THEN ColourSize(b)
             ELSE IF Len(b) < BasicSize THEN None ELSE BasicSize
    BY <1>1 DEF request_frame_size
<1>4. \A j \in 1 .. Len(b) : b[j] \in Nat
    <2>1. \A j \in 1 .. Len(b) : b[j] \in Bytes
        OBVIOUS
    <2> QED
        BY <2>1, FramingAssumption
<1>5. ColourSize(b) \in {None} \cup {n \in Nat : n >= ColourMin}
    <2>1. ColourSize(b) \in Valid(b) \cup {None, ColourMax}
        BY ColourSizeIs
    <2>2. \A n \in Valid(b) : n \in Nat /\ n >= ColourMin
        BY <1>1, FramingAssumption DEF Valid, Upper
    <2> QED
        BY <2>1, <2>2, FramingAssumption
<1>6. z # None /\ z # 0
    OBVIOUS
<1>7. CASE b[3] \in DynamicCommands
    <2>1. DynamicSize(b) = 5 + b[4] /\ ~(Len(b) < 4)
        BY <1>3, <1>6, <1>7 DEF DynamicSize
    <2>2. b[4] \in Nat /\ z = 5 + b[4] /\ z >= 5
        BY <1>1, <1>3, <1>4, <1>7, <2>1
    <2> HIDE DEF z, x
    <2>3. x[1] = Magic /\ x[3] \in DynamicCommands /\ x[4] = b[4]
        BY <1>2, <1>3, <1>7, <2>2
    <2> QED
        BY <1>2, <2>2, <2>3 DEF Parsed, IsAnswered, z, x
<1>8. CASE b[3] \notin DynamicCommands /\ b[3] \in VariableCommands
    <2>1. z = ColourSize(b)
        BY <1>3, <1>8
    <2> HIDE DEF z, x
    <2>2. z >= 6
        BY <1>5, <1>6, <2>1, FramingAssumption
    <2>3. x[1] = Magic /\ x[3] = b[3]
        BY <1>1, <1>2, <1>3, <2>2
    <2> QED
        BY <1>1, <1>2, <1>8, <2>2, <2>3 DEF Parsed, IsAnswered, z, x
<1>9. CASE b[3] \notin DynamicCommands /\ b[3] \notin VariableCommands
    <2>1. z = BasicSize
        BY <1>3, <1>6, <1>9
    <2> HIDE DEF z, x
    <2>2. z >= 5
        BY <2>1, FramingAssumption
    <2>3. x[1] = Magic /\ x[3] = b[3]
        BY <1>1, <1>2, <1>3, <2>2
    <2> QED
        BY <1>1, <1>2, <1>9, <2>1, <2>2, <2>3 DEF Parsed, IsAnswered, z, x
<1> QED
    BY <1>7, <1>8, <1>9

LEMMA FramesAreAnswered ==
    ASSUME NEW b0 \in Seq(Bytes)
    PROVE  \A i \in DOMAIN Extracted(b0).frames : IsAnswered(Extracted(b0).frames[i])
<1> DEFINE AllAnswered(s) == \A i \in DOMAIN s : IsAnswered(s[i])
           T == {b \in Seq(Bytes) : ~AllAnswered(Extracted(b).frames)}
<1> SUFFICES ASSUME T # {} PROVE FALSE
    OBVIOUS
<1>1. PICK b \in T : \A u \in Seq(Bytes) : Len(u) < Len(b) => u \notin T
    <2>1. T \in SUBSET Seq(Bytes)
        OBVIOUS
    <2> HIDE DEF T
    <2> QED
        BY <2>1, ShortestSequence
<1> DEFINE z == request_frame_size(b)
<1>2. b \in Seq(Bytes) /\ ~AllAnswered(Extracted(b).frames) /\ Len(b) \in Nat
    BY <1>1
<1>3. ASSUME NEW n \in 1 .. Len(b)
      PROVE  After(b, n) \in Seq(Bytes) /\ AllAnswered(Extracted(After(b, n)).frames)
    <2>1. n \in 0 .. Len(b) /\ Len(b) - n < Len(b)
        BY <1>2
    <2>2. After(b, n) \in Seq(Bytes) /\ Len(After(b, n)) = Len(b) - n
        BY <1>2, <2>1, AfterIs
    <2>3. After(b, n) \notin T
        BY <1>1, <2>1, <2>2
    <2> QED
        BY <2>2, <2>3
<1> HIDE DEF T
<1>4. CASE z = None
    <2>1. Extracted(b) = [frames |-> <<>>, rest |-> b]
        BY <1>2, <1>4, ExtractedStep
    <2> QED
        BY <1>2, <2>1
<1>5. CASE z # None /\ z = 0
    <2>1. 1 <= Len(b) /\ Extracted(b) = Extracted(After(b, 1))
        BY <1>2, <1>5, ExtractedStep
    <2>2. 1 \in 1 .. Len(b)
        BY <1>2, <2>1
    <2> HIDE DEF AllAnswered
    <2> QED
        BY <1>2, <1>3, <2>1, <2>2
<1>6. CASE z # None /\ z # 0
    <2> DEFINE x == SubSeq(b, 1, z)
               more == Extracted(After(b, z)).frames
    <2>1. z \in 1 .. Len(b) /\ Extracted(b).frames = <<x>> \o more
        BY <1>2, <1>6, ExtractedStep
    <2>2. IsAnswered(x)
        BY <1>2, <1>6, FrameIsAnswered
    <2>3. AllAnswered(more) /\ more \in Seq(Seq(Bytes))
        <3>1. After(b, z) \in Seq(Bytes) /\ AllAnswered(more)
            BY <1>3, <2>1
        <3>2. Extracted(After(b, z)) \in Taken
            BY <3>1, ExtractedStep
        <3> QED
            BY <3>1, <3>2 DEF Taken
    <2> HIDE DEF x, more
    <2>4. AllAnswered(<<x>> \o more)
        <3> SUFFICES ASSUME NEW i \in DOMAIN (<<x>> \o more) PROVE IsAnswered((<<x>> \o more)[i])
            OBVIOUS
        <3>1. i = 1 \/ (i # 1 /\ i - 1 \in DOMAIN more)
            BY <2>3
        <3>2. i = 1 => (<<x>> \o more)[i] = x
            BY <2>3
        <3>3. i # 1 => (<<x>> \o more)[i] = more[i - 1]
            BY <2>3
        <3> QED
            BY <2>2, <2>3, <3>1, <3>2, <3>3
    <2> QED
        BY <1>2, <2>1, <2>4
<1> QED
    BY <1>4, <1>5, <1>6

-----------------------------------------------------------------------------
(* What the session takes                                                    *)

Inv ==
    /\ stream \in Seq(Bytes)
    /\ got \in 0 .. Len(stream)
    /\ buf \in Seq(Bytes)
    /\ frames \in Seq(Seq(Bytes))
    /\ ChunksIrrelevant

LEMMA NothingTaken == Extracted(<<>>) = [frames |-> <<>>, rest |-> <<>>]
<1>1. <<>> \in Seq(Bytes) /\ request_frame_size(<<>>) = None
    BY DEF request_frame_size
<1> QED
    BY <1>1, ExtractedStep

LEMMA InvInit == Init => Inv
<1> SUFFICES ASSUME Init PROVE Inv
    OBVIOUS
<1>1. SubSeq(stream, 1, got) = <<>>
    BY SubSeqEmpty DEF Init
<1>2. /\ stream \in Seq(Bytes) /\ got \in 0 .. Len(stream) /\ buf \in Seq(Bytes)
      /\ frames \in Seq(Seq(Bytes)) /\ frames = <<>> /\ buf = <<>>
    BY DEF Init
<1> QED
    BY <1>1, <1>2, NothingTaken DEF Inv, ChunksIrrelevant

LEMMA InvWrite ==
    ASSUME Inv, NEW item \in Items, Write(item)
    PROVE  Inv'
<1>1. item \in Seq(Bytes)
    BY FramingAssumption
<1>2. /\ stream' = stream \o item /\ got' = got /\ buf' = buf /\ frames' = frames
      /\ stream \in Seq(Bytes) /\ got \in 0 .. Len(stream)
    BY DEF Write, Inv
<1>3. /\ stream' \in Seq(Bytes) /\ Len(stream') = Len(stream) + Len(item)
      /\ Len(stream) \in Nat /\ Len(item) \in Nat
      /\ SubSeq(stream', 1, got) = SubSeq(stream, 1, got)
    BY <1>1, <1>2, FrontOfConcat
<1>4. got' \in 0 .. Len(stream')
    BY <1>2, <1>3
<1>5. ChunksIrrelevant'
    BY <1>2, <1>3 DEF Inv, ChunksIrrelevant
<1> QED
    BY <1>2, <1>3, <1>4, <1>5 DEF Inv

\* Reading more takes what comes after what was taken (TakenInTwo).
LEMMA InvRead ==
    ASSUME Inv, NEW n \in 1 .. Len(stream), Read(n)
    PROVE  Inv'
<1> DEFINE front == SubSeq(stream, 1, got)
           chunk == SubSeq(stream, got + 1, got + n)
           now == Extracted(buf \o chunk)
<1>1. /\ stream \in Seq(Bytes) /\ got \in Nat /\ n \in Nat /\ Len(stream) \in Nat
      /\ got + n <= Len(stream) /\ got <= got + n /\ got <= Len(stream)
      /\ buf \in Seq(Bytes) /\ frames \in Seq(Seq(Bytes))
    BY DEF Inv, Read
<1>2. /\ got' = got + n /\ buf' = now.rest /\ frames' = frames \o now.frames
      /\ stream' = stream
    BY DEF Read
<1>3. chunk \in Seq(Bytes)
    BY <1>1, Part
<1>4. front \in Seq(Bytes)
    <2>1. 0 \in Nat /\ 0 <= got /\ 0 + 1 = 1
        BY <1>1
    <2> QED
        BY <1>1, <2>1, Part
<1>5. SubSeq(stream', 1, got') = front \o chunk
    <2>1. /\ 1 \in 1 .. Len(stream) + 1 /\ got \in 1 - 1 .. Len(stream)
          /\ got + n \in got .. Len(stream)
        BY <1>1
    <2> QED
        BY <1>1, <1>2, <2>1, ConcatAdjacentSubSeq
<1>6. Extracted(front) = [frames |-> frames, rest |-> buf]
    BY DEF Inv, ChunksIrrelevant
<1>7. Extracted(front \o chunk) = [frames |-> frames \o now.frames, rest |-> now.rest]
    <2>1. Extracted(front \o chunk) = InTwo(front, chunk)
        BY <1>3, <1>4, TakenInTwo
    <2> HIDE DEF front, chunk
    <2>2. Extracted(front).rest = buf /\ Extracted(front).frames = frames
        BY <1>6
    <2> QED
        BY <2>1, <2>2 DEF InTwo
<1>8. now \in Taken
    <2>1. buf \o chunk \in Seq(Bytes)
        BY <1>1, <1>3, FrontOfConcat
    <2> QED
        BY <2>1, ExtractedStep
<1> HIDE DEF front, chunk, now
<1>9. buf' \in Seq(Bytes) /\ frames' \in Seq(Seq(Bytes))
    <2>1. now.rest \in Seq(Bytes) /\ now.frames \in Seq(Seq(Bytes))
        BY <1>8 DEF Taken
    <2> QED
        BY <1>1, <1>2, <2>1, FrontOfConcat
<1>10. got' \in 0 .. Len(stream')
    BY <1>1, <1>2
<1>11. ChunksIrrelevant'
    BY <1>2, <1>5, <1>7 DEF ChunksIrrelevant
<1> QED
    BY <1>1, <1>2, <1>9, <1>10, <1>11 DEF Inv

LEMMA InvNext == Inv /\ [Next]_vars => Inv'
<1> SUFFICES ASSUME Inv, [Next]_vars PROVE Inv'
    OBVIOUS
<1>1. CASE UNCHANGED vars
    BY <1>1 DEF Inv, ChunksIrrelevant, vars
<1> QED
    BY <1>1, InvWrite, InvRead DEF Next

LEMMA InvAlways == Spec => []Inv
    BY InvInit, InvNext, PTL DEF Spec

\* However the bytes of a stream are cut into chunks, the frames taken and the bytes
\* kept are those of everything read so far, read at once: request_frame_size never
\* says of a part what it does not say of the whole.
THEOREM ChunksDoNotMatter == Spec => []ChunksIrrelevant
<1>1. Inv => ChunksIrrelevant
    BY DEF Inv
<1> QED
    BY InvAlways, <1>1, PTL

\* Every frame that a session takes is one that parse_request accepts, or refuses for
\* its checksum and answers so: no frame is dropped without an answer.
THEOREM EveryFrameIsAnswered == Spec => []Answered
<1>1. Inv => Answered
    <2> SUFFICES ASSUME Inv PROVE Answered
        OBVIOUS
    <2> DEFINE b == SubSeq(stream, 1, got)
    <2>1. b \in Seq(Bytes)
        <3>1. /\ stream \in Seq(Bytes) /\ 0 \in Nat /\ got \in Nat /\ 0 <= got
              /\ got <= Len(stream) /\ 0 + 1 = 1
            BY DEF Inv
        <3> QED
            BY <3>1, Part
    <2>2. Extracted(b).frames = frames
        BY DEF Inv, ChunksIrrelevant
    <2> HIDE DEF b
    <2> QED
        BY <2>1, <2>2, FramesAreAnswered DEF Answered, IsAnswered
<1>2. Spec => []Inv
    BY InvAlways
<1> QED
    BY <1>1, <1>2, PTL

-----------------------------------------------------------------------------
(* Streams of whole requests and noise                                       *)

LEMMA RequestIsTaken ==
    ASSUME NEW r \in Items, request_frame_size(r) = Len(r)
    PROVE  r[1] = Magic /\ Extracted(r) = [frames |-> <<r>>, rest |-> <<>>]
<1>1. r \in Seq(Bytes) /\ r # <<>>
    BY FramingAssumption
<1>2. Len(r) \in Nat /\ Len(r) # 0
    BY <1>1
<1>3. Len(r) \notin {None, 0}
    BY <1>2, FramingAssumption
<1>4. Extracted(r) = [frames |-> <<SubSeq(r, 1, Len(r))>> \o Extracted(After(r, Len(r))).frames,
                      rest |-> Extracted(After(r, Len(r))).rest]
    BY <1>1, <1>3, ExtractedStep
<1>5. SubSeq(r, 1, Len(r)) = r /\ After(r, Len(r)) = <<>>
    <2>1. Len(r) + 1 > Len(r)
        BY <1>2
    <2> QED
        BY <1>1, <1>2, <2>1, SubSeqFull, SubSeqEmpty DEF After
<1>6. <<r>> \o <<>> = <<r>>
    <2>1. <<r>> \in Seq(Seq(Bytes))
        BY <1>1
    <2> QED
        BY <2>1, ConcatEmptySeq
<1>7. r[1] = Magic
    BY <1>1, <1>3 DEF request_frame_size
<1>8. Extracted(After(r, Len(r))).frames = <<>> /\ Extracted(After(r, Len(r))).rest = <<>>
    BY <1>5, NothingTaken
<1> QED
    BY <1>4, <1>5, <1>6, <1>7, <1>8

LEMMA NoiseIsDropped ==
    ASSUME NEW r0 \in Seq(Bytes), \A n \in DOMAIN r0 : r0[n] # Magic
    PROVE  Extracted(r0) = [frames |-> <<>>, rest |-> <<>>]
<1> DEFINE Quiet(r) == \A n \in DOMAIN r : r[n] # Magic
           T == {r \in Seq(Bytes) : Quiet(r) /\ Extracted(r) # [frames |-> <<>>, rest |-> <<>>]}
<1> SUFFICES ASSUME T # {} PROVE FALSE
    OBVIOUS
<1>1. PICK r \in T : \A u \in Seq(Bytes) : Len(u) < Len(r) => u \notin T
    <2>1. T \in SUBSET Seq(Bytes)
        OBVIOUS
    <2> HIDE DEF T
    <2> QED
        BY <2>1, ShortestSequence
<1>2. r \in Seq(Bytes) /\ Len(r) \in Nat /\ DOMAIN r = 1 .. Len(r)
    BY <1>1
<1>3. r # <<>>
    BY <1>1, NothingTaken
<1>4. 1 \in 1 .. Len(r)
    BY <1>2, <1>3
<1>5. r[1] # Magic
    BY <1>1, <1>2, <1>4
<1>6. request_frame_size(r) = 0
    BY <1>3, <1>5 DEF request_frame_size
<1>7. Extracted(r) = Extracted(After(r, 1))
    BY <1>2, <1>6, ExtractedStep
<1>8. /\ After(r, 1) \in Seq(Bytes) /\ Len(After(r, 1)) = Len(r) - 1
      /\ \A j \in 1 .. Len(r) - 1 : After(r, 1)[j] = r[1 + j]
    <2>1. 1 \in 0 .. Len(r)
        BY <1>2, <1>4
    <2> QED
        BY <1>2, <2>1, AfterIs
<1>9. Quiet(After(r, 1))
    <2> DEFINE s == After(r, 1)
    <2>1. s \in Seq(Bytes) /\ Len(s) = Len(r) - 1 /\ \A j \in 1 .. Len(r) - 1 : s[j] = r[1 + j]
        BY <1>8
    <2> HIDE DEF s
    <2>2. DOMAIN s = 1 .. Len(r) - 1
        BY <2>1
    <2>3. ASSUME NEW n \in 1 .. Len(r) - 1 PROVE s[n] # Magic
        <3>1. 1 + n \in DOMAIN r
            BY <1>2
        <3> QED
            BY <1>1, <2>1, <3>1
    <2> QED
        BY <2>2, <2>3 DEF s
<1>10. After(r, 1) \notin T
    <2>1. Len(After(r, 1)) < Len(r)
        BY <1>2, <1>8
    <2> QED
        BY <1>1, <1>8, <2>1
<1> QED
    BY <1>1, <1>7, <1>8, <1>9, <1>10

\* Read at once, the stream is the requests.
WrittenIsTaken == Extracted(stream) = [frames |-> requests, rest |-> <<>>]

PlainInv == Inv /\ requests \in Seq(Seq(Bytes)) /\ WrittenIsTaken

LEMMA PlainWrite ==
    ASSUME Plain(Items), PlainInv, NEW item \in Items, Write(item)
    PROVE  (requests \in Seq(Seq(Bytes)) /\ WrittenIsTaken)'
<1>1. item \in Seq(Bytes) /\ item # <<>> /\ stream \in Seq(Bytes) /\ requests \in Seq(Seq(Bytes))
    BY FramingAssumption DEF PlainInv, Inv
<1>2. <<>> \o item = item
    BY <1>1, ConcatEmptySeq
<1>3. Extracted(stream') = [frames |-> requests \o Extracted(item).frames,
                            rest |-> Extracted(item).rest]
    <2>1. stream' = stream \o item
        BY DEF Write
    <2>2. Extracted(stream') = InTwo(stream, item)
        BY <1>1, <2>1, TakenInTwo
    <2>3. Extracted(stream).rest = <<>> /\ Extracted(stream).frames = requests
        BY DEF PlainInv, WrittenIsTaken
    <2> QED
        BY <1>2, <2>2, <2>3 DEF InTwo
<1>4. CASE request_frame_size(item) = Len(item)
    <2>1. item[1] = Magic /\ Extracted(item) = [frames |-> <<item>>, rest |-> <<>>]
        BY <1>4, RequestIsTaken
    <2>2. requests' = Append(requests, item)
        BY <2>1 DEF Write
    <2>3. Append(requests, item) = requests \o <<item>> /\ requests' \in Seq(Seq(Bytes))
        BY <1>1, <2>2, AppendIsConcat, AppendProperties
    <2> QED
        BY <1>3, <2>1, <2>2, <2>3 DEF WrittenIsTaken
<1>5. CASE \A n \in DOMAIN item : item[n] # Magic
    <2>1. item[1] # Magic
        BY <1>1, <1>5
    <2>2. requests' = requests
        BY <2>1 DEF Write
    <2>3. Extracted(item) = [frames |-> <<>>, rest |-> <<>>]
        BY <1>1, <1>5, NoiseIsDropped
    <2>4. requests \o <<>> = requests
        BY <1>1, ConcatEmptySeq
    <2> QED
        BY <1>1, <1>3, <2>2, <2>3, <2>4 DEF WrittenIsTaken
<1> QED
    BY <1>4, <1>5 DEF Plain

LEMMA PlainTaken == PlainInv => RequestsTaken
<1> SUFFICES ASSUME PlainInv PROVE RequestsTaken
    OBVIOUS
<1> DEFINE front == SubSeq(stream, 1, got)
           behind == After(stream, got)
           more == Extracted(buf \o behind)
<1>1. /\ stream \in Seq(Bytes) /\ got \in 0 .. Len(stream) /\ Len(stream) \in Nat
      /\ frames \in Seq(Seq(Bytes)) /\ buf \in Seq(Bytes)
    BY DEF PlainInv, Inv
<1>2. front \in Seq(Bytes) /\ behind \in Seq(Bytes) /\ front \o behind = stream
    <2>1. front \in Seq(Bytes)
        <3>1. 0 \in Nat /\ got \in Nat /\ 0 <= got /\ got <= Len(stream) /\ 0 + 1 = 1
            BY <1>1
        <3> QED
            BY <1>1, <3>1, Part
    <2>2. behind \in Seq(Bytes)
        BY <1>1, AfterIs
    <2>3. front \o behind = stream
        <3>1. /\ 1 \in 1 .. Len(stream) + 1 /\ got \in 1 - 1 .. Len(stream)
              /\ Len(stream) \in got .. Len(stream)
            BY <1>1
        <3>2. front \o behind = SubSeq(stream, 1, Len(stream))
            BY <1>1, <3>1, ConcatAdjacentSubSeq DEF After
        <3> QED
            BY <1>1, <3>2, SubSeqFull
    <2> QED
        BY <2>1, <2>2, <2>3
<1>3. Extracted(front) = [frames |-> frames, rest |-> buf]
    BY DEF PlainInv, Inv, ChunksIrrelevant
<1>4. more.frames \in Seq(Seq(Bytes))
    <2>1. buf \o behind \in Seq(Bytes)
        BY <1>1, <1>2, FrontOfConcat
    <2>2. more \in Taken
        BY <2>1, ExtractedStep
    <2> QED
        BY <2>2 DEF Taken
<1>5. got = Len(stream) => front = stream
    BY <1>1, SubSeqFull
<1> HIDE DEF front, behind
<1>6. Extracted(stream) = InTwo(front, behind)
    <2>1. Extracted(front \o behind) = InTwo(front, behind)
        BY <1>2, TakenInTwo
    <2> QED
        BY <1>2, <2>1
<1>7. Extracted(stream).frames = requests
    BY DEF PlainInv, WrittenIsTaken
<1>8. Extracted(front).frames = frames /\ Extracted(front).rest = buf
    BY <1>3
<1>9. requests = frames \o more.frames
    BY <1>6, <1>7, <1>8 DEF InTwo
<1> HIDE DEF more
<1>10. IsPrefix(frames, requests)
    <2>1. /\ Len(requests) = Len(frames) + Len(more.frames)
          /\ Len(frames) \in Nat /\ Len(more.frames) \in Nat
          /\ \A n \in 0 .. Len(frames) : SubSeq(requests, 1, n) = SubSeq(frames, 1, n)
        BY <1>1, <1>4, <1>9, FrontOfConcat
    <2>2. Len(frames) \in 0 .. Len(frames) /\ Len(frames) <= Len(requests)
        BY <2>1
    <2> QED
        BY <2>1, <2>2 DEF IsPrefix
<1> QED
    BY <1>5, <1>7, <1>8, <1>10 DEF RequestsTaken

\* Requests whose size is found, with noise between them, are taken as they were
\* written, in order, and none waits for bytes that follow it: what a session still
\* keeps is the beginning of a request that has not arrived.
THEOREM RequestsAreTaken ==
    ASSUME Plain(Items)
    PROVE  Spec => []RequestsTaken
<1>1. Init => PlainInv
    <2> SUFFICES ASSUME Init PROVE PlainInv
        OBVIOUS
    <2>1. stream = <<>> /\ requests = <<>>
        BY DEF Init
    <2> QED
        BY <2>1, InvInit, NothingTaken DEF PlainInv, WrittenIsTaken
<1>2. PlainInv /\ [Next]_vars => PlainInv'
    <2> SUFFICES ASSUME PlainInv, [Next]_vars PROVE PlainInv'
        OBVIOUS
    <2>1. Inv'
        BY InvNext DEF PlainInv
    <2>2. CASE \E item \in Items : Write(item)
        BY <2>1, <2>2, PlainWrite DEF PlainInv
    <2>3. CASE \E n \in 1 .. Len(stream) : Read(n)
        <3>1. stream' = stream /\ requests' = requests
            BY <2>3 DEF Read
        <3> QED
            BY <2>1, <3>1 DEF PlainInv, WrittenIsTaken
    <2>4. CASE UNCHANGED vars
        BY <2>1, <2>4 DEF PlainInv, WrittenIsTaken, vars
    <2> QED
        BY <2>2, <2>3, <2>4 DEF Next
<1> QED
    BY <1>1, <1>2, PlainTaken, PTL DEF Spec

=============================================================================
