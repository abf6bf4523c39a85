------------------------------- MODULE Framing -------------------------------
(***************************************************************************)
(* One TCP session's input: requests arrive as a stream of bytes cut into  *)
(* arbitrary chunks, and _handle_tcp_client puts them together again with  *)
(* request_frame_size and extract_request_frame; parse_request then        *)
(* accepts or refuses a frame.  Sizes and the byte values with a meaning   *)
(* are constants, so that small instances have small frames.               *)
(***************************************************************************)
EXTENDS Naturals, Sequences, SequencesExt

CONSTANTS
    Bytes,             \* values of a byte
    Exclusive(_, _),         \* exclusive or of two bytes
    Magic,             \* first byte of a request
    DynamicCommands,   \* DYNAMIC_COMMANDS
    VariableCommands,  \* VARIABLE_COMMANDS
    BasicSize,         \* 8 in the code
    ColourMin,         \* _COLOUR_FRAME_MIN, 7 in the code
    None,              \* more bytes are required
    ColourMax,         \* _COLOUR_FRAME_MAX, 14 in the code
    Items,             \* what a client writes: requests, and noise between them
    MaxItems           \* bound on how much it writes

ASSUME FramingAssumption ==
    /\ Magic \in Bytes /\ Bytes \subseteq Nat /\ 0 \in Bytes /\ None \notin Nat
    /\ DynamicCommands \cap VariableCommands = {}
    /\ BasicSize \in Nat /\ ColourMin \in Nat /\ ColourMax \in Nat
    /\ 6 <= ColourMin /\ ColourMin <= ColourMax /\ 5 <= BasicSize
    /\ Items \subseteq Seq(Bytes) \ {<<>>}
    /\ MaxItems \in Nat

VARIABLES
    stream,    \* the bytes that the client wrote so far
    requests,  \* history: the requests among them, as the client wrote them
    written,   \* number of its writes
    got,       \* how many of its bytes the session has read
    buf,       \* bytearray of the session: read and not yet taken as a frame
    frames     \* history: the frames the session took, in order

vars == <<stream, requests, written, got, buf, frames>>

checksum(s) == FoldLeft(Exclusive, 0, s)

\* The checksum at the end of a frame, or of a prefix of one, is right.
Validates(s) == checksum(Front(s)) = Last(s)

-----------------------------------------------------------------------------
(* request_frame_size: a length, 0 to drop a byte, None to wait              *)

\* Mutant: a colour frame that does not validate yet is taken as it is.
ColourSizeEager(b) ==
    LET upper == IF Len(b) < ColourMax THEN Len(b) ELSE ColourMax
        valid == {n \in ColourMin..upper : Validates(SubSeq(b, 1, n))}
    IN  IF Len(b) < ColourMin THEN None
        ELSE IF valid # {} THEN CHOOSE n \in valid : \A k \in valid : n <= k
        ELSE upper

\* Mutant: the longest prefix that validates.
ColourSizeLongest(b) ==
    LET upper == IF Len(b) < ColourMax THEN Len(b) ELSE ColourMax
        valid == {n \in ColourMin..upper : Validates(SubSeq(b, 1, n))}
    IN  IF valid # {} THEN CHOOSE n \in valid : \A k \in valid : n >= k
        ELSE IF Len(b) < ColourMax THEN None
        ELSE ColourMax

\* The shortest prefix whose last byte is its checksum, ColourMax if none is.
ColourSize(b) ==
    LET upper == IF Len(b) < ColourMax THEN Len(b) ELSE ColourMax
        valid == {n \in ColourMin..upper : Validates(SubSeq(b, 1, n))}
    IN  IF valid # {} THEN CHOOSE n \in valid : \A k \in valid : n <= k
        ELSE IF Len(b) < ColourMax THEN None
        ELSE ColourMax

DynamicSize(b) == IF Len(b) < 4 \/ Len(b) < 5 + b[4] THEN None ELSE 5 + b[4]

request_frame_size(b) ==
    IF b = <<>> THEN None
    ELSE IF b[1] # Magic THEN 0
    ELSE IF Len(b) < 3 THEN None
    ELSE IF b[3] \in DynamicCommands THEN DynamicSize(b)
    ELSE IF b[3] \in VariableCommands THEN ColourSize(b)
    ELSE IF Len(b) < BasicSize THEN None ELSE BasicSize

\* extract_request_frame until it returns None: the frames taken from the front
\* of b and the bytes that stay.
Extracted(b) ==
    LET After(n) == SubSeq(b, n + 1, Len(b))
        from[n \in 0..Len(b)] ==
            LET size == request_frame_size(After(n))
            IN  IF size = None THEN [frames |-> <<>>, rest |-> After(n)]
                ELSE IF size = 0 THEN from[n + 1]
                ELSE [from[n + size] EXCEPT !.frames = <<SubSeq(b, n + 1, n + size)>> \o @]
    IN  from[0]

\* Mutant: a dynamic frame must have the size of a basic one.
ParsedStrictly(f) ==
    CASE ~Validates(f)          -> "checksum"
      [] Len(f) = BasicSize     -> "request"
      [] OTHER                  -> "invalid"

\* parse_request of a frame: "request", or what refuses it.
Parsed(f) ==
    IF Len(f) < 4 \/ f[1] # Magic THEN "dropped"
    ELSE IF Len(f) < 5 THEN "invalid"
    ELSE IF ~Validates(f) THEN "checksum"
    ELSE IF \/ f[3] \in DynamicCommands /\ Len(f) - 5 >= f[4]
            \/ f[3] \in VariableCommands /\ Len(f) >= 6
            \/ f[3] \notin DynamicCommands \cup VariableCommands /\ Len(f) = BasicSize
         THEN "request"
    ELSE "invalid"

-----------------------------------------------------------------------------

Init == stream = <<>> /\ requests = <<>> /\ written = 0 /\ got = 0 /\ buf = <<>> /\ frames = <<>>

\* A client writes without waiting for answers.
Write(item) ==
    /\ written < MaxItems
    /\ written' = written + 1
    /\ stream' = stream \o item
    /\ requests' = IF item[1] = Magic THEN Append(requests, item) ELSE requests
    /\ UNCHANGED <<got, buf, frames>>

\* reader.read returns what has arrived, then frames are taken until none is
\* complete.
Read(n) ==
    LET now == Extracted(buf \o SubSeq(stream, got + 1, got + n))
    IN  /\ got + n <= Len(stream)
        /\ got' = got + n
        /\ buf' = now.rest
        /\ frames' = frames \o now.frames
        /\ UNCHANGED <<stream, requests, written>>

Next ==
    \/ \E item \in Items : Write(item)
    \/ \E n \in 1..Len(stream) : Read(n)

Spec == Init /\ [][Next]_vars

-----------------------------------------------------------------------------
(* Properties                                                                *)

\* Writes that leave no doubt where a request ends: each is a request whose size is
\* found, or noise without a byte that begins a request.
Plain(items) == \A r \in items :
    request_frame_size(r) = Len(r) \/ \A n \in DOMAIN r : r[n] # Magic

\* How the stream is cut into chunks makes no difference: the frames are those
\* of everything read so far, read at once.
ChunksIrrelevant ==
    Extracted(SubSeq(stream, 1, got)) = [frames |-> frames, rest |-> buf]

\* Every request the client wrote is taken exactly as it was written, in order,
\* and without waiting for bytes that follow it.
RequestsTaken ==
    /\ IsPrefix(frames, requests)
    /\ got = Len(stream) => frames = requests

\* Every frame is answered, and refused only if its checksum is wrong.
Answered == \A n \in DOMAIN frames :
    Parsed(frames[n]) = IF Validates(frames[n]) THEN "request" ELSE "checksum"

=============================================================================
