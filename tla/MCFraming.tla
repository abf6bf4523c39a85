------------------------------ MODULE MCFraming ------------------------------
(***************************************************************************)
(* Framing with bytes of two bits: basic requests of seven bytes, dynamic  *)
(* ones of five or six, colour requests of six to eight.                   *)
(***************************************************************************)
EXTENDS Framing, Bitwise

MCBytes == 0..3
XorTable == [x, y \in MCBytes |-> x ^^ y]
XorBytes(x, y) == XorTable[x, y]

Closed(s) == Append(s, checksum(s))

Basic == {Closed(<<Magic, 0, 0, d, 1, 2>>) : d \in {0, 3}}
Corrupted == {<<Magic, 0, 0, 1, 1, 2, 2>>}
Dynamic == {Closed(<<Magic, 1, 2, 0>>)} \cup {Closed(<<Magic, 1, 2, 1, d>>) : d \in {0, 1}}
Colour == {Closed(<<Magic, 0, 3, d, e>>) : d \in {0, 1}, e \in {0, 3}}
          \cup {Closed(<<Magic, 0, 3, 1, e, 2>>) : e \in {1, 3}}
          \cup {Closed(<<Magic, 2, 3, 1, 0, e, 1>>) : e \in {0, 3}}
Noise == {<<0>>}

\* No shorter prefix of a request validates.
Unmistakable(r) == \A n \in ColourMin..(Len(r) - 1) : ~Validates(SubSeq(r, 1, n))

MCItems == Basic \cup Corrupted \cup Dynamic \cup {r \in Colour : Unmistakable(r)} \cup Noise
MCColour == Colour

ASSUME StreamIsPlain == Plain(MCItems)

=============================================================================
