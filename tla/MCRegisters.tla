----------------------------- MODULE MCRegisters -----------------------------
(***************************************************************************)
(* A small instance of Registers and VariableScan: a variable that follows *)
(* the day, two that do not, one of them with a value in the file that     *)
(* does not fit; two profiles and an unlisted one.                         *)
(***************************************************************************)
EXTENDS VariableScan

\* The ids are as far apart as the loader lets pass with GiveUp = 2, and a lost reply
\* to the middle one makes the gap too large.
MCLux == 0
MCPlain == 2

MCVariables == {MCLux, MCPlain, 3}
MCLoaded == [v \in Variables |-> IF v = MCPlain THEN 2 ELSE 0]
MCDaylight == [v \in Simulated |-> [t \in 0 .. Day - 1 |-> IF t = 0 THEN 0 ELSE 1]]

=============================================================================
