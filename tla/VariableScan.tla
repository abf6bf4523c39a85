---------------------------- MODULE VariableScan ----------------------------
(***************************************************************************)
(* How a client discovers the system variables while others use them: it   *)
(* asks for the name of one id after the other and gives up after too many *)
(* in a row without one (dump_controller of dump.py, with the name query   *)
(* of handlers.py).  The loader warns of ids that lie too far apart for    *)
(* that (_validate_world).                                                 *)
(*                                                                         *)
(* The value the dump asks for next goes into the file as it is, or as 0,  *)
(* and decides nothing: it is left out.                                    *)
(***************************************************************************)
EXTENDS Registers

CONSTANTS
    Named,       \* the variables whose name is not empty
    LastId,      \* highest id a client asks for
    GiveUp,      \* give_up_after: 10 in the code
    GapLimit     \* the distance beyond which the loader warns: 10 in the code

ASSUME ScanAssumption ==
    /\ LastId \in Nat
    /\ Variables \subseteq 0 .. LastId
    /\ Named \subseteq Variables
    /\ GiveUp \in Nat \ {0}
    /\ GapLimit = GiveUp

VARIABLE scan    \* the next id to ask for, the ids in a row without a name, the
                 \* variables found; as history, the variables whose reply was lost

scanVars == <<vars, scan>>

ScanInit ==
    /\ Init
    /\ scan = [next |-> 0, failed |-> 0, found |-> {}, lost |-> {}]

\* Mutant: one id more before the scan gives up.
GivesUpLate == scan.failed > GiveUp

\* Mutant: one id less.
GivesUpEarly == scan.failed + 1 >= GiveUp

GivesUp == scan.failed >= GiveUp

ScanOver == GivesUp \/ scan.next > LastId

\* QUERY_SYSTEM_VARIABLE_NAME of the next id.  No such variable, an empty name and a
\* lost reply are the same to the client.
QueryVariableName(came) ==
    /\ ~ScanOver
    /\ LET hit == came /\ scan.next \in Named
       IN  scan' = [next |-> scan.next + 1,
                    failed |-> IF hit THEN 0 ELSE scan.failed + 1,
                    found |-> IF hit THEN scan.found \cup {scan.next} ELSE scan.found,
                    lost |-> IF came THEN scan.lost ELSE scan.lost \cup {scan.next}]
    /\ UNCHANGED vars

Others == Next /\ UNCHANGED scan

ScanNext ==
    \/ QueryVariableName(TRUE)
    \/ scan.next \in Named /\ QueryVariableName(FALSE)
    \/ Others

ScanSpec == ScanInit /\ [][ScanNext]_scanVars

-----------------------------------------------------------------------------

\* The loader warns of two neighbours more than GapLimit apart: of an id that has
\* others above it, all of them too far away.
GapWarning(ids) ==
    \E a \in ids : /\ \E b \in ids : b > a
                   /\ \A b \in ids : b > a => b - a > GapLimit

\* When the loader has nothing to warn of, every variable has a name and no reply is
\* lost, a client finds all the variables, whatever else happens meanwhile; but for
\* those behind a first id so high that the client gives up before it, of which the
\* loader says nothing.
GapsAreWarned ==
    (/\ ScanOver
     /\ scan.lost = {} /\ Named = Variables
     /\ ~GapWarning(Variables)
     /\ \E v \in Variables : v < GiveUp) => scan.found = Variables

\* The file that a dump writes never makes the loader warn, whichever names are empty
\* and whichever replies were lost: a client of the simulator started from it finds
\* what the dump found.
FoundWithoutWarning == ~GapWarning(scan.found)

=============================================================================
