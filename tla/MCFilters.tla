------------------------------ MODULE MCFilters ------------------------------
(***************************************************************************)
(* Small instances of Filters.                                             *)
(***************************************************************************)
EXTENDS Filters

\* Enabled with filtering, and multicast alone.
FilteringMode == [enabled |-> TRUE, filtering |-> TRUE, unicast |-> FALSE, multicast |-> TRUE]

\* Both transports, without filtering.
OpenMode == [enabled |-> TRUE, filtering |-> FALSE, unicast |-> TRUE, multicast |-> TRUE]

TwoModes == {FilteringMode, OpenMode}
OneKind == {{k} : k \in Kinds}

=============================================================================
