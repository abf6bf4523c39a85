--------------------------- MODULE MCFilterListing ---------------------------
(***************************************************************************)
(* Small instances of FilterListing.                                       *)
(***************************************************************************)
EXTENDS FilterListing

\* Enabled with filtering, and multicast alone.
FilteringMode == [enabled |-> TRUE, filtering |-> TRUE, unicast |-> FALSE, multicast |-> TRUE]

OneKind == {{k} : k \in Kinds}

=============================================================================
