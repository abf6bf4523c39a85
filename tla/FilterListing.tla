---------------------------- MODULE FilterListing ----------------------------
(***************************************************************************)
(* A client that lists the event filters page by page, as the protocol     *)
(* documents it, while other clients add and clear filters.                *)
(***************************************************************************)
EXTENDS Filters

CONSTANT PageSize      \* filters in one answer, 15 in the code

ASSUME PageAssumption == PageSize \in Nat \ {0}

VARIABLE listing       \* where the client reads next and what it got so far; as
                       \* history, the rules in force when it started and whether
                       \* a clear came in between

NotListing == [on |-> FALSE, at |-> 0, got |-> {}, before |-> {}, cleared |-> FALSE]

ListingInit == Init /\ listing = NotListing

\* Mutant: the pages after the first start one entry late.
PageShifted(fs, start) ==
    SubSeq(fs, start + (IF start = 0 THEN 1 ELSE 2),
           IF start + PageSize < Len(fs) THEN start + PageSize ELSE Len(fs))

\* The page QUERY_DALI_TPI_EVENT_FILTERS answers for every address and instance.
Page(fs, start) ==
    SubSeq(fs, start + 1, IF start + PageSize < Len(fs) THEN start + PageSize ELSE Len(fs))

StartListing ==
    /\ ~listing.on
    /\ listing' = [NotListing EXCEPT !.on = TRUE, !.before = RulesIn(Rng(filters))]
    /\ op' = [kind |-> "list"]
    /\ reply' = "none"
    /\ announced' = {}
    /\ UNCHANGED <<mode, unicast, filters>>

\* A client asks from where the last page ended until it receives no answer.
QueryFilters ==
    /\ listing.on
    /\ LET page == Rng(Page(filters, listing.at))
       IN  IF page = {} THEN /\ listing' = [listing EXCEPT !.on = FALSE]
                             /\ reply' = "no_answer"
           ELSE /\ listing' = [listing EXCEPT !.at = @ + PageSize, !.got = @ \cup RulesIn(page)]
                /\ reply' = "answer"
    /\ op' = [kind |-> "query"]
    /\ announced' = {}
    /\ UNCHANGED <<mode, unicast, filters>>

Others ==
    /\ Next
    /\ listing' = [listing EXCEPT !.cleared = listing.on /\ (@ \/ op'.kind = "clear")]

ListingNext == StartListing \/ QueryFilters \/ Others

ListingView == <<mode, unicast, filters, listing>>

ListingSpec == ListingInit /\ [][ListingNext]_<<vars, listing>>

-----------------------------------------------------------------------------

\* A listing that no clear disturbs reports every rule that was in force when it
\* started, however many adds come between its pages: adds go to the end of the
\* list or change an entry in place.
ListingComplete ==
    [][(op'.kind = "query" /\ reply' = "no_answer" /\ ~listing.cleared) =>
          listing.before \subseteq listing.got]_<<vars, listing>>

=============================================================================
