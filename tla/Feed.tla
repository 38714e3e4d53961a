-------------------------------- MODULE Feed --------------------------------
(***************************************************************************)
(* What a paged listing of search results promises, and nothing of how:    *)
(* the rows are always the first pages of ONE query -- no photo of another *)
(* query, none twice, none skipped -- and they change only to the first    *)
(* page of a query or by the next page of the same one.                    *)
(***************************************************************************)
EXTENDS PhotoService

VARIABLE feed

Init == feed = <<>>

\* A new search replaces the listing.
Replace == \E q \in Text : feed' = FirstPages(q, 1)

\* The listing grows by its next page.
Extend ==
    \E q \in Text : \E n \in 1 .. (PagesOf(q) - 1) :
        /\ feed = FirstPages(q, n)
        /\ feed' = FirstPages(q, n + 1)

Spec == Init /\ [][Replace \/ Extend]_feed
=============================================================================
