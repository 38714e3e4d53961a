---------------------------- MODULE PhotoService ----------------------------
(***************************************************************************)
(* The photo search service the app calls, as the app sees it: a query has *)
(* Total[q] photos in a fixed order, and the service serves them in pages  *)
(* of PageSize (NetworkService.prepareParameters, SearchResults).          *)
(***************************************************************************)
EXTENDS Integers, Sequences

CONSTANTS
    Text,           \* the queries
    Total,          \* Total[q]: how many photos the service has for query q
    PageSize        \* per_page

ASSUME TotalAssumption == Total \in [Text -> Nat]
ASSUME PageSizeAssumption == PageSize \in Nat \ {0}

Photo == [query : Text, index : Nat \ {0}]

\* total_pages of an answer
PagesOf(q) == (Total[q] + PageSize - 1) \div PageSize

Least(m, n) == IF m <= n THEN m ELSE n

\* The photos of q from number `from' to number `to'.
Slice(q, from, to) ==
    [n \in 1 .. (to - from + 1) |-> [query |-> q, index |-> from + n - 1]]

\* results of an answer: a page past the last one is empty, not an error.
Results(q, p) ==
    Slice(q, (p - 1) * PageSize + 1, Least(p * PageSize, Total[q]))

\* The first n pages in one piece.
FirstPages(q, n) == Slice(q, 1, Least(n * PageSize, Total[q]))
=============================================================================
