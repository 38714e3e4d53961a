---------------------------- MODULE MCSearchFeed ----------------------------
(* Both environments on a small service: one query with three pages, two    *)
(* with two, one of them the first query, and no photo for the empty text.  *)
EXTENDS PatientFeed

CONSTANTS none, random, cats, dogs

MCText == {none, cats, dogs, random}
MCTotal == (none :> 0) @@ (random :> 4) @@ (cats :> 5) @@ (dogs :> 3)
=============================================================================
