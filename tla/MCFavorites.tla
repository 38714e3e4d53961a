---------------------------- MODULE MCFavorites -----------------------------
(* Two photos with stamps of their own; the search text matches one.        *)
EXTENDS Favorites

CONSTANTS p, q, none, find

MCKeyOrder == <<1, 2>>
MCKeyOf == (p :> 1) @@ (q :> 2)
MCMatching == (none :> {p, q}) @@ (find :> {p})
=============================================================================
