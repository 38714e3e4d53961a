------------------------------- MODULE MCCells -------------------------------
(***************************************************************************)
(* Two cells, three photos: p and r have the same picture a, which is not   *)
(* on disk, p and q the same user, r has no picture of its user.            *)
(***************************************************************************)
EXTENDS Cells, TLC

CONSTANTS c1, c2, p, q, r, a, b, m

MCFull == (p :> a) @@ (q :> b) @@ (r :> a)
MCMedium == (p :> m) @@ (q :> m) @@ (r :> NoURL)
=============================================================================
