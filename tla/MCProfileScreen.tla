-------------------------- MODULE MCProfileScreen ---------------------------
(* Two profile screens, of the same tab one after the other or of two tabs. *)
EXTENDS ProfileScreen, TLC

CONSTANTS s1, s2

Screens == Permutations({s1, s2})
=============================================================================
