----------------------------- MODULE MCWriteQueue -----------------------------
(***************************************************************************)
(* Two threads, three batches of two entries and one requested flush, and  *)
(* one call of the file system that fails, anywhere.                       *)
(***************************************************************************)
EXTENDS WriteQueue

CONSTANTS c1, c2
=============================================================================
