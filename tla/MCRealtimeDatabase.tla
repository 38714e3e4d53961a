------------------------- MODULE MCRealtimeDatabase -------------------------
(* One location below the listen, one beside it, two values.               *)
EXTENDS RealtimeDatabase

CONSTANTS here, there, a, b
=============================================================================
