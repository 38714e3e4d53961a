----------------------------- MODULE MCRecovery -----------------------------
(* Every write fills a memtable (BufferSize 0): two of them give a switch,  *)
(* tables built by a recovery and a merge, the third one a memtable that is *)
(* flushed in the middle of the merge.  The second write is not synced.     *)
(* Two crashes, the second also in the recovery from the first; an          *)
(* iterator.  MaxEvents bounds their combinations.                          *)
EXTENDS Recovery

MCSyncOptions == <<{TRUE}, {FALSE}, {TRUE}>>
=============================================================================
