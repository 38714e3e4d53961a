----------------------------- MODULE AtomicWrites -----------------------------
(***************************************************************************)
(* What DB::Write promises to threads that read and write at the same time *)
(* (include/leveldb/db.h:43-45, 75-78, write_batch.h:5): the entries of a *)
(* batch appear together and for good, between the call and its return     *)
(* with OK; of a batch whose write returned an error there is nothing.     *)
(***************************************************************************)
EXTENDS Naturals

CONSTANTS BatchSize, MaxWrites

VARIABLES
    calls,          \* the batches given to Write so far: 1 .. calls
    content,        \* the entries that readers find, <<batch, index>>
    acked, failed   \* the batches whose write returned OK, an error

vars == <<calls, content, acked, failed>>

Whole(batches) == batches \X (1 .. BatchSize)

Init == calls = 0 /\ content = {} /\ acked = {} /\ failed = {}

Call ==
    /\ calls < MaxWrites
    /\ calls' = calls + 1
    /\ UNCHANGED <<content, acked, failed>>

\* A group of batches takes effect.
Commit(batches) ==
    /\ batches \cap failed = {}
    /\ Whole(batches) \cap content = {}
    /\ content' = content \cup Whole(batches)
    /\ UNCHANGED <<calls, acked, failed>>

ReturnOK(batch) ==
    /\ Whole({batch}) \subseteq content
    /\ acked' = acked \cup {batch}
    /\ UNCHANGED <<calls, content, failed>>

ReturnError(batch) ==
    /\ Whole({batch}) \cap content = {}
    /\ failed' = failed \cup {batch}
    /\ UNCHANGED <<calls, content, acked>>

Next ==
    \/ Call
    \/ \E batches \in SUBSET (1 .. calls) : Commit(batches)
    \/ \E batch \in 1 .. calls : ReturnOK(batch) \/ ReturnError(batch)

Spec == Init /\ [][Next]_vars
=============================================================================
