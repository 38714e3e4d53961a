---------------------------- MODULE SnapshotStore ----------------------------
(***************************************************************************)
(* What leveldb promises (include/leveldb/db.h): a map from keys to values *)
(* with snapshots, each of which keeps showing the map as it was when it   *)
(* was taken.  Tables, levels and compactions are invisible.               *)
(***************************************************************************)
EXTENDS Naturals, Sequences, SequencesExt

CONSTANTS
    Key, Value,
    Absent  \* no member of Value

VARIABLES
    now,        \* the map
    snapshots   \* the maps of the live snapshots, oldest first

Map == [Key -> Value \cup {Absent}]

Init == now = [k \in Key |-> Absent] /\ snapshots = <<>>

Put(k, v) == now' = [now EXCEPT ![k] = v] /\ UNCHANGED snapshots

Delete(k) == now' = [now EXCEPT ![k] = Absent] /\ UNCHANGED snapshots

GetSnapshot == snapshots' = Append(snapshots, now) /\ UNCHANGED now

ReleaseSnapshot(i) == snapshots' = RemoveAt(snapshots, i) /\ UNCHANGED now

Next ==
    \/ \E k \in Key, v \in Value : Put(k, v)
    \/ \E k \in Key : Delete(k)
    \/ GetSnapshot
    \/ \E i \in DOMAIN snapshots : ReleaseSnapshot(i)

Spec == Init /\ [][Next]_<<now, snapshots>>
=============================================================================
