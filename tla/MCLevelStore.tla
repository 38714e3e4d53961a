---------------------------- MODULE MCLevelStore -----------------------------
(* LevelStore with the options of the runs.                                 *)
EXTENDS LevelStore

Opened(max_file_size, writes, deletions, snapshots_alive, requests, mapped) ==
    [max_file_size |-> max_file_size, writes |-> writes, deletes |-> deletions,
     snapshots |-> snapshots_alive, manuals |-> requests, mapped |-> mapped]

\* Whole tables under a snapshot, with deletions; tables of one entry, so that
\* the versions of a key lie in several files; requested compactions of tables
\* of two entries; the abstract map.
MCOptions ==
    {Opened(9, 4, 2, 1, 0, FALSE), Opened(1, 4, 0, 1, 0, FALSE),
     Opened(2, 4, 1, 0, 1, FALSE), Opened(9, 3, 1, 1, 0, TRUE)}

\* Tables of two entries and a snapshot: a key's marker and an older value end
\* up side by side in one level.
SplitKey == {Opened(2, 4, 1, 1, 0, FALSE)}
=============================================================================
