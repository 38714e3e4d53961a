------------------------------ MODULE LevelStore -----------------------------
(***************************************************************************)
(* leveldb, db/db_impl.cc: the memtables, the tables in their levels, the  *)
(* snapshots, and the background thread that flushes and compacts them     *)
(* while clients write and read.                                           *)
(*                                                                         *)
(* The background thread works without the mutex: between the step that    *)
(* chooses the inputs of a compaction and the one that installs its        *)
(* outputs, clients write, take and release snapshots, and the thread      *)
(* itself flushes the immutable memtable into a version the compaction has *)
(* not seen.                                                               *)
(***************************************************************************)
EXTENDS Version

CONSTANTS
    L0StopWrites,   \* config::kL0_StopWritesTrigger
    Options,        \* what a store may be opened with: max_file_size, and the
                    \* bounds of a behaviour: its writes, the deletions among
                    \* them, the snapshots alive, the calls of CompactRange
    NoTable, NoCompaction, NoManual

ASSUME StoreAssumption ==
    /\ L0StopWrites \in Nat \ {0}
    /\ \A o \in Options : o.max_file_size \in Nat \ {0} /\ o.writes \in 0 .. MaxSequence
    /\ \A table \in SUBSET Entry : table # NoTable

VARIABLES
    mem,            \* mem_, the set of its entries
    imm,            \* imm_, NoTable when there is none
    current,        \* the tables of versions_->current()
    last_sequence,  \* versions_->LastSequence()
    next_file,      \* versions_->NewFileNumber(), tables only
    snapshots,      \* snapshots_, the sequence numbers, oldest first
    pointer,        \* compact_pointer_, per level
    seek,           \* file_to_compact_ of the current version
    manual,         \* manual_compaction_
    compaction,     \* the compaction the background thread is working on
    now, kept,      \* history: what the present and each snapshot must show
    deletes, manuals

memtables == <<mem, imm>>
background == <<current, next_file, pointer, seek, compaction>>
views == <<snapshots, now, kept>>
bounds == <<deletes, manuals>>
vars == <<options, memtables, background, last_sequence, views, manual, bounds>>

\* FileMetaData of the version being replaced is dropped with it.
Install(v) == current' = v /\ seek' = {}

Init ==
    /\ options \in Options
    /\ mem = {} /\ imm = NoTable
    /\ current = [level \in Level |-> <<>>]
    /\ last_sequence = 0 /\ next_file = 1
    /\ snapshots = <<>> /\ kept = <<>> /\ now = [key \in Key |-> 0]
    /\ pointer = [level \in Level |-> {}] /\ seek = {}
    /\ manual = NoManual /\ compaction = NoCompaction
    /\ deletes = 0 /\ manuals = 0

-----------------------------------------------------------------------------
(* Clients.                                                                 *)

\* The group of writes at the head of the queue, here of one entry, enters
\* the memtable under the next sequence number.
Write(key, type) ==
    /\ last_sequence < options.writes
    /\ type = kTypeDeletion => deletes < options.deletes
    /\ mem' = mem \cup {[key |-> key, seq |-> last_sequence + 1, type |-> type]}
    /\ last_sequence' = last_sequence + 1
    /\ deletes' = IF type = kTypeDeletion THEN deletes + 1 ELSE deletes
    /\ now' = [now EXCEPT ![key] = IF type = kTypeDeletion THEN 0 ELSE last_sequence + 1]
    /\ UNCHANGED <<options, imm, background, snapshots, kept, manual, manuals>>

\* A writer that finds the memtable full makes it immutable, unless the last
\* one is still there or level 0 is too long.
MakeRoomForWrite ==
    /\ imm = NoTable
    /\ Len(current[0]) < L0StopWrites
    /\ mem # {}     \* bound: a flush of nothing only uses up a file number
    /\ imm' = mem /\ mem' = {}
    /\ UNCHANGED <<options, background, last_sequence, views, manual, bounds>>

GetSnapshot ==
    /\ Len(snapshots) < options.snapshots
    /\ snapshots' = Append(snapshots, last_sequence)
    /\ kept' = Append(kept, now)
    /\ UNCHANGED <<options, memtables, background, last_sequence, now, manual, bounds>>

ReleaseSnapshot(i) ==
    /\ snapshots' = RemoveAt(snapshots, i)
    /\ kept' = RemoveAt(kept, i)
    /\ UNCHANGED <<options, memtables, background, last_sequence, now, manual, bounds>>

\* What a Get at a sequence number returns: memtable, immutable memtable,
\* tables; the sequence number stands for the value, 0 for NotFound.
Lookup(key, seq) ==
    LET inMem == Visible(mem, key, seq)
        inImm == IF imm = NoTable THEN {} ELSE Visible(imm, key, seq)
        found == IF inMem # {} THEN inMem
                 ELSE IF inImm # {} THEN inImm ELSE VersionGet(current, key, seq)
    IN  IF \E e \in found : e.type = kTypeValue
        THEN (CHOOSE e \in found : TRUE).seq ELSE 0

\* A read that goes through more than one file is charged to the first; at
\* some count, left out here, that file is to be compacted.
UpdateStats(key, seq) ==
    LET read == ForEachOverlapping(current, key, seq)
    IN  /\ Len(read) >= 2 /\ seek = {}
        /\ seek' = {read[1]}
        /\ UNCHANGED <<options, memtables, current, next_file, pointer, compaction,
                       last_sequence, views, manual, bounds>>

\* DB::CompactRange goes down the levels; each of its requests waits until
\* no other is there.
CompactRange(level, begin, end) ==
    /\ manuals < options.manuals
    /\ manual = NoManual
    /\ manual' = [level |-> level, begin |-> begin, end |-> end]
    /\ manuals' = manuals + 1
    /\ UNCHANGED <<options, memtables, background, last_sequence, views, deletes>>

-----------------------------------------------------------------------------
(* The background thread.                                                   *)

\* Mutant: the number of the new table is not used up.
FlushKeepsNumber ==
    LET low == CHOOSE k \in {e.key : e \in imm} : \A e \in imm : k <= e.key
        high == CHOOSE k \in {e.key : e \in imm} : \A e \in imm : k >= e.key
        level == PickLevelForMemTableOutput(current, low, high)
        table == [number |-> next_file, entries |-> imm]
    IN  /\ imm # NoTable
        /\ Install(Apply(current, {}, {<<level, table>>}))
        /\ imm' = NoTable
        /\ UNCHANGED <<options, mem, last_sequence, views, next_file, pointer, manual,
                       compaction, bounds>>

\* WriteLevel0Table and LogAndApply.  The loop of a compaction comes here
\* too, between two of its entries.
CompactMemTable ==
    LET low == CHOOSE k \in {e.key : e \in imm} : \A e \in imm : k <= e.key
        high == CHOOSE k \in {e.key : e \in imm} : \A e \in imm : k >= e.key
        level == PickLevelForMemTableOutput(current, low, high)
        table == [number |-> next_file, entries |-> imm]
    IN  /\ imm # NoTable
        /\ Install(Apply(current, {}, {<<level, table>>}))
        /\ imm' = NoTable
        /\ next_file' = next_file + 1
        /\ UNCHANGED <<options, mem, last_sequence, views, pointer, manual,
                       compaction, bounds>>

NeedsCompaction == SizeCompaction(current) \/ seek # {}

\* The state of a compaction that begins: smallest_snapshot is read once,
\* here, and the version of the inputs stays referenced.
Start(c) ==
    [level |-> c.level, inputs |-> c.inputs, grandparents |-> c.grandparents,
     version |-> current, is_manual |-> manual # NoManual,
     smallest_snapshot |-> IF snapshots = <<>> THEN last_sequence
                           ELSE snapshots[1]]

MoveFile(c) ==
    LET f == c.inputs[1][1]
    IN  Install(Apply(current, {<<c.level, f>>}, {<<c.level + 1, f>>}))

\* A single file without overlap is moved down, in one step under the mutex.
BackgroundCompaction ==
    /\ imm = NoTable /\ manual = NoManual /\ compaction = NoCompaction
    /\ NeedsCompaction
    /\ \E c \in {PickCompaction(current, pointer, seek)} :
        /\ pointer' = [pointer EXCEPT ![c.level] = {c.largest}]
        /\ IF IsTrivialMove(c)
           THEN MoveFile(c) /\ UNCHANGED compaction
           ELSE compaction' = Start(c) /\ UNCHANGED <<current, seek>>
    /\ UNCHANGED <<options, memtables, next_file, last_sequence, views, manual,
                   bounds>>

\* The part of a requested range that one compaction covers; the caller asks
\* again for what is left.
ManualCompaction ==
    /\ imm = NoTable /\ compaction = NoCompaction /\ manual # NoManual
    /\ \E inputs \in {CompactRangeInputs(current, manual.level, manual.begin,
                                        manual.end)} :
        IF inputs = <<>>
        THEN manual' = NoManual /\ UNCHANGED <<pointer, compaction>>
        ELSE \E c \in {SetupOtherInputs(current, manual.level, inputs)} :
                /\ pointer' = [pointer EXCEPT ![c.level] = {c.largest}]
                /\ compaction' = Start(c)
                /\ UNCHANGED manual
    /\ UNCHANGED <<options, memtables, current, seek, next_file, last_sequence,
                   views, bounds>>

\* InstallCompactionResults: the inputs leave whatever version is current by
\* now, the outputs enter the next level.
FinishCompaction ==
    LET inputs(which) == {<<compaction.level + which - 1, f>> :
                            f \in ToSet(compaction.inputs[which])}
        outputs(tables) ==
            {<<compaction.level + 1,
               [number |-> next_file + i - 1, entries |-> tables[i]]>> :
                i \in DOMAIN tables}
    IN  /\ compaction # NoCompaction
        /\ \E tables \in {DoCompactionWork(compaction, compaction.smallest_snapshot)} :
            /\ Install(Apply(current, inputs(1) \cup inputs(2), outputs(tables)))
            /\ next_file' = next_file + Len(tables)
        /\ compaction' = NoCompaction
        /\ manual' = IF compaction.is_manual THEN NoManual ELSE manual
        /\ UNCHANGED <<options, memtables, last_sequence, views, pointer, bounds>>

Next ==
    \/ \E key \in Key, type \in {kTypeDeletion, kTypeValue} : Write(key, type)
    \/ MakeRoomForWrite
    \/ GetSnapshot
    \/ \E i \in DOMAIN snapshots : ReleaseSnapshot(i)
    \/ \E key \in Key, seq \in 0 .. last_sequence : UpdateStats(key, seq)
    \/ \E level \in 0 .. NumLevels - 2, begin, end \in Key :
            begin <= end /\ CompactRange(level, begin, end)
    \/ CompactMemTable
    \/ BackgroundCompaction
    \/ ManualCompaction
    \/ FinishCompaction

Spec == Init /\ [][Next]_vars

-----------------------------------------------------------------------------
Sequence == 1 .. MaxSequence

\* A table: it has entries.
IsTable(f) == f.number \in Nat /\ f.entries \subseteq Entry /\ f.entries # {}

TypeOK ==
    /\ mem \subseteq Entry /\ (imm = NoTable \/ (imm \subseteq Entry /\ imm # {}))
    /\ last_sequence \in 0 .. options.writes /\ next_file \in Nat \ {0}
    /\ \A level \in Level : \A f \in ToSet(current[level]) :
        /\ IsTable(f) /\ f.number \in 1 .. next_file - 1
        /\ \A other \in Level : \A g \in ToSet(current[other]) :
            f.number = g.number => level = other /\ f = g
    /\ snapshots \in Seq(0 .. last_sequence)
    /\ \A level \in Level : pointer[level] \subseteq Entry
    /\ compaction # NoCompaction =>
        /\ compaction.level \in 0 .. NumLevels - 2
        /\ \A files \in {compaction.inputs[1], compaction.inputs[2], compaction.grandparents} :
            \A f \in ToSet(files) : IsTable(f)

\* Below level 0 the files of a level are sorted and do not overlap, which
\* the bisection of FindFile relies on: MaybeAddFile's "Must not overlap",
\* version_set.cc:747.
LevelsDisjoint ==
    \A level \in 1 .. NumLevels - 1 : \A i \in 2 .. Len(current[level]) :
        Before(Largest(current[level][i - 1]), Smallest(current[level][i]))

\* The tables a lookup passes, in its order, seen from the newest: the
\* memtable, the immutable one, the files of level 0 by number, the levels.
Age(e) ==
    IF e \in mem THEN <<0, 0>>
    ELSE IF imm # NoTable /\ e \in imm THEN <<1, 0>>
    ELSE IF \E f \in ToSet(current[0]) : e \in f.entries
         THEN <<2, next_file - (CHOOSE f \in ToSet(current[0]) : e \in f.entries).number>>
         ELSE <<2 + CHOOSE level \in Level : e \in Entries(current[level]), 0>>

Stored == mem \cup (IF imm = NoTable THEN {} ELSE imm)
              \cup UNION {Entries(current[level]) : level \in Level}

\* No step leaves an older entry of a key where a lookup meets it before a
\* newer one: Version::Get stops at the first level that has the key, since
\* "entries never hop across levels" (version_set.cc:338).
NewerFirst ==
    \A d, e \in Stored : d.key = e.key /\ d.seq > e.seq =>
        \/ Age(d)[1] < Age(e)[1]
        \/ Age(d)[1] = Age(e)[1] /\ Age(d)[2] <= Age(e)[2]

\* A read finds what was written last, at the present and at every live
\* snapshot, whatever the background thread has dropped, moved or merged.
ReadsRight ==
    /\ \A key \in Key : Lookup(key, last_sequence) = now[key]
    /\ \A i \in DOMAIN snapshots, key \in Key :
            Lookup(key, snapshots[i]) = kept[i][key]

\* "this deletion marker is obsolete and can be dropped" (db_impl.cc:958): a
\* key whose last write is a deletion is not found again.
DeletedStaysDeleted ==
    \A key \in Key : now[key] = 0 => Lookup(key, last_sequence) = 0

\* Flushes, moves and compactions never change what any live snapshot, or the
\* present, shows: the store implements the map with snapshots.  (The lookups
\* of every step are costly: only the instances with options.mapped make them;
\* in the others the mapped store is empty.)
Store == INSTANCE SnapshotStore WITH
            Value <- Sequence, Absent <- 0,
            now <- [k \in Key |-> IF options.mapped THEN Lookup(k, last_sequence)
                                                   ELSE 0],
            snapshots <- IF options.mapped
                         THEN [i \in DOMAIN snapshots |->
                                [k \in Key |-> Lookup(k, snapshots[i])]]
                         ELSE <<>>
SnapshotsKept == Store!Spec
=============================================================================
