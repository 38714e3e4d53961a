------------------------------- MODULE Version -------------------------------
(***************************************************************************)
(* leveldb, db/version_set.cc: the tables of a version, how a key is       *)
(* looked up in them and how a compaction chooses and merges them.         *)
(*                                                                         *)
(* A version maps each level to the sequence of its files.  A file carries *)
(* its entries, so a table is what the iterator over it yields.  Keys are  *)
(* integers; the value of an entry is the sequence number of the write     *)
(* that made it; the size of a file is the number of its entries.          *)
(***************************************************************************)
EXTENDS Integers, Sequences, FiniteSets, SequencesExt

CONSTANTS
    MaxKey,             \* the user keys are 1..MaxKey
    MaxSequence,        \* bound: the writes of a behaviour
    NumLevels,          \* config::kNumLevels
    MaxMemCompactLevel, \* config::kMaxMemCompactLevel
    L0Trigger,          \* config::kL0_CompactionTrigger
    MaxBytes,           \* MaxBytesForLevel(1); ten times as much per level
    GrandParentLimit,   \* MaxGrandParentOverlapBytes
    ExpandLimit         \* ExpandedCompactionByteSizeLimit

VARIABLE options        \* what the store was opened with

ASSUME VersionAssumption ==
    /\ {MaxKey, MaxSequence, L0Trigger, MaxBytes} \subseteq Nat \ {0}
    /\ NumLevels \in Nat /\ NumLevels >= 2
    /\ MaxMemCompactLevel \in 0 .. NumLevels - 1
    /\ GrandParentLimit \in Nat /\ ExpandLimit \in Nat

Key == 1 .. MaxKey
Level == 0 .. NumLevels - 1
kTypeDeletion == 0
kTypeValue == 1
kMaxSequenceNumber == MaxSequence + 1

Entry == [key : Key, seq : 1 .. MaxSequence, type : {kTypeDeletion, kTypeValue}]
File == [number : Nat, entries : SUBSET Entry]

\* InternalKeyComparator: user keys upwards, for one key the newest first.
Before(a, b) ==
    \/ a.key < b.key
    \/ a.key = b.key /\ a.seq > b.seq
    \/ a.key = b.key /\ a.seq = b.seq /\ a.type > b.type

Smallest(f) == CHOOSE e \in f.entries : \A d \in f.entries \ {e} : Before(e, d)
Largest(f) == CHOOSE e \in f.entries : \A d \in f.entries \ {e} : Before(d, e)

\* The elements of a set in a strict total order.
Sorted(S, op(_, _)) ==
    [i \in 1 .. Cardinality(S) |->
        CHOOSE x \in S : Cardinality({y \in S : op(y, x)}) = i - 1]

TargetFileSize == options.max_file_size

\* The n-th smallest number of a set, and the elements of s at such positions.
Nth(S, n) == CHOOSE i \in S : Cardinality({j \in S : j <= i}) = n
Subsequence(s, S) == [n \in 1 .. Cardinality(S) |-> s[Nth(S, n)]]

TotalFileSize(files) ==
    LET size[n \in 0 .. Len(files)] ==
            IF n = 0 THEN 0 ELSE Cardinality(files[n].entries) + size[n - 1]
    IN  size[Len(files)]

-----------------------------------------------------------------------------
(* Finding files.                                                           *)

\* The first file whose largest key is not before the target, by bisection;
\* one past the end when there is none.
FindFile(files, target) ==
    LET Index == 1 .. Len(files) + 1
        halve[w \in [left : Index, right : Index]] ==
            LET mid == (w.left + w.right) \div 2
            IN  IF w.left >= w.right THEN w
                ELSE IF Before(Largest(files[mid]), target)
                     THEN [left |-> mid + 1, right |-> w.right]
                     ELSE [left |-> w.left, right |-> mid]
        round[n \in 0 .. Len(files)] ==
            IF n = 0 THEN [left |-> 1, right |-> Len(files) + 1]
            ELSE halve[round[n - 1]]
    IN  round[Len(files)].right

AfterFile(key, f) == key > Largest(f).key
BeforeFile(key, f) == key < Smallest(f).key
Outside(low, high, f) == AfterFile(low, f) \/ BeforeFile(high, f)

\* The null bounds of a range are 0 and MaxKey + 1.
OverlapInLevel(v, level, low, high) ==
    LET small_key == [key |-> low, seq |-> kMaxSequenceNumber, type |-> kTypeValue]
        index == FindFile(v[level], small_key)
    IN  IF level = 0
        THEN \E i \in DOMAIN v[0] : ~Outside(low, high, v[0][i])
        ELSE index <= Len(v[level]) /\ ~BeforeFile(high, v[level][index])

\* In level 0, where files may overlap, files that reach over the range widen
\* it, and the search starts again, at most once for each key.
GetOverlappingInputs(v, level, low, high) ==
    LET hit(r) == {i \in DOMAIN v[level] : ~Outside(r.low, r.high, v[level][i])}
        widen[r \in [low : 0 .. MaxKey + 1, high : 0 .. MaxKey + 1]] ==
            [low |-> Min({r.low} \cup {Smallest(v[level][i]).key : i \in hit(r)}),
             high |-> Max({r.high} \cup {Largest(v[level][i]).key : i \in hit(r)})]
        range[n \in 0 .. MaxKey] ==
            IF n = 0 \/ level > 0 THEN [low |-> low, high |-> high]
            ELSE widen[range[n - 1]]
    IN  Subsequence(v[level], hit(range[MaxKey]))

\* Mutant: looks at the bytes two levels down but not at the next level.
PickLevelPastOverlap(v, low, high) ==
    LET blocked(level) ==
            /\ level + 2 < NumLevels
            /\ TotalFileSize(GetOverlappingInputs(v, level + 2, low, high))
                    > GrandParentLimit
    IN  IF OverlapInLevel(v, 0, low, high) THEN 0
        ELSE CHOOSE level \in 0 .. MaxMemCompactLevel :
                /\ level = MaxMemCompactLevel \/ blocked(level)
                /\ \A above \in 0 .. level - 1 : ~blocked(above)

\* The deepest level a flushed table may go to without passing a file it
\* overlaps, or lying over too much of the level after the next.
PickLevelForMemTableOutput(v, low, high) ==
    LET blocked(level) ==
            \/ OverlapInLevel(v, level + 1, low, high)
            \/ /\ level + 2 < NumLevels
               /\ TotalFileSize(GetOverlappingInputs(v, level + 2, low, high))
                    > GrandParentLimit
    IN  IF OverlapInLevel(v, 0, low, high) THEN 0
        ELSE CHOOSE level \in 0 .. MaxMemCompactLevel :
                /\ level = MaxMemCompactLevel \/ blocked(level)
                /\ \A above \in 0 .. level - 1 : ~blocked(above)

-----------------------------------------------------------------------------
(* Version::Get.                                                            *)

\* The newest entry of key that a reader at sequence number seq sees: a set
\* of one entry, or empty.
Visible(entries, key, seq) ==
    LET seen == {e \in entries : e.key = key /\ e.seq <= seq}
    IN  {e \in seen : \A d \in seen : d.seq <= e.seq}

\* The files a lookup reads, in its order: of level 0 those around the key
\* from the newest to the oldest, of every other level at most one.
ForEachOverlapping(v, key, seq) ==
    LET around == {f \in ToSet(v[0]) : ~Outside(key, key, f)}
        ikey == [key |-> key, seq |-> seq, type |-> kTypeValue]
        inLevel(level) ==
            LET index == FindFile(v[level], ikey)
            IN  IF index > Len(v[level]) \/ BeforeFile(key, v[level][index])
                THEN <<>>
                ELSE <<[level |-> level, file |-> v[level][index]]>>
        newestFirst == Sorted(around, LAMBDA f, g : f.number > g.number)
        upTo[level \in Level] ==
            IF level = 0
            THEN [i \in DOMAIN newestFirst |-> [level |-> 0, file |-> newestFirst[i]]]
            ELSE upTo[level - 1] \o inLevel(level)
    IN  upTo[NumLevels - 1]

\* The first of them that has the key decides.
VersionGet(v, key, seq) ==
    LET seen(r) == Visible(r.file.entries, key, seq)
        has(read) == {i \in DOMAIN read : seen(read[i]) # {}}
    IN  UNION {IF has(read) = {} THEN {} ELSE seen(read[Min(has(read))]) :
                read \in {ForEachOverlapping(v, key, seq)}}

-----------------------------------------------------------------------------
(* VersionSet::Builder, Finalize.                                           *)

BySmallestKey(f, g) ==
    \/ Before(Smallest(f), Smallest(g))
    \/ Smallest(f) = Smallest(g) /\ f.number < g.number

\* The version after an edit: deleted and added are sets of <<level, file>>.
Apply(v, deleted, added) ==
    [level \in Level |->
        Sorted(
            {f \in ToSet(v[level]) : <<level, f>> \notin deleted}
                \cup {f \in {p[2] : p \in added} : <<level, f>> \in added},
            BySmallestKey)]

\* The score of a level is files or bytes over a limit.
Files(v, level) == IF level = 0 THEN Len(v[0]) ELSE TotalFileSize(v[level])
Limit(level) ==
    LET bytes[n \in Level] == IF n <= 1 THEN MaxBytes ELSE 10 * bytes[n - 1]
    IN  IF level = 0 THEN L0Trigger ELSE bytes[level]

\* The level of the highest score, the quotients compared by products; the
\* deepest one has no score.
CompactionLevel(v) ==
    LET best[n \in 0 .. NumLevels - 2] ==
            IF n = 0 THEN 0
            ELSE IF Files(v, n) * Limit(best[n - 1]) > Files(v, best[n - 1]) * Limit(n)
                 THEN n ELSE best[n - 1]
    IN  best[NumLevels - 2]

SizeCompaction(v) ==
    Files(v, CompactionLevel(v)) >= Limit(CompactionLevel(v))

-----------------------------------------------------------------------------
(* Choosing the inputs of a compaction.                                     *)

Entries(files) == UNION {f.entries : f \in ToSet(files)}
GetRange(files) == [entries |-> Entries(files)]

\* Mutant: compacts a file and leaves behind the file that holds the older
\* versions of its last key.
NoBoundaryInputs(level_files, compaction_files) == compaction_files

\* Adds the files that continue the last user key of the inputs.
AddBoundaryInputs(level_files, compaction_files) ==
    LET boundary(files) ==
            LET largest_key == Largest(GetRange(files))
            IN  {f \in ToSet(level_files) :
                    /\ Before(largest_key, Smallest(f))
                    /\ Smallest(f).key = largest_key.key}
        first(fs) == CHOOSE f \in fs : \A g \in fs \ {f} : BySmallestKey(f, g)
        grow[n \in 0 .. Len(level_files)] ==
            IF n = 0 THEN compaction_files
            ELSE LET files == grow[n - 1]
                     next == boundary(files)
                 IN  IF next = {} THEN files ELSE Append(files, first(next))
    IN  IF compaction_files = <<>> THEN <<>> ELSE grow[Len(level_files)]

\* The files of a level that overlap the range of some files.
Overlapping(v, level, files) ==
    LET across(range) == GetOverlappingInputs(v, level, Smallest(range).key,
                                              Largest(range).key)
    IN  across(GetRange(files))

\* The inputs of the level grow when that adds no file of the next one.
Expand(v, level, inputs0, inputs1, expanded0) ==
    IF /\ inputs1 # <<>>
       /\ Len(expanded0) > Len(inputs0)
       /\ TotalFileSize(inputs1) + TotalFileSize(expanded0) < ExpandLimit
       /\ Len(Overlapping(v, level + 1, expanded0)) = Len(inputs1)
    THEN <<expanded0, Overlapping(v, level + 1, expanded0)>>
    ELSE <<inputs0, inputs1>>

\* The inputs of both levels, their grandparents, and the largest key, where
\* the next compaction of the level goes on.
SetupOtherInputs(v, level, picked) ==
    LET below(inputs0) == Overlapping(v, level + 1, inputs0)
        grown(inputs0, inputs1) ==
            AddBoundaryInputs(v[level], Overlapping(v, level, inputs0 \o inputs1))
        both(inputs0, inputs1) ==
            Expand(v, level, inputs0, inputs1, grown(inputs0, inputs1))
        found(inputs0) == both(inputs0, below(inputs0))
        chosen(inputs) ==
            [level |-> level, inputs |-> inputs,
             largest |-> Largest(GetRange(inputs[1])),
             grandparents |-> IF level + 2 < NumLevels
                              THEN Overlapping(v, level + 2, inputs[1] \o inputs[2])
                              ELSE <<>>]
    IN  chosen(found(AddBoundaryInputs(v[level], picked)))

\* Mutant: of level 0 too only the picked file is compacted.
PickOneFile(v, pointer, seek) ==
    LET level == IF SizeCompaction(v) THEN CompactionLevel(v)
                 ELSE (CHOOSE s \in seek : TRUE).level
        after == {i \in DOMAIN v[level] :
                    \A p \in pointer[level] : Before(p, Largest(v[level][i]))}
        picked == IF ~SizeCompaction(v) THEN (CHOOSE s \in seek : TRUE).file
                  ELSE v[level][IF after = {} THEN 1 ELSE Min(after)]
    IN  SetupOtherInputs(v, level, <<picked>>)

\* pointer[level] is where the last compaction of the level ended, or {}.
\* seek is the file that too many reads went through without a hit, or {}.
PickCompaction(v, pointer, seek) ==
    LET level == IF SizeCompaction(v) THEN CompactionLevel(v)
                 ELSE (CHOOSE s \in seek : TRUE).level
        after == {i \in DOMAIN v[level] :
                    \A p \in pointer[level] : Before(p, Largest(v[level][i]))}
        picked == IF ~SizeCompaction(v) THEN (CHOOSE s \in seek : TRUE).file
                  ELSE v[level][IF after = {} THEN 1 ELSE Min(after)]
        range == GetRange(<<picked>>)
    IN  SetupOtherInputs(v, level,
            IF level = 0
            THEN GetOverlappingInputs(v, 0, Smallest(range).key, Largest(range).key)
            ELSE <<picked>>)

\* The inputs of a manual compaction: below level 0 no more files than make
\* up one table.
CompactRangeInputs(v, level, begin, end) ==
    LET inputs == GetOverlappingInputs(v, level, begin, end)
        full == {i \in DOMAIN inputs :
                    TotalFileSize(SubSeq(inputs, 1, i)) >= TargetFileSize}
    IN  IF level = 0 \/ full = {} THEN inputs
        ELSE SubSeq(inputs, 1, Min(full))

IsTrivialMove(c) ==
    /\ Len(c.inputs[1]) = 1 /\ c.inputs[2] = <<>>
    /\ TotalFileSize(c.grandparents) <= GrandParentLimit

-----------------------------------------------------------------------------
(* DBImpl::DoCompactionWork.                                                *)

\* No table of a deeper level than the outputs spans the key.
IsBaseLevelForKey(v, level, key) ==
    \A lvl \in level + 2 .. NumLevels - 1 :
        LET reach == {i \in DOMAIN v[lvl] : ~AfterFile(key, v[lvl][i])}
        IN  reach = {} \/ BeforeFile(key, v[lvl][Min(reach)])

\* Mutant: drops every entry that has a newer one, snapshots or not.
DropOverwritten(c, smallest_snapshot, e) ==
    \E d \in Entries(c.inputs[1] \o c.inputs[2]) : d.key = e.key /\ d.seq > e.seq

\* An entry goes when a newer one hides it from every snapshot, or when it is
\* a deletion marker with nothing below to hide.
Drop(c, smallest_snapshot, e) ==
    \/ \E d \in Entries(c.inputs[1] \o c.inputs[2]) :
            d.key = e.key /\ d.seq > e.seq /\ d.seq <= smallest_snapshot
    \/ /\ e.type = kTypeDeletion /\ e.seq <= smallest_snapshot
       /\ IsBaseLevelForKey(c.version, c.level, e.key)

\* One output: the open table is closed before an entry that begins a new
\* stretch of grandparents, and after one that fills it.
Add(c, smallest_snapshot, w, e) ==
    LET passed == {i \in DOMAIN c.grandparents :
                    /\ i >= w.grandparent_index
                    /\ \A j \in w.grandparent_index .. i :
                        Before(Largest(c.grandparents[j]), e)}
        skipped == [i \in 1 .. Cardinality(passed) |->
                        c.grandparents[w.grandparent_index + i - 1]]
        overlapped == w.overlapped
                        + (IF w.seen_key THEN TotalFileSize(skipped) ELSE 0)
        stop == overlapped > GrandParentLimit
        split == stop /\ w.open # {}
        keep == ~Drop(c, smallest_snapshot, e)
        open == (IF split THEN {} ELSE w.open) \cup (IF keep THEN {e} ELSE {})
        full == keep /\ Cardinality(open) >= TargetFileSize
    IN  [outputs |-> w.outputs \o (IF split THEN <<w.open>> ELSE <<>>)
                        \o (IF full THEN <<open>> ELSE <<>>),
         open |-> IF full THEN {} ELSE open,
         grandparent_index |-> w.grandparent_index + Cardinality(passed),
         overlapped |-> IF stop THEN 0 ELSE overlapped,
         seen_key |-> TRUE]

\* The contents of the tables a compaction writes.
DoCompactionWork(c, smallest_snapshot) ==
    LET input == Sorted(Entries(c.inputs[1] \o c.inputs[2]), Before)
        start == [outputs |-> <<>>, open |-> {}, grandparent_index |-> 1,
                  overlapped |-> 0, seen_key |-> FALSE]
        after[n \in 0 .. Len(input)] ==
            IF n = 0 THEN start
            ELSE LET w == after[n - 1] IN Add(c, smallest_snapshot, w, input[n])
        end == after[Len(input)]
    IN  end.outputs \o (IF end.open = {} THEN <<>> ELSE <<end.open>>)
=============================================================================
