---------------------------- MODULE RecoveryProofs ----------------------------
(* Theorems about Recovery, for any size of the memtable and any number of  *)
(* writes, crashes and iterators.                                           *)
EXTENDS Recovery, FiniteSetTheorems, SequenceTheorems, WellFoundedInduction, TLAPS

-----------------------------------------------------------------------------
(* What the variables are.                                                  *)

\* A record of a manifest, each of which describes the whole version.
Edit == [log : Nat, next : Nat, last : Nat, tables : SUBSET Nat]

Content(kind) ==
    CASE kind = "log" -> Entry
      [] kind = "table" -> SUBSET Entry
      [] kind = "manifest" -> Edit
      [] kind = "temp" -> Nat

File(kind) == [records : Seq(Content(kind)), durable : Nat]

Dir == [names : SUBSET Name, current : Nat]

Dirs == {directories[k] : k \in DOMAIN directories}

DiskType ==
    /\ DOMAIN files \subseteq Name /\ <<"log", 0>> \notin DOMAIN files
    /\ \A n \in DOMAIN files :
        files[n] \in File(n[1]) /\ files[n].durable <= Len(files[n].records)
    /\ directories \in Seq(Dir) /\ directories # <<>>
    /\ \A D \in Dirs : D.names \subseteq DOMAIN files

Pc == {"down", "newDB", "current", "rename", "recover", "replay", "build", "sync",
       "apply", "syncManifest", "install", "clean", "idle", "merge", "broken"}

Database ==
    [opened : BOOLEAN, described : BOOLEAN, next : Nat, log : Nat, logNumber : Nat,
     manifest : Nat, last : Nat, version : SUBSET Nat, mem : SUBSET Entry,
     imm : SUBSET Entry, todo : SUBSET Nat, position : Nat,
     work : {"replay", "flush", "merge"}, output : Nat,
     edit : [add : SUBSET Nat, delete : SUBSET Nat, log : Nat], pending : SUBSET Nat,
     inputs : SUBSET Nat, left : SUBSET Entry, outputs : SUBSET Nat, builder : Nat]

MemoryType ==
    /\ pc \in Pc /\ db \in Database /\ (pc \in {"idle", "merge"} => db.opened)
    /\ writer \in {NoWrite} \cup [entry : Entry, sync : BOOLEAN]
    /\ pins \subseteq Nat \X SUBSET Nat
    /\ calls \in 0 .. MaxWrites /\ crashes \in Nat /\ iterators \in Nat

-----------------------------------------------------------------------------
(* What a crash may leave: a directory D of those since the last Sync and a *)
(* record r of its manifest, the last one that is left of it.               *)

Manifest(D) == <<"manifest", D.current>>
Edits(D) == files[Manifest(D)].records
Possible(D) ==
    {Edits(D)[p] : p \in {p \in 1 .. Len(Edits(D)) : files[Manifest(D)].durable <= p}}

\* What a kill leaves.
Readable == Directory.current # 0 /\ Edits(Directory) # <<>>
Latest == Edits(Directory)[Len(Edits(Directory))]

\* The entries of a log, those a Sync covers, and the logs that recovery reads.
LogEntries(n) == {files[<<"log", n>>].records[i] : i \in 1 .. Len(files[<<"log", n>>].records)}
SyncedEntries(n) == {files[<<"log", n>>].records[i] : i \in 1 .. files[<<"log", n>>].durable}
LiveLogs(D, r) == {n[2] : n \in {n \in D.names : n[1] = "log" /\ r.log <= n[2]}}

Tables(numbers) == UNION {Table(t) : t \in numbers}
Held(D, r) == Tables(r.tables) \cup UNION {LogEntries(n) : n \in LiveLogs(D, r)}
KeptBy(D, r) == Tables(r.tables) \cup UNION {SyncedEntries(n) : n \in LiveLogs(D, r)}
Writes(entries) == {e.write : e \in entries}

\* The table is whole and on the disk.
Whole(t, names) ==
    /\ <<"table", t>> \in names
    /\ files[<<"table", t>>].durable = 1 /\ Len(files[<<"table", t>>].records) = 1
    /\ Table(t) # {}

-----------------------------------------------------------------------------
(* The disk.                                                                *)

\* CURRENT names a manifest that is there; only the first one may be empty,
\* and unborn tells.
DirInv ==
    \A D \in Dirs :
        /\ D.current = 0 => synced = {} /\ \A n \in Nat : <<"log", n>> \notin D.names
        /\ D.current # 0 => /\ Manifest(D) \in D.names
                            /\ Edits(D) = <<>> => unborn
                            /\ D.current = 1 \/ files[Manifest(D)].durable >= 1
                            /\ Directory.current # 0
                            /\ Edits(D) # <<>> => Readable

\* Each image can be opened ...
ImageInv ==
    \A D \in Dirs : D.current # 0 => \A r \in Possible(D) :
        /\ D.current < r.next /\ r.log < r.next
        /\ \A t \in r.tables : /\ Whole(t, D.names) /\ 0 < t /\ t < r.next
                               /\ \A e \in Table(t) : e.sequence <= r.last

\* ... and has the writes that were synced.
SyncedInv ==
    \A D \in Dirs : D.current # 0 =>
        \A r \in Possible(D) : synced \subseteq Writes(KeptBy(D, r))

\* No image has a number or an entry above those of the latest but in logs
\* that the latest reads too.
LatestInv ==
    \A D \in Dirs : D.current # 0 => \A r \in Possible(D) :
        /\ r.next <= Latest.next /\ r.last <= Latest.last
        /\ \A n \in LiveLogs(D, r) :
            \/ n < Latest.next /\ \A e \in LogEntries(n) : e.sequence <= Latest.last
            \/ n \in LiveLogs(Directory, Latest)

\* No two entries of the images have one sequence number.
UniqueInv ==
    \A D, E \in Dirs : D.current # 0 /\ E.current # 0 =>
        \A r \in Possible(D), s \in Possible(E) :
            \A e \in Held(D, r), f \in Held(E, s) : e.sequence = f.sequence => e = f

\* A kill loses no write that returned.
AckInv ==
    /\ synced \subseteq acked /\ acked \subseteq 1 .. calls
    /\ Directory.current = 0 => acked = {}
    /\ Readable => acked \subseteq Writes(Held(Directory, Latest))

ImagesInv == ImageInv /\ SyncedInv /\ LatestInv /\ UniqueInv

DiskInv == DiskType /\ DirInv /\ ImagesInv /\ AckInv

-----------------------------------------------------------------------------
(* The memory.                                                              *)

\* DB::Open before it has read the manifest.
Opening ==
    \/ pc \in {"down", "newDB", "recover", "broken"}
    \/ pc \in {"current", "rename"} /\ ~db.described

FirstEdit == [log |-> 0, next |-> 2, last |-> 0, tables |-> {}]

OpeningInv ==
    Opening =>
        /\ db = Closed /\ writer = NoWrite /\ pins = {}
        /\ pc \in {"newDB", "current", "rename"} => Directory.current = 0
        /\ pc \in {"current", "rename"} =>
            /\ <<"manifest", 1>> \in Directory.names
            /\ files[<<"manifest", 1>>].records = <<FirstEdit>>
        /\ pc = "recover" => Directory.current # 0
        /\ pc = "broken" => unborn

\* The last sequence number given to an entry.
LastGiven == IF writer = NoWrite THEN db.last ELSE writer.entry.sequence

\* What the database holds in memory is of the latest image, and the numbers it
\* will give are above all that this image has.
RunningInv ==
    ~Opening =>
        /\ Readable
        /\ Latest.next <= db.next /\ Latest.last <= db.last /\ db.manifest < db.next
        /\ \A t \in db.version \cup db.edit.add :
            /\ Whole(t, Directory.names) /\ 0 < t /\ t < db.next
            /\ \A e \in Table(t) : e.sequence <= db.last
        /\ \A e \in db.mem \cup db.imm : e.sequence <= db.last
        /\ Contents \cup Tables(db.edit.add) \subseteq Held(Directory, Latest)
        /\ \A n \in LiveLogs(Directory, Latest) \ db.todo :
            n < db.next /\ \A e \in LogEntries(n) : e.sequence <= LastGiven

Replaying == pc = "replay" \/ (pc \in {"build", "sync"} /\ ~db.opened)

\* What was replayed is in the memtable or in the tables of the edit.
ReplayInv ==
    Replaying =>
        /\ ~db.opened /\ ~db.described /\ db.work = "replay" /\ writer = NoWrite /\ pins = {}
        /\ db.imm = {} /\ db.edit.delete = {}
        /\ db.version = Latest.tables /\ db.manifest = Latest.next
        /\ db.todo \subseteq LiveLogs(Directory, Latest)
        /\ db.todo = {} => db.mem = {}
        /\ \A n \in LiveLogs(Directory, Latest) \ db.todo :
                LogEntries(n) \subseteq db.mem \cup Tables(db.edit.add)
        /\ db.todo # {} =>
            LET log == files[<<"log", Smallest(db.todo)>>].records
            IN  /\ db.position <= Len(log)
                /\ \A i \in 1 .. db.position : log[i] \in db.mem \cup Tables(db.edit.add)
        /\ pc \in {"build", "sync"} => db.mem # {}
        /\ pc = "sync" => /\ <<"table", db.output>> \in Directory.names
                          /\ files[<<"table", db.output>>].records = <<db.mem>>
                          /\ 0 < db.output /\ db.output < db.next

\* The tables of the version that the edit leads to.
NewTables == (db.version \cup db.edit.add) \ db.edit.delete

NewEdit == [log |-> db.edit.log, next |-> db.next, last |-> db.last, tables |-> NewTables]

Recovering ==
    /\ ~db.opened
    /\ \/ pc \in {"apply", "syncManifest", "install", "clean"}
       \/ pc \in {"current", "rename"} /\ db.described

\* Every write is in a table; the new log is empty; the new manifest is written
\* and synced before CURRENT names it.
RecoveringInv ==
    Recovering =>
        /\ writer = NoWrite /\ pins = {} /\ db.todo = {}
        /\ db.mem = {} /\ db.imm = {} /\ db.edit.delete = {}
        /\ <<"log", db.log>> \in Directory.names
        /\ files[<<"log", db.log>>].records = <<>> /\ db.next = db.log + 1
        /\ acked \subseteq Writes(Tables(NewTables))
        /\ pc # "clean" => db.edit.log = db.log
        /\ pc \in {"apply", "syncManifest", "current", "rename"} => db.manifest = Latest.next
        /\ pc \in {"apply", "syncManifest"} => ~db.described
        /\ pc \in {"syncManifest", "current", "rename"} =>
            /\ <<"manifest", db.manifest>> \in Directory.names
            /\ files[<<"manifest", db.manifest>>].records = <<NewEdit>>
        /\ pc \in {"current", "rename"} => files[<<"manifest", db.manifest>>].durable = 1
        /\ pc \in {"install", "clean"} =>
            /\ db.described /\ Directory.current = db.manifest
            /\ Possible(Directory) = {Latest}
            /\ Latest.tables = NewTables /\ Latest.log = db.log
        /\ pc = "clean" => db.edit = NoEdit /\ db.logNumber = db.log

\* The open database: its memtables are of its logs; a write that returned is in
\* them or in a table, a synced one in the synced part of the log.
OpenInv ==
    db.opened =>
        /\ pc \in {"idle", "merge", "build", "sync", "apply", "syncManifest", "install", "clean"}
        /\ db.described /\ Directory.current = db.manifest /\ db.todo = {}
        /\ <<"log", db.log>> \in Directory.names /\ db.log < db.next
        /\ db.logNumber <= db.log /\ \A r \in Possible(Directory) : r.log <= db.log
        /\ \A n \in LiveLogs(Directory, Latest) : n <= db.log
        /\ db.mem \subseteq LogEntries(db.log)
        /\ IF writer = NoWrite THEN LogEntries(db.log) \subseteq db.mem
           ELSE /\ LogEntries(db.log) \subseteq db.mem \cup {writer.entry}
                /\ writer.entry \in LogEntries(db.log)
                /\ writer.entry.sequence = db.last + 1 /\ writer.entry.write <= calls
        /\ \A n \in LiveLogs(Directory, Latest) \ {db.log} :
                \A e \in LogEntries(n) : e.sequence <= db.last
        /\ acked \subseteq Writes(Contents)
        /\ synced \subseteq Writes(Tables(db.version) \cup db.imm \cup SyncedEntries(db.log))
        /\ \A t \in Pinned : /\ <<"table", t>> \in Directory.names /\ Table(t) # {}
                             /\ 0 < t /\ t < db.next

\* The flush of the memtable, and the edit of a flush or a merge.
WorkInv ==
    db.opened =>
        /\ pc \in {"idle", "merge", "clean"} => db.edit = NoEdit
        /\ pc \in {"build", "sync"} => db.work = "flush" /\ db.edit = NoEdit
        /\ pc \notin {"idle", "merge", "clean"} =>
            /\ db.work \in {"flush", "merge"}
            /\ db.work = "flush" => db.imm # {} /\ db.edit.delete = {}
        /\ pc # "syncManifest" => Possible(Directory) = {Latest}
        /\ pc \notin {"syncManifest", "install"} =>
                Latest.tables = db.version /\ Latest.log = db.logNumber
        /\ pc \in {"syncManifest", "install"} =>
                Latest.tables = NewTables /\ Latest.log = db.edit.log
        /\ pc = "sync" =>
            /\ <<"table", db.output>> \in Directory.names
            /\ files[<<"table", db.output>>].records = <<db.imm>>
            /\ 0 < db.output /\ db.output < db.next
        /\ pc \in {"apply", "syncManifest", "install"} =>
            /\ db.edit.delete \subseteq db.version /\ db.edit.add \cap db.edit.delete = {}
            /\ db.edit.log = IF db.work = "merge" THEN db.logNumber ELSE db.log
            /\ Tables(db.edit.add)
                    = IF db.work = "merge" THEN Tables(db.edit.delete) ELSE db.imm
        /\ pc = "apply" => \A D \in Dirs :
            /\ D.current = db.manifest /\ \A t \in db.edit.add : Whole(t, D.names)
            /\ db.work = "flush" => <<"log", db.log>> \in D.names

\* The outputs of a merge, the one that is open too.
Produced == db.outputs \cup ({db.builder} \ {0})

\* The outputs of a merge and what is left have the entries of its inputs, which
\* are still in the version; the finished ones are whole, in every directory that
\* a crash may leave.
MergingInv ==
    /\ db.inputs \subseteq db.version /\ Produced \subseteq db.pending
    /\ Produced \cap db.inputs = {}
    /\ Tables(Produced) \cup db.left = Tables(db.inputs)
    /\ db.builder # 0 =>
        /\ <<"table", db.builder>> \in Directory.names
        /\ Len(files[<<"table", db.builder>>].records) = 1 /\ Table(db.builder) # {}
    /\ \A t \in db.outputs : \A D \in Dirs : D.current = db.manifest /\ Whole(t, D.names)
    /\ pc = "sync" => db.output \notin Produced

MergeInv ==
    /\ \A t \in db.pending : 0 < t /\ t < db.next
    /\ ~db.opened => db.inputs = {}
    /\ pc = "merge" => db.inputs # {}
    /\ db.inputs # {} => MergingInv

Core == /\ DiskInv /\ MemoryType
        /\ OpeningInv /\ RunningInv /\ ReplayInv /\ RecoveringInv /\ OpenInv /\ WorkInv

Inv == Core /\ MergeInv

-----------------------------------------------------------------------------
(* Shapes.                                                                  *)

LEMMA DirectoryShape ==
    ASSUME DiskType
    PROVE  /\ Len(directories) \in Nat \ {0} /\ Directory \in Dirs
           /\ \A D \in Dirs : D \in Dir /\ D.names \subseteq Name /\ D.current \in Nat
           /\ \A D \in Dirs : D.names \subseteq DOMAIN files /\ <<"log", 0>> \notin D.names
<1>1. Len(directories) \in Nat \ {0} /\ DOMAIN directories = 1 .. Len(directories)
  BY DEF DiskType
<1>2. \A k \in DOMAIN directories : directories[k] \in Dir
  BY <1>1 DEF DiskType
<1>3. Directory \in Dirs BY <1>1 DEF Directory, Dirs
<1>4. \A D \in Dirs : D \in Dir BY <1>2 DEF Dirs
<1>5. \A D \in Dirs : D.names \subseteq Name /\ D.current \in Nat BY <1>4 DEF Dir
<1>6. \A D \in Dirs : D.names \subseteq DOMAIN files /\ <<"log", 0>> \notin D.names
  BY DEF DiskType
<1> QED BY <1>1, <1>3, <1>4, <1>5, <1>6

\* Of a file's name to what it holds.
LEMMA FileShape ==
    ASSUME DiskType, NEW n \in Nat
    PROVE  /\ <<"log", n>> \in DOMAIN files =>
                /\ n # 0 /\ files[<<"log", n>>].records \in Seq(Entry)
                /\ files[<<"log", n>>].durable \in 0 .. Len(files[<<"log", n>>].records)
           /\ <<"table", n>> \in DOMAIN files =>
                /\ files[<<"table", n>>].records \in Seq(SUBSET Entry)
                /\ files[<<"table", n>>].durable \in 0 .. Len(files[<<"table", n>>].records)
           /\ <<"manifest", n>> \in DOMAIN files =>
                /\ files[<<"manifest", n>>].records \in Seq(Edit)
                /\ files[<<"manifest", n>>].durable
                        \in 0 .. Len(files[<<"manifest", n>>].records)
<1>1. ASSUME NEW kind \in {"log", "table", "manifest", "temp"},
             <<kind, n>> \in DOMAIN files
      PROVE  /\ files[<<kind, n>>].records \in Seq(Content(kind))
             /\ files[<<kind, n>>].durable \in 0 .. Len(files[<<kind, n>>].records)
  <2>1. files[<<kind, n>>] \in File(kind)
        /\ files[<<kind, n>>].durable <= Len(files[<<kind, n>>].records)
    BY <1>1 DEF DiskType
  <2> QED BY <2>1 DEF File
<1>2. Content("log") = Entry /\ Content("table") = SUBSET Entry /\ Content("manifest") = Edit
  BY DEF Content
<1>3. <<"log", n>> \in DOMAIN files => n # 0 BY DEF DiskType
<1> QED BY <1>1, <1>2, <1>3

LEMMA LiveLog ==
    ASSUME DiskType, NEW D \in Dirs, NEW r, NEW n
    PROVE  n \in LiveLogs(D, r) <=> n \in Nat /\ <<"log", n>> \in D.names /\ r.log <= n
<1>1. D.names \subseteq Name BY DirectoryShape
<1> QED BY <1>1 DEF LiveLogs, Name

LEMMA LogShape ==
    ASSUME DiskType, NEW D \in Dirs, NEW r, NEW n \in LiveLogs(D, r)
    PROVE  /\ n \in Nat \ {0} /\ <<"log", n>> \in D.names /\ <<"log", n>> \in DOMAIN files
           /\ files[<<"log", n>>].records \in Seq(Entry)
           /\ LogEntries(n) \subseteq Entry /\ SyncedEntries(n) \subseteq LogEntries(n)
<1>1. n \in Nat /\ <<"log", n>> \in D.names BY LiveLog
<1>2. <<"log", n>> \in DOMAIN files BY <1>1, DirectoryShape
<1>3. /\ files[<<"log", n>>].records \in Seq(Entry) /\ n # 0
      /\ files[<<"log", n>>].durable \in 0 .. Len(files[<<"log", n>>].records)
  BY <1>1, <1>2, FileShape
<1> QED BY <1>1, <1>2, <1>3 DEF LogEntries, SyncedEntries

LEMMA TableShape ==
    ASSUME DiskType, NEW t \in Nat, <<"table", t>> \in DOMAIN files
    PROVE  Table(t) \subseteq Entry
<1>1. files[<<"table", t>>].records \in Seq(SUBSET Entry) BY FileShape
<1>2. CASE files[<<"table", t>>].records = <<>> BY <1>2 DEF Table
<1>3. CASE files[<<"table", t>>].records # <<>>
  <2>1. 1 \in 1 .. Len(files[<<"table", t>>].records) BY <1>1, <1>3
  <2> QED BY <1>1, <1>3, <2>1 DEF Table
<1> QED BY <1>2, <1>3

\* The manifest of an image.
LEMMA ManifestShape ==
    ASSUME DiskType, DirInv, NEW D \in Dirs, D.current # 0
    PROVE  /\ Manifest(D) \in DOMAIN files /\ Manifest(D) \in D.names
           /\ Edits(D) \in Seq(Edit) /\ Len(Edits(D)) \in Nat
           /\ files[Manifest(D)].durable \in 0 .. Len(Edits(D))
           /\ Possible(D) \subseteq Edit
           /\ Edits(D) # <<>> => Edits(D)[Len(Edits(D))] \in Possible(D)
           /\ \A r \in Possible(D) : Edits(D) # <<>>
<1>1. D.current \in Nat /\ Manifest(D) \in D.names /\ Manifest(D) \in DOMAIN files
  BY DirectoryShape DEF DirInv
<1>2. /\ Edits(D) \in Seq(Edit)
      /\ files[Manifest(D)].durable \in 0 .. Len(Edits(D))
  BY <1>1, FileShape DEF Manifest, Edits
<1> QED BY <1>1, <1>2 DEF Possible

LEMMA LatestShape ==
    ASSUME DiskType, DirInv, Readable
    PROVE  /\ Directory \in Dirs /\ Directory.current # 0
           /\ Latest \in Possible(Directory) /\ Latest \in Edit
BY DirectoryShape, ManifestShape DEF Readable, Latest

\* The entries of an image.
LEMMA HeldShape ==
    ASSUME DiskType, NEW D \in Dirs, NEW r \in Edit,
           \A t \in r.tables : <<"table", t>> \in DOMAIN files
    PROVE  /\ Held(D, r) \subseteq Entry /\ KeptBy(D, r) \subseteq Held(D, r)
           /\ Tables(r.tables) \subseteq Entry
<1>1. r.tables \subseteq Nat BY DEF Edit
<1>2. Tables(r.tables) \subseteq Entry BY <1>1, TableShape DEF Tables
<1>3. \A n \in LiveLogs(D, r) : LogEntries(n) \subseteq Entry /\ SyncedEntries(n) \subseteq LogEntries(n)
  BY LogShape
<1>4. UNION {LogEntries(n) : n \in LiveLogs(D, r)} \subseteq Entry BY <1>3
<1>5. UNION {SyncedEntries(n) : n \in LiveLogs(D, r)} \subseteq UNION {LogEntries(n) : n \in LiveLogs(D, r)}
  BY <1>3
<1> QED BY <1>2, <1>4, <1>5 DEF Held, KeptBy

-----------------------------------------------------------------------------
(* The operations on files and directories.                                 *)

LEMMA Extended ==
    ASSUME DiskType, NEW D \in Dir, directories' = Append(directories, D)
    PROVE  /\ directories' \in Seq(Dir) /\ directories' # <<>>
           /\ Directory' = D /\ Dirs' = Dirs \cup {D}
<1>1. /\ directories' \in Seq(Dir) /\ Len(directories') = Len(directories) + 1
      /\ Len(directories) \in Nat /\ DOMAIN directories = 1 .. Len(directories)
      /\ DOMAIN directories' = 1 .. Len(directories) + 1
      /\ \A k \in 1 .. Len(directories) : directories'[k] = directories[k]
      /\ directories'[Len(directories) + 1] = D
  BY DEF DiskType
<1>2. Directory' = D BY <1>1 DEF Directory
<1>3. \A d : d \in Dirs' <=> d \in Dirs \/ d = D
  <2> SUFFICES ASSUME NEW d PROVE d \in Dirs' <=> d \in Dirs \/ d = D OBVIOUS
  <2>1. d \in Dirs' <=> \E k \in 1 .. Len(directories) + 1 : directories'[k] = d
    BY <1>1 DEF Dirs
  <2>2. d \in Dirs <=> \E k \in 1 .. Len(directories) : directories[k] = d
    BY <1>1 DEF Dirs
  <2>3. 1 .. Len(directories) + 1 = 1 .. Len(directories) \cup {Len(directories) + 1}
    BY <1>1
  <2> QED BY <1>1, <2>1, <2>2, <2>3
<1>4. directories' # <<>> BY <1>1
<1> QED BY <1>1, <1>2, <1>3, <1>4

LEMMA Single ==
    ASSUME NEW D \in Dir, directories' = <<D>>
    PROVE  /\ directories' \in Seq(Dir) /\ directories' # <<>>
           /\ Directory' = D /\ Dirs' = {D}
BY DEF Directory, Dirs

\* A new file, in the directory as it is from then on.
LEMMA Creates ==
    ASSUME DiskType, NEW name \in Name, name # <<"log", 0>>,
           NEW records \in Seq(Content(name[1])), Create(name, records)
    PROVE  /\ DiskType'
           /\ Directory'.names = Directory.names \cup {name}
           /\ Directory'.current = Directory.current
           /\ Dirs' = Dirs \cup {Directory'}
           /\ DOMAIN files' = DOMAIN files \cup {name}
           /\ \A n \in DOMAIN files \ {name} : files'[n] = files[n]
           /\ files'[name] = [records |-> records, durable |-> 0]
<1> DEFINE D == [Directory EXCEPT !.names = @ \cup {name}]
<1>1. Directory \in Dirs /\ Directory \in Dir BY DirectoryShape
<1>2. D \in Dir /\ D.names = Directory.names \cup {name} /\ D.current = Directory.current
  BY <1>1 DEF Dir
<1>3. directories' = Append(directories, D) BY DEF Create
<1>4. directories' \in Seq(Dir) /\ directories' # <<>> /\ Directory' = D /\ Dirs' = Dirs \cup {D}
  BY <1>2, <1>3, Extended
<1>5. /\ DOMAIN files' = DOMAIN files \cup {name}
      /\ \A n \in DOMAIN files \ {name} : files'[n] = files[n]
      /\ files'[name] = [records |-> records, durable |-> 0]
  BY DEF Create
<1>6. DOMAIN files' \subseteq Name /\ <<"log", 0>> \notin DOMAIN files'
  BY <1>5 DEF DiskType
<1>7. ASSUME NEW n \in DOMAIN files'
      PROVE  files'[n] \in File(n[1]) /\ files'[n].durable <= Len(files'[n].records)
  <2>1. CASE n = name BY <1>5, <2>1 DEF File
  <2>2. CASE n # name BY <1>5, <2>2 DEF DiskType
  <2> QED BY <2>1, <2>2
<1>8. \A d \in Dirs' : d.names \subseteq DOMAIN files'
  BY <1>1, <1>2, <1>4, <1>5 DEF DiskType
<1>9. DiskType' BY <1>4, <1>6, <1>7, <1>8 DEF DiskType
<1> QED BY <1>2, <1>4, <1>5, <1>9

\* A Sync of a file makes it and the directory durable.
LEMMA Synchronises ==
    ASSUME NEW fs, NEW D \in Dir, NEW name \in D.names, D.names \subseteq Name,
           <<"log", 0>> \notin D.names,
           \A n \in D.names : fs[n] \in File(n[1]) /\ fs[n].durable <= Len(fs[n].records),
           Sync(fs, name, D)
    PROVE  /\ DiskType' /\ Directory' = D /\ Dirs' = {D} /\ DOMAIN files' = D.names
           /\ \A n \in D.names \ {name} : files'[n] = fs[n]
           /\ files'[name].records = fs[name].records
           /\ files'[name].durable = Len(fs[name].records)
<1>1. directories' \in Seq(Dir) /\ directories' # <<>> /\ Directory' = D /\ Dirs' = {D}
  BY Single DEF Sync
<1>2. /\ DOMAIN files' = D.names
      /\ \A n \in D.names \ {name} : files'[n] = fs[n]
      /\ files'[name] = [fs[name] EXCEPT !.durable = Len(fs[name].records)]
  BY DEF Sync
<1>3. fs[name] \in File(name[1]) OBVIOUS
<1>4. /\ files'[name].records = fs[name].records
      /\ files'[name].durable = Len(fs[name].records)
      /\ files'[name] \in File(name[1])
  BY <1>2, <1>3 DEF File
<1>5. files'[name].durable <= Len(files'[name].records) BY <1>3, <1>4 DEF File
<1>6. \A n \in DOMAIN files' : files'[n] \in File(n[1]) /\ files'[n].durable <= Len(files'[n].records)
  BY <1>2, <1>4, <1>5
<1>7. DiskType' BY <1>1, <1>2, <1>6 DEF DiskType
<1> QED BY <1>1, <1>2, <1>4, <1>7

LEMMA Syncs ==
    ASSUME DiskType, NEW name \in Directory.names, Sync(files, name, Directory)
    PROVE  /\ DiskType' /\ Directory' = Directory /\ Dirs' = {Directory}
           /\ DOMAIN files' = Directory.names
           /\ \A n \in Directory.names :
                files'[n].records = files[n].records /\ (n # name => files'[n] = files[n])
           /\ files'[name].durable = Len(files[name].records)
<1>1. /\ Directory \in Dir /\ Directory.names \subseteq Name
      /\ Directory.names \subseteq DOMAIN files /\ <<"log", 0>> \notin Directory.names
  BY DirectoryShape
<1>2. \A n \in Directory.names : files[n] \in File(n[1]) /\ files[n].durable <= Len(files[n].records)
  BY <1>1 DEF DiskType
<1> QED BY <1>1, <1>2, Synchronises

\* A record at the end of a file.
LEMMA Appends ==
    ASSUME DiskType, NEW name \in DOMAIN files, NEW record \in Content(name[1]),
           AppendTo(name, record), UNCHANGED directories
    PROVE  /\ DiskType' /\ Directory' = Directory /\ Dirs' = Dirs
           /\ DOMAIN files' = DOMAIN files
           /\ \A n \in DOMAIN files \ {name} : files'[n] = files[n]
           /\ files'[name].durable = files[name].durable
           /\ files'[name].records = Append(files[name].records, record)
<1>1. /\ DOMAIN files' = DOMAIN files
      /\ \A n \in DOMAIN files \ {name} : files'[n] = files[n]
      /\ files'[name] = [files[name] EXCEPT !.records = Append(@, record)]
  BY DEF AppendTo
<1>2. files[name] \in File(name[1]) /\ files[name].durable <= Len(files[name].records)
  BY DEF DiskType
<1>3. /\ files'[name].durable = files[name].durable
      /\ files'[name].records = Append(files[name].records, record)
      /\ files'[name] = [records |-> Append(files[name].records, record),
                         durable |-> files[name].durable]
  BY <1>1, <1>2 DEF File
<1>4. files[name].records \in Seq(Content(name[1])) /\ files[name].durable \in Nat
  BY <1>2 DEF File
<1>5. /\ Append(files[name].records, record) \in Seq(Content(name[1]))
      /\ Len(Append(files[name].records, record)) = Len(files[name].records) + 1
      /\ Len(files[name].records) \in Nat
  BY <1>4
<1>6. files'[name] \in File(name[1]) /\ files'[name].durable <= Len(files'[name].records)
  BY <1>2, <1>3, <1>4, <1>5 DEF File
<1>7. \A n \in DOMAIN files' : files'[n] \in File(n[1]) /\ files'[n].durable <= Len(files'[n].records)
  BY <1>1, <1>6 DEF DiskType
<1>8. Directory' = Directory /\ Dirs' = Dirs BY DEF Directory, Dirs
<1>9. DiskType' BY <1>1, <1>7, <1>8 DEF DiskType
<1> QED BY <1>1, <1>3, <1>8, <1>9

\* A name that goes or changes.
LEMMA Renames ==
    ASSUME DiskType, NEW D \in Dir, D.names \subseteq Directory.names, UNCHANGED files,
           directories' = Append(directories, D)
    PROVE  DiskType' /\ Directory' = D /\ Dirs' = Dirs \cup {D}
<1>1. directories' \in Seq(Dir) /\ directories' # <<>> /\ Directory' = D /\ Dirs' = Dirs \cup {D}
  BY Extended
<1>2. \A d \in Dirs' : d.names \subseteq DOMAIN files BY <1>1, DirectoryShape
<1>3. DiskType' BY <1>1, <1>2 DEF DiskType
<1> QED BY <1>1, <1>3

-----------------------------------------------------------------------------
(* The images after a step.                                                 *)

\* The image of D and r has no more than one of E and r had before the step, and
\* all that was synced; new logs of it are empty.
ComesFrom(E, D, r) ==
    /\ E.current = D.current /\ r \in Possible(E)
    /\ \A t \in r.tables : Whole(t, E.names) => Whole(t, D.names)' /\ Table(t)' = Table(t)
    /\ LiveLogs(E, r) \subseteq LiveLogs(D, r)
    /\ \A n \in LiveLogs(D, r) :
        \/ /\ n \in LiveLogs(E, r)
           /\ LogEntries(n)' \subseteq LogEntries(n) /\ SyncedEntries(n) \subseteq SyncedEntries(n)'
        \/ /\ n \notin LiveLogs(E, r) /\ LogEntries(n)' = {}
           /\ n < Latest.next \/ n \in LiveLogs(Directory', Latest)

ImagesCome ==
    \A D \in Dirs' : D.current # 0 =>
        \A r \in Possible(D)' : \E E \in Dirs : ComesFrom(E, D, r)

LEMMA HeldComes ==
    ASSUME ImageInv, NEW D, NEW r, NEW E \in Dirs, E.current # 0, ComesFrom(E, D, r)
    PROVE  Held(D, r)' \subseteq Held(E, r) /\ KeptBy(E, r) \subseteq KeptBy(D, r)'
<1>1. \A t \in r.tables : Whole(t, D.names)' /\ Table(t)' = Table(t)
  BY DEF ComesFrom, ImageInv
<1>2. Tables(r.tables)' = Tables(r.tables) BY <1>1 DEF Tables
<1>3. \A n \in LiveLogs(D, r) : LogEntries(n)' # {} =>
            n \in LiveLogs(E, r) /\ LogEntries(n)' \subseteq LogEntries(n)
  BY DEF ComesFrom
<1>4. \A n \in LiveLogs(E, r) : n \in LiveLogs(D, r) /\ SyncedEntries(n) \subseteq SyncedEntries(n)'
  BY DEF ComesFrom
<1>5. LiveLogs(D, r)' = LiveLogs(D, r) BY DEF LiveLogs
<1>6. Held(D, r)' = Tables(r.tables)' \cup UNION {LogEntries(n)' : n \in LiveLogs(D, r)}
  BY <1>5 DEF Held
<1>7. KeptBy(D, r)' = Tables(r.tables)' \cup UNION {SyncedEntries(n)' : n \in LiveLogs(D, r)}
  BY <1>5 DEF KeptBy
<1>8. Held(D, r)' \subseteq Held(E, r) BY <1>2, <1>3, <1>6 DEF Held
<1>9. KeptBy(E, r) \subseteq KeptBy(D, r)' BY <1>2, <1>4, <1>7 DEF KeptBy
<1> QED BY <1>8, <1>9

LEMMA WritesGrow ==
    ASSUME NEW S, NEW T, S \subseteq T
    PROVE  Writes(S) \subseteq Writes(T)
BY DEF Writes

LEMMA ImagesKept ==
    ASSUME DiskType, DirInv, ImageInv, SyncedInv, UniqueInv, ImagesCome
    PROVE  /\ ImageInv' /\ UniqueInv' /\ (synced' \subseteq synced => SyncedInv')
           /\ \A D \in Dirs' : D.current # 0 =>
                \A r \in Possible(D)' : synced \subseteq Writes(KeptBy(D, r)')
<1>1. ASSUME NEW D \in Dirs', D.current # 0, NEW r \in Possible(D)'
      PROVE  \E E \in Dirs : /\ E.current # 0 /\ ComesFrom(E, D, r) /\ r \in Possible(E)
                             /\ Held(D, r)' \subseteq Held(E, r)
                             /\ KeptBy(E, r) \subseteq KeptBy(D, r)'
  <2>1. PICK E \in Dirs : ComesFrom(E, D, r) BY <1>1 DEF ImagesCome
  <2>2. E.current # 0 /\ r \in Possible(E) BY <1>1, <2>1 DEF ComesFrom
  <2> QED BY <2>1, <2>2, HeldComes
<1>2. ImageInv'
  <2> SUFFICES ASSUME NEW D \in Dirs', D.current # 0, NEW r \in Possible(D)'
               PROVE  /\ D.current < r.next /\ r.log < r.next
                      /\ \A t \in r.tables : /\ Whole(t, D.names)' /\ 0 < t /\ t < r.next
                                             /\ \A e \in Table(t)' : e.sequence <= r.last
    BY DEF ImageInv
  <2>1. PICK E \in Dirs : E.current # 0 /\ ComesFrom(E, D, r) /\ r \in Possible(E)
    BY <1>1
  <2>2. /\ E.current < r.next /\ r.log < r.next
        /\ \A t \in r.tables : /\ Whole(t, E.names) /\ 0 < t /\ t < r.next
                               /\ \A e \in Table(t) : e.sequence <= r.last
    BY <2>1 DEF ImageInv
  <2>3. /\ E.current = D.current
        /\ \A t \in r.tables : Whole(t, E.names) => Whole(t, D.names)' /\ Table(t)' = Table(t)
    BY <2>1 DEF ComesFrom
  <2> QED BY <2>2, <2>3
<1>3. UniqueInv'
  <2> SUFFICES ASSUME NEW D \in Dirs', NEW E \in Dirs', D.current # 0, E.current # 0,
                      NEW r \in Possible(D)', NEW s \in Possible(E)',
                      NEW e \in Held(D, r)', NEW f \in Held(E, s)', e.sequence = f.sequence
               PROVE  e = f
    BY DEF UniqueInv
  <2>1. PICK A \in Dirs : A.current # 0 /\ r \in Possible(A) /\ Held(D, r)' \subseteq Held(A, r)
    BY <1>1
  <2>2. PICK B \in Dirs : B.current # 0 /\ s \in Possible(B) /\ Held(E, s)' \subseteq Held(B, s)
    BY <1>1
  <2>3. e \in Held(A, r) /\ f \in Held(B, s) BY <2>1, <2>2
  <2> QED BY <2>1, <2>2, <2>3 DEF UniqueInv
<1>4. ASSUME NEW D \in Dirs', D.current # 0, NEW r \in Possible(D)'
      PROVE  synced \subseteq Writes(KeptBy(D, r)')
  <2>1. PICK E \in Dirs : /\ E.current # 0 /\ r \in Possible(E)
                          /\ KeptBy(E, r) \subseteq KeptBy(D, r)'
    BY <1>1, <1>4
  <2>2. synced \subseteq Writes(KeptBy(E, r)) BY <2>1 DEF SyncedInv
  <2>3. Writes(KeptBy(E, r)) \subseteq Writes(KeptBy(D, r)') BY <2>1, WritesGrow
  <2> QED BY <2>2, <2>3
<1>5. synced' \subseteq synced => SyncedInv'
  <2>1. \A D, r : Writes(KeptBy(D, r))' = Writes(KeptBy(D, r)') BY DEF Writes
  <2> QED BY <1>4, <2>1 DEF SyncedInv
<1> QED BY <1>2, <1>3, <1>4, <1>5

\* The latest image stays the latest, with the logs it had.
LEMMA LatestKept ==
    ASSUME DiskType, DirInv, LatestInv, ImagesCome,
           Readable => Latest' = Latest,
           Readable => LiveLogs(Directory, Latest) \subseteq LiveLogs(Directory', Latest)
    PROVE  LatestInv'
<1> SUFFICES ASSUME NEW D \in Dirs', D.current # 0, NEW r \in Possible(D)'
             PROVE  /\ r.next <= (Latest').next /\ r.last <= (Latest').last
                    /\ \A n \in LiveLogs(D, r) :
                        \/ n < (Latest').next /\ \A e \in LogEntries(n)' : e.sequence <= (Latest').last
                        \/ n \in LiveLogs(Directory', Latest')
  BY DEF LatestInv, LiveLogs
<1>1. PICK E \in Dirs : ComesFrom(E, D, r) BY DEF ImagesCome
<1>2. E.current # 0 /\ r \in Possible(E) BY <1>1 DEF ComesFrom
<1>3. Readable BY <1>2, ManifestShape DEF DirInv
<1>4. Latest' = Latest BY <1>3
<1>5. /\ r.next <= Latest.next /\ r.last <= Latest.last
      /\ \A n \in LiveLogs(E, r) :
            \/ n < Latest.next /\ \A e \in LogEntries(n) : e.sequence <= Latest.last
            \/ n \in LiveLogs(Directory, Latest)
  BY <1>2 DEF LatestInv
<1>6. ASSUME NEW n \in LiveLogs(D, r)
      PROVE  \/ n < Latest.next /\ \A e \in LogEntries(n)' : e.sequence <= Latest.last
             \/ n \in LiveLogs(Directory', Latest)
  <2>1. CASE n \notin LiveLogs(E, r) BY <1>1, <2>1 DEF ComesFrom
  <2>2. CASE n \in LiveLogs(E, r)
    <3>1. LogEntries(n)' \subseteq LogEntries(n) BY <1>1, <2>2 DEF ComesFrom
    <3> QED BY <1>3, <1>5, <2>2, <3>1
  <2> QED BY <2>1, <2>2
<1> QED BY <1>4, <1>5, <1>6

\* The step leaves the latest image as it is, but for new and empty logs.
View(new) ==
    /\ Directory'.current = Directory.current /\ (Readable' <=> Readable)
    /\ Readable =>
        /\ Latest' = Latest /\ Possible(Directory)' \subseteq Possible(Directory)
        /\ LiveLogs(Directory, Latest)' = LiveLogs(Directory, Latest) \cup new
        /\ \A n \in LiveLogs(Directory, Latest) : LogEntries(n)' = LogEntries(n)
        /\ \A n \in new : LogEntries(n)' = {}
        /\ Held(Directory, Latest)' = Held(Directory, Latest)

\* A table stays what it is.
TableStays(t) ==
    <<"table", t>> \in Directory.names =>
        /\ <<"table", t>> \in Directory'.names
        /\ files'[<<"table", t>>].records = files[<<"table", t>>].records
        /\ Table(t)' = Table(t)
        /\ Whole(t, Directory.names) => Whole(t, Directory.names)'

LEMMA SameFile ==
    ASSUME NEW n, NEW D, NEW r
    PROVE  /\ files'[<<"table", n>>].records = files[<<"table", n>>].records
                => Table(n)' = Table(n)
           /\ files'[<<"log", n>>].records = files[<<"log", n>>].records
                => LogEntries(n)' = LogEntries(n)
           /\ files'[<<"log", n>>] = files[<<"log", n>>]
                => SyncedEntries(n)' = SyncedEntries(n)
           /\ files'[Manifest(D)].records = files[Manifest(D)].records => Edits(D)' = Edits(D)
           /\ files'[Manifest(D)] = files[Manifest(D)] => Possible(D)' = Possible(D)
           /\ LiveLogs(D, r)' = LiveLogs(D, r)
BY DEF Table, LogEntries, SyncedEntries, Possible, Edits, Manifest, LiveLogs

\* The view from its parts.
LEMMA ViewKept ==
    ASSUME DiskType, DirInv, ImageInv, NEW new,
           Directory'.current = Directory.current,
           Directory.current # 0 => Edits(Directory)' = Edits(Directory),
           Directory.current # 0 => Possible(Directory)' \subseteq Possible(Directory),
           Readable => \A t \in Latest.tables : TableStays(t),
           Readable => LiveLogs(Directory', Latest) = LiveLogs(Directory, Latest) \cup new,
           Readable => \A n \in LiveLogs(Directory, Latest) : LogEntries(n)' = LogEntries(n),
           Readable => \A n \in new : LogEntries(n)' = {}
    PROVE  View(new)
<1>1. Readable' <=> Readable BY DEF Readable
<1>2. ASSUME Readable
      PROVE  /\ Latest' = Latest
             /\ LiveLogs(Directory, Latest)' = LiveLogs(Directory, Latest) \cup new
             /\ Held(Directory, Latest)' = Held(Directory, Latest)
  <2>1. Latest' = Latest BY <1>2 DEF Latest, Readable
  <2>2. LiveLogs(Directory, Latest)' = LiveLogs(Directory, Latest) \cup new
    BY <1>2, <2>1 DEF LiveLogs
  <2>3. \A t \in Latest.tables : Table(t)' = Table(t)
    BY <1>2, LatestShape DEF ImageInv, TableStays, Whole
  <2>4. Tables(Latest.tables)' = Tables(Latest.tables) BY <2>1, <2>3 DEF Tables
  <2>5. Held(Directory, Latest)' = Tables(Latest.tables)'
                \cup UNION {LogEntries(n)' : n \in LiveLogs(Directory, Latest)'}
    BY DEF Held
  <2>6. UNION {LogEntries(n)' : n \in LiveLogs(Directory, Latest) \cup new}
            = UNION {LogEntries(n) : n \in LiveLogs(Directory, Latest)}
    BY <1>2
  <2>7. Held(Directory, Latest)' = Held(Directory, Latest)
    BY <2>2, <2>4, <2>5, <2>6 DEF Held
  <2> QED BY <2>1, <2>2, <2>7
<1> QED BY <1>1, <1>2 DEF Readable, View

\* No image reads a file of that name.
Unused(name) ==
    \A D \in Dirs : D.current # 0 =>
        /\ name # Manifest(D)
        /\ \A r \in Possible(D) :
            /\ \A t \in r.tables : name # <<"table", t>>
            /\ \A n \in LiveLogs(D, r) : name # <<"log", n>>

LEMMA CreateKeeps ==
    ASSUME DiskType, DirInv, ImagesInv, NEW name \in Name, name # <<"log", 0>>,
           NEW records \in Seq(Content(name[1])), Create(name, records), Unused(name),
           name[1] = "log" => records = <<>> /\ Readable /\ Latest.log <= name[2],
           UNCHANGED <<synced, unborn>>
    PROVE  /\ DiskType' /\ DirInv' /\ ImagesInv'
           /\ View(IF name[1] = "log" THEN {name[2]} ELSE {})
           /\ \A t \in Nat : name # <<"table", t>> => TableStays(t)
<1> DEFINE new == IF name[1] = "log" THEN {name[2]} ELSE {}
<1>1. /\ DiskType'
      /\ Directory'.names = Directory.names \cup {name}
      /\ Directory'.current = Directory.current
      /\ Dirs' = Dirs \cup {Directory'}
      /\ DOMAIN files' = DOMAIN files \cup {name}
      /\ \A n \in DOMAIN files \ {name} : files'[n] = files[n]
      /\ files'[name] = [records |-> records, durable |-> 0]
  BY Creates
<1>2. Directory \in Dirs /\ Directory.names \subseteq DOMAIN files BY DirectoryShape
<1>3. ASSUME NEW D \in Dirs, D.current # 0
      PROVE  /\ files'[Manifest(D)] = files[Manifest(D)]
             /\ Edits(D)' = Edits(D) /\ Possible(D)' = Possible(D)
             /\ \A r \in Possible(D) : /\ \A t \in r.tables : name # <<"table", t>>
                                       /\ \A n \in LiveLogs(D, r) : name # <<"log", n>>
  <2>1. Manifest(D) \in DOMAIN files /\ Manifest(D) # name
    BY <1>3, ManifestShape DEF Unused
  <2>2. files'[Manifest(D)] = files[Manifest(D)] BY <1>1, <2>1
  <2> QED BY <1>3, <2>2, SameFile DEF Unused
<1>4. ASSUME NEW D \in Dirs, D.current # 0, NEW r \in Possible(D)
      PROVE  /\ \A t \in r.tables : files'[<<"table", t>>] = files[<<"table", t>>]
             /\ \A n \in LiveLogs(D, r) : files'[<<"log", n>>] = files[<<"log", n>>]
  <2>1. \A t \in r.tables : <<"table", t>> \in DOMAIN files
    BY <1>4, DirectoryShape DEF ImagesInv, ImageInv, Whole
  <2>2. \A n \in LiveLogs(D, r) : <<"log", n>> \in DOMAIN files BY LogShape
  <2> QED BY <1>1, <1>3, <1>4, <2>1, <2>2
<1>5. ASSUME NEW D \in Dirs, D.current # 0, NEW r \in Possible(D), NEW names, D.names \subseteq names
      PROVE  /\ \A t \in r.tables : Whole(t, D.names) => Whole(t, names)' /\ Table(t)' = Table(t)
             /\ \A n \in LiveLogs(D, r) : /\ LogEntries(n)' = LogEntries(n)
                                          /\ SyncedEntries(n)' = SyncedEntries(n)
  BY <1>4, <1>5, SameFile DEF Whole
<1>6. \A n \in new : LogEntries(n)' = {}
  <2> SUFFICES ASSUME name[1] = "log" PROVE LogEntries(name[2])' = {} OBVIOUS
  <2>1. files'[<<"log", name[2]>>].records = <<>> BY <1>1 DEF Name
  <2> QED BY <2>1 DEF LogEntries
<1>7. ASSUME NEW r
      PROVE  LiveLogs(Directory', r) = LiveLogs(Directory, r) \cup {n \in new : r.log <= n}
  BY <1>1 DEF LiveLogs, Name
<1>8. ImagesCome
  <2> SUFFICES ASSUME NEW D \in Dirs', D.current # 0, NEW r \in Possible(D)'
               PROVE  \E E \in Dirs : ComesFrom(E, D, r)
    BY DEF ImagesCome
  <2>1. CASE D \in Dirs
    <3>1. r \in Possible(D) BY <1>3, <2>1
    <3>2. ComesFrom(D, D, r) BY <1>5, <2>1, <3>1 DEF ComesFrom
    <3> QED BY <2>1, <3>2
  <2>2. CASE D = Directory'
    <3>1. Manifest(D) = Manifest(Directory) /\ Directory.current # 0 BY <1>1, <2>2 DEF Manifest
    <3>2. PICK E \in Dirs : E = Directory BY <1>2
    <3>3. r \in Possible(Directory)
      <4>1. Manifest(D) = Manifest(E) /\ E.current # 0 BY <3>1, <3>2 DEF Manifest
      <4>2. Possible(D)' = Possible(E)' BY <4>1 DEF Possible, Edits, Manifest
      <4> QED BY <1>3, <3>2, <4>1, <4>2
    <3>4. LiveLogs(D, r) = LiveLogs(Directory, r) \cup {n \in new : r.log <= n}
      BY <1>7, <2>2
    <3>5. Directory.names \subseteq D.names BY <1>1, <2>2
    <3>6. \A n \in new : n \in LiveLogs(Directory', Latest)
      BY <1>7
    <3>7. ComesFrom(Directory, D, r)
      BY <1>1, <1>2, <1>5, <1>6, <2>2, <3>1, <3>3, <3>4, <3>5, <3>6 DEF ComesFrom
    <3> QED BY <1>2, <3>7
  <2> QED BY <1>1, <2>1, <2>2
<1>9. DirInv'
  <2>1. ASSUME NEW D \in Dirs, NEW names, D.current # 0
        PROVE  Edits(D)' = Edits(D) /\ files'[Manifest(D)] = files[Manifest(D)]
    BY <1>3, <2>1
  <2>2. Readable' <=> Readable
    BY <1>1, <1>2, <1>3 DEF Readable, Edits, Manifest
  <2> SUFFICES ASSUME NEW D \in Dirs'
               PROVE  /\ D.current = 0 => synced' = {} /\ \A n \in Nat : <<"log", n>> \notin D.names
                      /\ D.current # 0 => /\ Manifest(D) \in D.names
                                          /\ Edits(D)' = <<>> => unborn'
                                          /\ D.current = 1 \/ files'[Manifest(D)].durable >= 1
                                          /\ Directory'.current # 0
                                          /\ Edits(D)' # <<>> => Readable'
    BY DEF DirInv, Manifest
  <2>3. CASE D \in Dirs BY <1>1, <1>3, <2>2, <2>3 DEF DirInv
  <2>4. CASE D = Directory'
    <3>1. Manifest(D) = Manifest(Directory) BY <1>1, <2>4 DEF Manifest
    <3>2. Edits(D)' = Edits(Directory)' BY <1>1, <2>4 DEF Edits, Manifest
    <3>3. Directory.current # 0 => Edits(D)' = Edits(Directory)
      BY <1>1, <1>2, <1>3, <2>4 DEF Edits, Manifest
    <3>4. Directory.current = 0 => ~Readable BY DEF Readable
    <3>5. Directory.current = 0 => \A n \in Nat : <<"log", n>> \notin D.names
      <4>1. ASSUME Directory.current = 0, NEW n \in Nat PROVE <<"log", n>> \notin D.names
        <5>1. <<"log", n>> # name BY <3>4, <4>1
        <5> QED BY <1>1, <1>2, <2>4, <4>1, <5>1 DEF DirInv
      <4> QED BY <4>1
    <3> QED BY <1>1, <1>2, <1>3, <2>2, <2>4, <3>1, <3>3, <3>5 DEF DirInv
  <2> QED BY <1>1, <2>3, <2>4
<1>10. \A t \in Nat : name # <<"table", t>> => TableStays(t)
  <2> SUFFICES ASSUME NEW t \in Nat, name # <<"table", t>>, <<"table", t>> \in Directory.names
               PROVE  TableStays(t)
    BY DEF TableStays
  <2>1. files'[<<"table", t>>] = files[<<"table", t>>] BY <1>1, <1>2
  <2> QED BY <1>1, <2>1, SameFile DEF TableStays, Whole
<1>11. View(new)
  <2>1. Directory.current # 0 =>
            Edits(Directory)' = Edits(Directory) /\ Possible(Directory)' = Possible(Directory)
    BY <1>1, <1>2, <1>3 DEF Edits, Possible, Manifest
  <2>2. Readable => /\ \A t \in Latest.tables : TableStays(t)
                    /\ \A n \in LiveLogs(Directory, Latest) : LogEntries(n)' = LogEntries(n)
                    /\ LiveLogs(Directory', Latest) = LiveLogs(Directory, Latest) \cup new
    BY <1>2, <1>3, <1>5, <1>7, <1>10, LatestShape DEF Edit
  <2> QED BY <1>1, <1>6, <2>1, <2>2, ViewKept DEF ImagesInv
<1>12. LatestInv'
  <2>1. Readable => Latest' = Latest BY <1>11 DEF View
  <2>2. Readable => LiveLogs(Directory, Latest) \subseteq LiveLogs(Directory', Latest)
    BY <1>7
  <2> QED BY <1>8, <2>1, <2>2, LatestKept DEF ImagesInv
<1>13. ImageInv' /\ UniqueInv' /\ SyncedInv' BY <1>8, ImagesKept DEF ImagesInv
<1> QED BY <1>1, <1>9, <1>10, <1>11, <1>12, <1>13 DEF ImagesInv

\* A Sync; with it a file may come that no image reads.
LEMMA SyncKeeps ==
    ASSUME DiskType, DirInv, ImagesInv, NEW fs, NEW D \in Dir, NEW name \in D.names,
           D.current = Directory.current, Directory.names \subseteq D.names,
           D.names \subseteq Name,
           \A n \in D.names : fs[n] \in File(n[1]) /\ fs[n].durable <= Len(fs[n].records),
           \A n \in D.names : n[1] # "temp" => n \in Directory.names /\ fs[n] = files[n],
           Sync(fs, name, D), UNCHANGED unborn,
           synced' = synced \/ Directory.current # 0
    PROVE  /\ DiskType' /\ DirInv' /\ ImageInv' /\ UniqueInv' /\ LatestInv'
           /\ synced' \subseteq synced => SyncedInv'
           /\ \A E \in Dirs' : E.current # 0 =>
                \A r \in Possible(E)' : synced \subseteq Writes(KeptBy(E, r)')
           /\ View({}) /\ Directory' = D /\ Dirs' = {D}
           /\ \A t \in Nat : TableStays(t)
           /\ \A n \in Directory.names : n[1] # "temp" =>
                /\ n \in DOMAIN files' /\ files'[n].records = files[n].records
                /\ n # name => files'[n] = files[n]
           /\ \A n \in Nat : <<"log", n>> \in Directory.names =>
                SyncedEntries(n) \subseteq SyncedEntries(n)'
           /\ files'[name].durable = Len(files'[name].records)
<1>1. Directory \in Dirs /\ Directory.names \subseteq DOMAIN files /\ <<"log", 0>> \notin Directory.names
  BY DirectoryShape
<1>2. <<"log", 0>> \notin D.names BY <1>1
<1>3. /\ DiskType' /\ Directory' = D /\ Dirs' = {D} /\ DOMAIN files' = D.names
      /\ \A n \in D.names \ {name} : files'[n] = fs[n]
      /\ files'[name].records = fs[name].records
      /\ files'[name].durable = Len(fs[name].records)
  BY <1>2, Synchronises
<1>4. ASSUME NEW n \in Directory.names, n[1] # "temp"
      PROVE  /\ n \in DOMAIN files' /\ files'[n].records = files[n].records
             /\ files'[n].durable = files[n].durable \/ files'[n].durable = Len(files[n].records)
             /\ files[n].durable <= Len(files[n].records)
             /\ Len(files[n].records) \in Nat /\ files[n].durable \in Nat
             /\ n # name => files'[n] = files[n]
  <2>1. fs[n] = files[n] /\ n \in D.names BY <1>4
  <2>2. files[n] \in File(n[1]) /\ files[n].durable <= Len(files[n].records)
    BY <1>1 DEF DiskType
  <2>3. Len(files[n].records) \in Nat /\ files[n].durable \in Nat
    BY <2>2 DEF File
  <2> QED BY <1>3, <2>1, <2>2, <2>3
<1>5. PICK E \in Dirs : E = Directory BY <1>1
<1>6. E.names \subseteq D.names /\ E.current = D.current /\ Manifest(D) = Manifest(E)
      /\ E.names = Directory.names
  BY <1>5 DEF Manifest
<1>7. ASSUME D.current # 0
      PROVE  /\ Manifest(E) \in E.names
             /\ Edits(D)' = Edits(E) /\ Possible(D)' \subseteq Possible(E)
             /\ files[Manifest(E)].durable <= files'[Manifest(E)].durable
             /\ files'[Manifest(E)].durable \in Nat /\ files[Manifest(E)].durable \in Nat
  <2>1. Manifest(E) \in E.names /\ Manifest(E)[1] # "temp"
    BY <1>6, <1>7 DEF DirInv, Manifest
  <2>2. /\ files'[Manifest(E)].records = files[Manifest(E)].records
        /\ files[Manifest(E)].durable <= files'[Manifest(E)].durable
        /\ files'[Manifest(E)].durable \in Nat /\ files[Manifest(E)].durable \in Nat
    BY <1>4, <1>6, <2>1
  <2>3. Edits(D)' = Edits(E) BY <1>6, <2>2 DEF Edits
  <2>4. Len(Edits(E)) \in Nat BY <1>4, <1>6, <2>1 DEF Edits
  <2>5. Possible(D)' \subseteq Possible(E)
    BY <1>6, <2>2, <2>3, <2>4 DEF Possible
  <2> QED BY <2>1, <2>2, <2>3, <2>5
<1>8. ASSUME NEW t, <<"table", t>> \in E.names
      PROVE  /\ <<"table", t>> \in D.names /\ Table(t)' = Table(t)
             /\ files'[<<"table", t>>].records = files[<<"table", t>>].records
             /\ Whole(t, E.names) => Whole(t, D.names)'
  <2>1. <<"table", t>>[1] # "temp" OBVIOUS
  <2>2. /\ files'[<<"table", t>>].records = files[<<"table", t>>].records
        /\ \/ files'[<<"table", t>>].durable = files[<<"table", t>>].durable
           \/ files'[<<"table", t>>].durable = Len(files[<<"table", t>>].records)
    BY <1>4, <1>6, <1>8, <2>1
  <2> QED BY <1>6, <1>8, <2>2, SameFile DEF Whole
<1>9. ASSUME NEW n, <<"log", n>> \in E.names
      PROVE  /\ LogEntries(n)' = LogEntries(n) /\ SyncedEntries(n) \subseteq SyncedEntries(n)'
             /\ <<"log", n>> \in D.names
  <2>1. <<"log", n>>[1] # "temp" OBVIOUS
  <2>2. /\ files'[<<"log", n>>].records = files[<<"log", n>>].records
        /\ files[<<"log", n>>].durable <= files'[<<"log", n>>].durable
        /\ files'[<<"log", n>>].durable \in Nat /\ files[<<"log", n>>].durable \in Nat
    BY <1>4, <1>6, <1>9, <2>1
  <2>3. LogEntries(n)' = LogEntries(n) BY <2>2, SameFile
  <2>4. SyncedEntries(n) \subseteq SyncedEntries(n)' BY <2>2 DEF SyncedEntries
  <2> QED BY <1>6, <1>9, <2>3, <2>4
<1>10. ASSUME NEW r PROVE LiveLogs(D, r) = LiveLogs(E, r)
  <2>1. \A n \in D.names : n[1] = "log" => n \in E.names BY <1>6
  <2> QED BY <1>6, <2>1 DEF LiveLogs
<1>11. ImagesCome
  <2> SUFFICES ASSUME D.current # 0, NEW r \in Possible(D)' PROVE ComesFrom(E, D, r)
    BY <1>3, <1>5 DEF ImagesCome
  <2>1. r \in Possible(E) BY <1>7
  <2>2. \A t \in r.tables : Whole(t, E.names) => Whole(t, D.names)' /\ Table(t)' = Table(t)
    BY <1>8 DEF Whole
  <2>3. \A n \in LiveLogs(E, r) : LogEntries(n)' = LogEntries(n) /\ SyncedEntries(n) \subseteq SyncedEntries(n)'
    BY <1>9, LiveLog
  <2> QED BY <1>6, <1>10, <2>1, <2>2, <2>3 DEF ComesFrom
<1>12. /\ Directory.current # 0 =>
            Edits(Directory)' = Edits(Directory) /\ Possible(Directory)' \subseteq Possible(Directory)
       /\ Directory'.current = Directory.current
  <2>1. Edits(Directory)' = Edits(D)' /\ Possible(Directory)' = Possible(D)'
    BY <1>3 DEF Edits, Possible, Manifest
  <2> QED BY <1>3, <1>5, <1>6, <1>7, <2>1
<1>13. DirInv'
  <2>1. Readable' <=> Readable BY <1>12 DEF Readable
  <2> SUFFICES /\ D.current = 0 => synced' = {} /\ \A n \in Nat : <<"log", n>> \notin D.names
               /\ D.current # 0 => /\ Manifest(D) \in D.names
                                   /\ Edits(D)' = <<>> => unborn'
                                   /\ D.current = 1 \/ files'[Manifest(D)].durable >= 1
                                   /\ Directory'.current # 0
                                   /\ Edits(D)' # <<>> => Readable'
    BY <1>3 DEF DirInv, Manifest
  <2>2. CASE D.current = 0
    <3>1. \A n \in Nat : <<"log", n>> \in D.names => <<"log", n>> \in E.names
      <4>1. \A n \in D.names : n[1] # "temp" => n \in E.names BY <1>6
      <4> QED BY <4>1
    <3> QED BY <1>6, <1>12, <2>2, <3>1 DEF DirInv
  <2>3. CASE D.current # 0
    <3>1. /\ Edits(E) = <<>> => unborn
          /\ E.current = 1 \/ files[Manifest(E)].durable >= 1
          /\ Edits(E) # <<>> => Readable
      BY <1>6, <2>3 DEF DirInv
    <3> QED BY <1>3, <1>6, <1>7, <2>1, <2>3, <3>1
  <2> QED BY <2>2, <2>3
<1>14. \A t \in Nat : TableStays(t)
  BY <1>3, <1>5, <1>6, <1>8 DEF TableStays, Whole
<1>15. View({})
  <2>1. Readable => /\ \A t \in Latest.tables : TableStays(t)
                    /\ \A n \in LiveLogs(Directory, Latest) : LogEntries(n)' = LogEntries(n)
                    /\ LiveLogs(Directory', Latest) = LiveLogs(Directory, Latest) \cup {}
    BY <1>3, <1>5, <1>9, <1>10, <1>14, LatestShape, LiveLog DEF Edit
  <2> QED BY <1>12, <2>1, ViewKept DEF ImagesInv
<1>16. LatestInv'
  <2>1. Readable => Latest' = Latest BY <1>15 DEF View
  <2>2. LiveLogs(Directory, Latest) \subseteq LiveLogs(Directory', Latest)
    BY <1>3, <1>5, <1>10
  <2> QED BY <1>11, <2>1, <2>2, LatestKept DEF ImagesInv
<1>17. /\ ImageInv' /\ UniqueInv' /\ (synced' \subseteq synced => SyncedInv')
       /\ \A A \in Dirs' : A.current # 0 =>
            \A r \in Possible(A)' : synced \subseteq Writes(KeptBy(A, r)')
  BY <1>11, ImagesKept DEF ImagesInv
<1>18. \A n \in Directory.names : n[1] # "temp" =>
            /\ n \in DOMAIN files' /\ files'[n].records = files[n].records
            /\ n # name => files'[n] = files[n]
  BY <1>4
<1>19. \A n \in Nat : <<"log", n>> \in Directory.names => SyncedEntries(n) \subseteq SyncedEntries(n)'
  BY <1>6, <1>9
<1> QED BY <1>3, <1>13, <1>14, <1>15, <1>16, <1>17, <1>18, <1>19

\* The Sync of a file of the directory.
LEMMA SyncOnlyKeeps ==
    ASSUME DiskType, DirInv, ImagesInv, NEW name \in Directory.names,
           Sync(files, name, Directory), UNCHANGED unborn,
           synced' = synced \/ Directory.current # 0
    PROVE  /\ DiskType' /\ DirInv' /\ ImageInv' /\ UniqueInv' /\ LatestInv'
           /\ synced' \subseteq synced => SyncedInv'
           /\ \A E \in Dirs' : E.current # 0 =>
                \A r \in Possible(E)' : synced \subseteq Writes(KeptBy(E, r)')
           /\ View({}) /\ Directory' = Directory /\ Dirs' = {Directory}
           /\ \A t \in Nat : TableStays(t)
           /\ \A n \in Directory.names : n[1] # "temp" =>
                /\ n \in DOMAIN files' /\ files'[n].records = files[n].records
                /\ n # name => files'[n] = files[n]
           /\ \A n \in Nat : <<"log", n>> \in Directory.names =>
                SyncedEntries(n) \subseteq SyncedEntries(n)'
           /\ files'[name].durable = Len(files'[name].records)
<1>1. Directory \in Dir /\ Directory.names \subseteq Name /\ Directory.names \subseteq DOMAIN files
  BY DirectoryShape
<1>2. \A n \in Directory.names : files[n] \in File(n[1]) /\ files[n].durable <= Len(files[n].records)
  BY <1>1 DEF DiskType
<1> QED BY <1>1, <1>2, SyncKeeps

\* A name goes that the latest image, the only one of its manifest, does not need.
LEMMA DeleteKeeps ==
    ASSUME DiskType, DirInv, ImagesInv, NEW D \in Dir, NEW name,
           D.names = Directory.names \ {name}, D.current = Directory.current,
           Directory.current # 0, Possible(Directory) = {Latest}, name # Manifest(Directory),
           \A t \in Latest.tables : name # <<"table", t>>,
           \A n \in LiveLogs(Directory, Latest) : name # <<"log", n>>,
           directories' = Append(directories, D), UNCHANGED <<files, synced, unborn>>
    PROVE  /\ DiskType' /\ DirInv' /\ ImagesInv' /\ View({}) /\ Directory' = D
           /\ Possible(Directory)' = Possible(Directory)
           /\ \A t \in Nat : name # <<"table", t>> => TableStays(t)
<1>1. Directory \in Dirs /\ D.names \subseteq Directory.names BY DirectoryShape
<1>2. DiskType' /\ Directory' = D /\ Dirs' = Dirs \cup {D} BY <1>1, Renames
<1>3. ASSUME NEW n, NEW A, NEW r
      PROVE  /\ Table(n)' = Table(n) /\ LogEntries(n)' = LogEntries(n)
             /\ SyncedEntries(n)' = SyncedEntries(n) /\ Edits(A)' = Edits(A)
             /\ Possible(A)' = Possible(A)
  BY SameFile
<1>4. ASSUME NEW t, NEW names PROVE Whole(t, names)' <=> Whole(t, names)
  BY <1>3 DEF Whole
<1>5. PICK E \in Dirs : E = Directory BY <1>1
<1>6. E.current # 0 /\ E.current = D.current /\ Manifest(D) = Manifest(E) /\ Possible(D) = Possible(E)
      /\ Possible(E) = {Latest} /\ Edits(D) = Edits(E)
  BY <1>5 DEF Manifest, Possible, Edits
<1>7. LiveLogs(D, Latest) = LiveLogs(E, Latest)
  <2>1. \A n : n \in LiveLogs(D, Latest) <=> n \in LiveLogs(Directory, Latest)
    <3> SUFFICES ASSUME NEW n PROVE n \in LiveLogs(D, Latest) <=> n \in LiveLogs(Directory, Latest)
      OBVIOUS
    <3>1. D.names \subseteq Name BY <1>1, DirectoryShape
    <3>2. n \in LiveLogs(D, Latest) <=> n \in Nat /\ <<"log", n>> \in D.names /\ Latest.log <= n
      BY <3>1 DEF LiveLogs, Name
    <3>3. n \in LiveLogs(Directory, Latest)
            <=> n \in Nat /\ <<"log", n>> \in Directory.names /\ Latest.log <= n
      BY <1>1, LiveLog
    <3> QED BY <3>2, <3>3
  <2> QED BY <1>5, <2>1
<1>8. \A t \in Latest.tables : Whole(t, E.names) => Whole(t, D.names)
  BY <1>5 DEF Whole
<1>9. ImagesCome
  <2> SUFFICES ASSUME NEW A \in Dirs', A.current # 0, NEW r \in Possible(A)'
               PROVE  \E B \in Dirs : ComesFrom(B, A, r)
    BY DEF ImagesCome
  <2>0. r \in Possible(A) BY <1>3
  <2>1. CASE A \in Dirs
    <3>1. ComesFrom(A, A, r) BY <1>3, <1>4, <2>0, <2>1 DEF ComesFrom
    <3> QED BY <2>1, <3>1
  <2>2. CASE A = D
    <3>1. r = Latest /\ r \in Possible(E) BY <1>6, <2>0, <2>2
    <3>2. ComesFrom(E, A, r) BY <1>3, <1>4, <1>6, <1>7, <1>8, <2>2, <3>1 DEF ComesFrom
    <3> QED BY <3>2
  <2> QED BY <1>2, <2>1, <2>2
<1>10. /\ Edits(Directory)' = Edits(Directory) /\ Possible(Directory)' = Possible(Directory)
  <2>1. Edits(Directory)' = Edits(D)' /\ Possible(Directory)' = Possible(D)'
    BY <1>2 DEF Edits, Possible, Manifest
  <2> QED BY <1>3, <1>5, <1>6, <2>1
<1>11. DirInv'
  <2>1. Readable' <=> Readable BY <1>2, <1>10 DEF Readable
  <2> SUFFICES ASSUME NEW A \in Dirs'
               PROVE  /\ A.current = 0 => synced = {} /\ \A n \in Nat : <<"log", n>> \notin A.names
                      /\ A.current # 0 => /\ Manifest(A) \in A.names
                                          /\ Edits(A) = <<>> => unborn
                                          /\ A.current = 1 \/ files[Manifest(A)].durable >= 1
                                          /\ Directory'.current # 0
                                          /\ Edits(A) # <<>> => Readable
    BY <1>3, <2>1 DEF DirInv, Manifest
  <2>3. CASE A \in Dirs BY <1>2, <2>3 DEF DirInv
  <2>4. CASE A = D
    <3>1. Manifest(A) \in A.names
      BY <1>5, <1>6, <2>4 DEF DirInv
    <3> QED BY <1>2, <1>5, <1>6, <2>4, <3>1 DEF DirInv
  <2> QED BY <1>2, <2>3, <2>4
<1>12. \A t \in Nat : name # <<"table", t>> => TableStays(t)
  <2> SUFFICES ASSUME NEW t \in Nat, name # <<"table", t>>, <<"table", t>> \in Directory.names
               PROVE  TableStays(t)
    BY DEF TableStays
  <2>1. <<"table", t>> \in Directory'.names BY <1>2
  <2> QED BY <1>3, <2>1 DEF TableStays, Whole
<1>13. View({})
  <2>1. Readable => /\ \A t \in Latest.tables : TableStays(t)
                    /\ \A n \in LiveLogs(Directory, Latest) : LogEntries(n)' = LogEntries(n)
                    /\ LiveLogs(Directory', Latest) = LiveLogs(Directory, Latest) \cup {}
    BY <1>2, <1>3, <1>5, <1>7, <1>12, LatestShape DEF Edit
  <2> QED BY <1>2, <1>10, <2>1, ViewKept DEF ImagesInv
<1>14. LatestInv'
  <2>1. Readable => Latest' = Latest BY <1>13 DEF View
  <2>2. LiveLogs(Directory, Latest) \subseteq LiveLogs(Directory', Latest)
    BY <1>2, <1>5, <1>7
  <2> QED BY <1>9, <2>1, <2>2, LatestKept DEF ImagesInv
<1>15. ImageInv' /\ UniqueInv' /\ SyncedInv'
  BY <1>9, ImagesKept DEF ImagesInv
<1> QED BY <1>2, <1>10, <1>11, <1>12, <1>13, <1>14, <1>15 DEF ImagesInv

\* A record in a log that the latest image reads, numbered above all entries.
LEMMA LogGrows ==
    ASSUME DiskType, DirInv, ImagesInv, Readable, NEW log \in LiveLogs(Directory, Latest),
           NEW entry \in Entry, AppendTo(<<"log", log>>, entry),
           UNCHANGED <<directories, synced, unborn>>,
           \A D \in Dirs : D.current # 0 =>
                \A r \in Possible(D) : \A e \in Held(D, r) : e.sequence < entry.sequence
    PROVE  /\ DiskType' /\ DirInv' /\ ImagesInv' /\ Directory' = Directory /\ Dirs' = Dirs
           /\ Readable' /\ Latest' = Latest /\ Possible(Directory)' = Possible(Directory)
           /\ LogEntries(log)' = LogEntries(log) \cup {entry}
           /\ SyncedEntries(log)' = SyncedEntries(log)
           /\ \A n \in LiveLogs(Directory, Latest) \ {log} : LogEntries(n)' = LogEntries(n)
           /\ Held(Directory, Latest)' = Held(Directory, Latest) \cup {entry}
           /\ \A t \in Nat : TableStays(t)
<1>1. Directory \in Dirs /\ Directory.current # 0 /\ Latest \in Possible(Directory) /\ Latest \in Edit
  BY LatestShape
<1>2. /\ log \in Nat \ {0} /\ <<"log", log>> \in Directory.names /\ <<"log", log>> \in DOMAIN files
      /\ files[<<"log", log>>].records \in Seq(Entry)
      /\ files[<<"log", log>>].durable \in 0 .. Len(files[<<"log", log>>].records)
  BY <1>1, LogShape, FileShape
<1>3. entry \in Content(<<"log", log>>[1]) BY DEF Content
<1>4. /\ DiskType' /\ Directory' = Directory /\ Dirs' = Dirs
      /\ \A n \in DOMAIN files \ {<<"log", log>>} : files'[n] = files[n]
      /\ files'[<<"log", log>>].durable = files[<<"log", log>>].durable
      /\ files'[<<"log", log>>].records = Append(files[<<"log", log>>].records, entry)
  BY <1>2, <1>3, Appends
<1>5. LogEntries(log)' = LogEntries(log) \cup {entry} /\ SyncedEntries(log)' = SyncedEntries(log)
  <2> DEFINE old == files[<<"log", log>>].records
  <2>1. /\ Len(Append(old, entry)) = Len(old) + 1 /\ Len(old) \in Nat
        /\ \A i \in 1 .. Len(old) : Append(old, entry)[i] = old[i]
        /\ Append(old, entry)[Len(old) + 1] = entry
    BY <1>2
  <2>2. 1 .. Len(old) + 1 = 1 .. Len(old) \cup {Len(old) + 1} BY <2>1
  <2>3. LogEntries(log)' = {Append(old, entry)[i] : i \in 1 .. Len(old) + 1}
    BY <1>4, <2>1 DEF LogEntries
  <2>4. LogEntries(log) = {old[i] : i \in 1 .. Len(old)} BY DEF LogEntries
  <2>5. SyncedEntries(log)' = {Append(old, entry)[i] : i \in 1 .. files[<<"log", log>>].durable}
    BY <1>4 DEF SyncedEntries
  <2>6. \A i \in 1 .. files[<<"log", log>>].durable : Append(old, entry)[i] = old[i]
    BY <1>2, <2>1
  <2>7. SyncedEntries(log)' = SyncedEntries(log) BY <2>5, <2>6 DEF SyncedEntries
  <2>8. {Append(old, entry)[i] : i \in 1 .. Len(old) + 1} = {old[i] : i \in 1 .. Len(old)} \cup {entry}
    BY <2>1, <2>2
  <2> HIDE DEF old
  <2>9. LogEntries(log)' = LogEntries(log) \cup {entry} BY <2>3, <2>4, <2>8
  <2> QED BY <2>7, <2>9
<1>6. ASSUME NEW n, n # log, <<"log", n>> \in DOMAIN files
      PROVE  LogEntries(n)' = LogEntries(n) /\ SyncedEntries(n)' = SyncedEntries(n)
  BY <1>4, <1>6, SameFile
<1>7. ASSUME NEW t, <<"table", t>> \in DOMAIN files
      PROVE  /\ files'[<<"table", t>>] = files[<<"table", t>>]
             /\ Table(t)' = Table(t) /\ \A names : Whole(t, names)' <=> Whole(t, names)
  BY <1>4, <1>7, SameFile DEF Whole
<1>8. ASSUME NEW D \in Dirs, D.current # 0
      PROVE  /\ files'[Manifest(D)] = files[Manifest(D)] /\ Edits(D)' = Edits(D)
             /\ Possible(D)' = Possible(D) /\ \A r : LiveLogs(D, r)' = LiveLogs(D, r)
  <2>1. Manifest(D) \in DOMAIN files BY <1>8, ManifestShape
  <2>2. Manifest(D) # <<"log", log>> BY DEF Manifest
  <2>3. files'[Manifest(D)] = files[Manifest(D)] BY <1>4, <2>1, <2>2
  <2> QED BY <2>3, SameFile
<1>9. ASSUME NEW D \in Dirs, D.current # 0, NEW r \in Possible(D)
      PROVE  /\ \A t \in r.tables : Table(t)' = Table(t) /\ (Whole(t, D.names)' <=> Whole(t, D.names))
             /\ \A n \in LiveLogs(D, r) :
                    /\ SyncedEntries(n)' = SyncedEntries(n)
                    /\ n # log => LogEntries(n)' = LogEntries(n)
             /\ Tables(r.tables)' = Tables(r.tables)
             /\ KeptBy(D, r)' = KeptBy(D, r)
             /\ Held(D, r)' \subseteq Held(D, r) \cup {entry}
             /\ log \in LiveLogs(D, r) => Held(D, r)' = Held(D, r) \cup {entry}
  <2>1. \A t \in r.tables : <<"table", t>> \in DOMAIN files
    BY <1>9, DirectoryShape DEF ImagesInv, ImageInv, Whole
  <2>2. \A t \in r.tables : Table(t)' = Table(t) /\ (Whole(t, D.names)' <=> Whole(t, D.names))
    BY <1>7, <2>1
  <2>3. \A n \in LiveLogs(D, r) : /\ SyncedEntries(n)' = SyncedEntries(n)
                                  /\ n # log => LogEntries(n)' = LogEntries(n)
    BY <1>5, <1>6, LogShape
  <2>4. Tables(r.tables)' = Tables(r.tables) BY <2>2 DEF Tables
  <2>5. Held(D, r)' = Tables(r.tables)' \cup UNION {LogEntries(n)' : n \in LiveLogs(D, r)}
    BY <1>8, <1>9 DEF Held
  <2>6. KeptBy(D, r)' = Tables(r.tables)' \cup UNION {SyncedEntries(n)' : n \in LiveLogs(D, r)}
    BY <1>8, <1>9 DEF KeptBy
  <2>7. UNION {SyncedEntries(n)' : n \in LiveLogs(D, r)} = UNION {SyncedEntries(n) : n \in LiveLogs(D, r)}
    BY <2>3
  <2>8. UNION {LogEntries(n)' : n \in LiveLogs(D, r)}
            \subseteq (UNION {LogEntries(n) : n \in LiveLogs(D, r)}) \cup {entry}
    BY <1>5, <2>3
  <2>9. log \in LiveLogs(D, r) =>
            UNION {LogEntries(n)' : n \in LiveLogs(D, r)}
                = (UNION {LogEntries(n) : n \in LiveLogs(D, r)}) \cup {entry}
    <3> SUFFICES ASSUME log \in LiveLogs(D, r)
                 PROVE  (UNION {LogEntries(n) : n \in LiveLogs(D, r)}) \cup {entry}
                            \subseteq UNION {LogEntries(n)' : n \in LiveLogs(D, r)}
      BY <2>8
    <3>1. \A n \in LiveLogs(D, r) : LogEntries(n) \subseteq LogEntries(n)' BY <1>5, <2>3
    <3>2. entry \in LogEntries(log)' BY <1>5
    <3> QED BY <3>1, <3>2
  <2>10. KeptBy(D, r)' = KeptBy(D, r) BY <2>4, <2>6, <2>7 DEF KeptBy
  <2>11. Held(D, r)' \subseteq Held(D, r) \cup {entry} BY <2>4, <2>5, <2>8 DEF Held
  <2>12. log \in LiveLogs(D, r) => Held(D, r)' = Held(D, r) \cup {entry}
    BY <2>4, <2>5, <2>9 DEF Held
  <2> QED BY <2>2, <2>3, <2>4, <2>10, <2>11, <2>12
<1>10. PICK X \in Dirs : X = Directory BY <1>1
<1>11. /\ Edits(Directory)' = Edits(Directory) /\ Possible(Directory)' = Possible(Directory)
       /\ Readable' /\ Latest' = Latest
  <2>1. Edits(Directory)' = Edits(X)' /\ Possible(Directory)' = Possible(X)'
    BY <1>4, <1>10 DEF Edits, Possible, Manifest
  <2>2. Edits(Directory)' = Edits(Directory) /\ Possible(Directory)' = Possible(Directory)
    BY <1>1, <1>8, <1>10, <2>1
  <2> QED BY <1>4, <2>2 DEF Readable, Latest
<1>12. Held(Directory, Latest)' = Held(Directory, Latest) \cup {entry}
  <2>1. PICK r \in Possible(X) : r = Latest BY <1>1, <1>10
  <2>2. Held(Directory, Latest)' = Held(X, r)' BY <1>4, <1>10, <1>11, <2>1 DEF Held, LiveLogs, Tables
  <2> QED BY <1>1, <1>9, <1>10, <2>1, <2>2
<1>13. DirInv' BY <1>4, <1>8, <1>11 DEF DirInv, Manifest
<1>14. ImageInv'
  <2> SUFFICES ASSUME NEW D \in Dirs, D.current # 0, NEW r \in Possible(D)
               PROVE  /\ D.current < r.next /\ r.log < r.next
                      /\ \A t \in r.tables : /\ Whole(t, D.names)' /\ 0 < t /\ t < r.next
                                             /\ \A e \in Table(t)' : e.sequence <= r.last
    BY <1>4, <1>8 DEF ImageInv
  <2> QED BY <1>9 DEF ImagesInv, ImageInv
<1>15. SyncedInv'
  <2> SUFFICES ASSUME NEW D \in Dirs, D.current # 0, NEW r \in Possible(D)
               PROVE  synced \subseteq Writes(KeptBy(D, r)')
    BY <1>4, <1>8 DEF SyncedInv, Writes
  <2> QED BY <1>9 DEF ImagesInv, SyncedInv
<1>16. UniqueInv'
  <2> SUFFICES ASSUME NEW D \in Dirs, NEW E \in Dirs, D.current # 0, E.current # 0,
                      NEW r \in Possible(D), NEW s \in Possible(E),
                      NEW e \in Held(D, r)', NEW f \in Held(E, s)', e.sequence = f.sequence
               PROVE  e = f
    BY <1>4, <1>8 DEF UniqueInv
  <2>1. e \in Held(D, r) \cup {entry} /\ f \in Held(E, s) \cup {entry} BY <1>9
  <2>2. entry.sequence \in Nat BY DEF Entry
  <2>3. CASE e \in Held(D, r) /\ f \in Held(E, s) BY <2>3 DEF ImagesInv, UniqueInv
  <2>4. CASE e = entry /\ f \in Held(E, s) BY <2>2, <2>4
  <2>5. CASE e \in Held(D, r) /\ f = entry BY <2>2, <2>5
  <2> QED BY <2>1, <2>3, <2>4, <2>5
<1>17. LatestInv'
  <2> SUFFICES ASSUME NEW D \in Dirs, D.current # 0, NEW r \in Possible(D)
               PROVE  /\ r.next <= Latest.next /\ r.last <= Latest.last
                      /\ \A n \in LiveLogs(D, r) :
                            \/ n < Latest.next /\ \A e \in LogEntries(n)' : e.sequence <= Latest.last
                            \/ n \in LiveLogs(Directory, Latest)
    BY <1>4, <1>8, <1>11 DEF LatestInv, LiveLogs
  <2> QED BY <1>9 DEF ImagesInv, LatestInv
<1>18. \A t \in Nat : TableStays(t)
  BY <1>1, <1>4, <1>7, DirectoryShape DEF TableStays, Whole
<1>19. \A n \in LiveLogs(Directory, Latest) \ {log} : LogEntries(n)' = LogEntries(n)
  BY <1>1, <1>9
<1> QED BY <1>4, <1>5, <1>11, <1>12, <1>13, <1>14, <1>15, <1>16, <1>17, <1>18, <1>19 DEF ImagesInv

\* A new record r describes what a crash may leave of D as well as the others do.
Describes(D, r) ==
    /\ D.current < r.next /\ r.log < r.next
    /\ \A t \in r.tables : /\ Whole(t, D.names) /\ 0 < t /\ t < r.next
                           /\ \A e \in Table(t) : e.sequence <= r.last
    /\ synced \subseteq Writes(KeptBy(D, r))

LEMMA AllDescribed ==
    ASSUME ImagesInv, NEW D \in Dirs, D.current # 0, NEW r \in Possible(D)
    PROVE  Describes(D, r)
BY DEF ImagesInv, ImageInv, SyncedInv, Describes

\* A record in the manifest of all directories.
LEMMA ManifestGrows ==
    ASSUME DiskType, DirInv, ImagesInv, Readable, NEW r \in Edit,
           AppendTo(Manifest(Directory), r), UNCHANGED <<directories, synced, unborn>>,
           Possible(Directory) = {Latest},
           \A D \in Dirs : D.current = Directory.current /\ Describes(D, r),
           Latest.next <= r.next, Latest.last <= r.last, Latest.log <= r.log,
           Tables(r.tables) \subseteq Held(Directory, Latest),
           \A n \in LiveLogs(Directory, Latest) : n < r.log =>
                n < r.next /\ \A e \in LogEntries(n) : e.sequence <= r.last
    PROVE  /\ DiskType' /\ DirInv' /\ ImagesInv' /\ Directory' = Directory /\ Dirs' = Dirs
           /\ Readable' /\ Latest' = r /\ Possible(Directory)' = {Latest, r}
           /\ \A n \in Nat : <<"log", n>> \in Directory.names =>
                LogEntries(n)' = LogEntries(n) /\ SyncedEntries(n)' = SyncedEntries(n)
           /\ \A t \in Nat : TableStays(t)
<1>1. Directory \in Dirs /\ Directory.current # 0 /\ Latest \in Possible(Directory) /\ Latest \in Edit
  BY LatestShape
<1>2. /\ Manifest(Directory) \in DOMAIN files /\ Edits(Directory) \in Seq(Edit)
      /\ Len(Edits(Directory)) \in Nat
      /\ files[Manifest(Directory)].durable \in 0 .. Len(Edits(Directory))
  BY <1>1, ManifestShape
<1>3. r \in Content(Manifest(Directory)[1]) BY DEF Content, Manifest
<1>4. /\ DiskType' /\ Directory' = Directory /\ Dirs' = Dirs
      /\ \A n \in DOMAIN files \ {Manifest(Directory)} : files'[n] = files[n]
      /\ files'[Manifest(Directory)].durable = files[Manifest(Directory)].durable
      /\ files'[Manifest(Directory)].records = Append(files[Manifest(Directory)].records, r)
  BY <1>2, <1>3, Appends
<1>5. ASSUME NEW n
      PROVE  /\ <<"log", n>> \in DOMAIN files =>
                    LogEntries(n)' = LogEntries(n) /\ SyncedEntries(n)' = SyncedEntries(n)
             /\ <<"table", n>> \in DOMAIN files =>
                    /\ files'[<<"table", n>>] = files[<<"table", n>>]
                    /\ Table(n)' = Table(n) /\ \A names : Whole(n, names)' <=> Whole(n, names)
  <2>1. <<"log", n>> # Manifest(Directory) /\ <<"table", n>> # Manifest(Directory)
    BY DEF Manifest
  <2> QED BY <1>4, <2>1, SameFile DEF Whole
<1>6. ASSUME NEW D \in Dirs
      PROVE  /\ D.current # 0 /\ Manifest(D) = Manifest(Directory)
             /\ Edits(D)' = Append(Edits(Directory), r)
             /\ Possible(D) = {Latest} /\ Possible(D)' = {Latest, r}
             /\ files'[Manifest(D)].durable = files[Manifest(Directory)].durable
  <2>1. D.current # 0 /\ Manifest(D) = Manifest(Directory) BY <1>1 DEF Manifest
  <2>2. Edits(D)' = Append(Edits(Directory), r) BY <1>4, <2>1 DEF Edits, Manifest
  <2>3. Possible(D) = Possible(Directory) BY <2>1 DEF Possible, Edits
  <2> DEFINE old == Edits(Directory)
             d == files[Manifest(Directory)].durable
  <2>4. /\ Len(Append(old, r)) = Len(old) + 1 /\ Len(old) \in Nat /\ d \in 0 .. Len(old)
        /\ \A i \in 1 .. Len(old) : Append(old, r)[i] = old[i]
        /\ Append(old, r)[Len(old) + 1] = r
    BY <1>2
  <2>5. Possible(D)' = {Append(old, r)[p] : p \in {p \in 1 .. Len(old) + 1 : d <= p}}
    BY <1>4, <2>1, <2>2, <2>4 DEF Possible, Manifest
  <2>6. Possible(Directory) = {old[p] : p \in {p \in 1 .. Len(old) : d <= p}}
    BY DEF Possible
  <2>7. {p \in 1 .. Len(old) + 1 : d <= p} = {p \in 1 .. Len(old) : d <= p} \cup {Len(old) + 1}
    BY <2>4
  <2>8. {Append(old, r)[p] : p \in {p \in 1 .. Len(old) + 1 : d <= p}}
            = {old[p] : p \in {p \in 1 .. Len(old) : d <= p}} \cup {r}
    BY <2>4, <2>7
  <2>9. Possible(D)' = {Latest} \cup {r} BY <2>5, <2>6, <2>8
  <2> QED BY <1>4, <2>1, <2>2, <2>3, <2>9
<1>7. ASSUME NEW D \in Dirs, NEW s \in {Latest, r}
      PROVE  /\ Describes(D, s)
             /\ \A t \in s.tables : Table(t)' = Table(t) /\ (Whole(t, D.names)' <=> Whole(t, D.names))
             /\ \A n \in LiveLogs(D, s) : LogEntries(n)' = LogEntries(n)
             /\ Held(D, s)' = Held(D, s) /\ KeptBy(D, s)' = KeptBy(D, s)
  <2>1. Describes(D, s) BY <1>6, <1>7, AllDescribed
  <2>2. D.names \subseteq DOMAIN files BY DirectoryShape
  <2>3. \A t \in s.tables : Table(t)' = Table(t) /\ (Whole(t, D.names)' <=> Whole(t, D.names))
    BY <1>5, <2>1, <2>2 DEF Describes, Whole
  <2>4. \A n \in LiveLogs(D, s) : LogEntries(n)' = LogEntries(n) /\ SyncedEntries(n)' = SyncedEntries(n)
    BY <1>5, <2>2, LogShape
  <2>5. Tables(s.tables)' = Tables(s.tables) BY <2>3 DEF Tables
  <2>6. LiveLogs(D, s)' = LiveLogs(D, s) BY DEF LiveLogs
  <2>7. Held(D, s)' = Tables(s.tables)' \cup UNION {LogEntries(n)' : n \in LiveLogs(D, s)}
    BY <2>6 DEF Held
  <2>8. KeptBy(D, s)' = Tables(s.tables)' \cup UNION {SyncedEntries(n)' : n \in LiveLogs(D, s)}
    BY <2>6 DEF KeptBy
  <2>9. Held(D, s)' = Held(D, s) BY <2>4, <2>5, <2>7 DEF Held
  <2>10. KeptBy(D, s)' = KeptBy(D, s) BY <2>4, <2>5, <2>8 DEF KeptBy
  <2> QED BY <2>1, <2>3, <2>4, <2>9, <2>10
<1>8. ASSUME NEW D \in Dirs
      PROVE  /\ LiveLogs(D, r) \subseteq LiveLogs(D, Latest)
             /\ Held(D, r) \subseteq Held(D, Latest) \cup Held(Directory, Latest)
  <2>1. LiveLogs(D, r) \subseteq LiveLogs(D, Latest)
    <3> SUFFICES ASSUME NEW n \in LiveLogs(D, r) PROVE n \in LiveLogs(D, Latest) OBVIOUS
    <3>1. n \in Nat /\ <<"log", n>> \in D.names /\ r.log <= n BY LiveLog
    <3>2. r.log \in Nat /\ Latest.log \in Nat BY <1>1 DEF Edit
    <3>3. Latest.log <= n BY <3>1, <3>2
    <3> QED BY <3>1, <3>3, LiveLog
  <2> QED BY <2>1 DEF Held
<1>9. Readable' /\ Latest' = r
  <2>1. Edits(Directory)' = Append(Edits(Directory), r)
    BY <1>4 DEF Edits, Manifest
  <2> QED BY <1>1, <1>2, <1>4, <2>1 DEF Readable, Latest
<1>10. Possible(Directory)' = {Latest, r}
  <2>1. PICK X \in Dirs : X = Directory BY <1>1
  <2>2. Possible(Directory)' = Possible(X)' BY <1>4, <2>1 DEF Possible, Edits, Manifest
  <2> QED BY <1>6, <2>1, <2>2
<1>11. DirInv'
  <2> SUFFICES ASSUME NEW D \in Dirs
               PROVE  /\ Manifest(D) \in D.names /\ Edits(D)' # <<>>
                      /\ D.current = 1 \/ files'[Manifest(D)].durable >= 1
    BY <1>1, <1>4, <1>6, <1>9 DEF DirInv, Manifest
  <2> QED BY <1>1, <1>2, <1>6 DEF DirInv
<1>12. ImageInv' /\ SyncedInv'
  <2> SUFFICES ASSUME NEW D \in Dirs, NEW s \in {Latest, r}
               PROVE  /\ D.current < s.next /\ s.log < s.next
                      /\ \A t \in s.tables : /\ Whole(t, D.names)' /\ 0 < t /\ t < s.next
                                             /\ \A e \in Table(t)' : e.sequence <= s.last
                      /\ synced \subseteq Writes(KeptBy(D, s)')
    BY <1>4, <1>6 DEF ImageInv, SyncedInv, Writes
  <2> QED BY <1>7 DEF Describes
<1>13. UniqueInv'
  <2> SUFFICES ASSUME NEW D \in Dirs, NEW E \in Dirs, NEW s \in {Latest, r}, NEW u \in {Latest, r},
                      NEW e \in Held(D, s), NEW f \in Held(E, u), e.sequence = f.sequence
               PROVE  e = f
    BY <1>4, <1>6, <1>7 DEF UniqueInv
  <2>1. PICK A \in Dirs : e \in Held(A, Latest) BY <1>1, <1>8
  <2>2. PICK B \in Dirs : f \in Held(B, Latest) BY <1>1, <1>8
  <2>3. A.current # 0 /\ B.current # 0 /\ Latest \in Possible(A) /\ Latest \in Possible(B)
    BY <1>6
  <2> QED BY <2>1, <2>2, <2>3 DEF ImagesInv, UniqueInv
<1>14. LatestInv'
  <2> SUFFICES ASSUME NEW D \in Dirs, NEW s \in {Latest, r}
               PROVE  /\ s.next <= r.next /\ s.last <= r.last
                      /\ \A n \in LiveLogs(D, s) :
                            \/ n < r.next /\ \A e \in LogEntries(n)' : e.sequence <= r.last
                            \/ n \in LiveLogs(Directory, r)
    BY <1>4, <1>6, <1>9 DEF LatestInv, LiveLogs
  <2>1. s.next <= r.next /\ s.last <= r.last BY DEF Edit
  <2>2. ASSUME NEW n \in LiveLogs(D, s)
        PROVE  \/ n < r.next /\ \A e \in LogEntries(n)' : e.sequence <= r.last
               \/ n \in LiveLogs(Directory, r)
    <3>1. n \in LiveLogs(D, Latest) BY <1>8
    <3>2. \/ n < Latest.next /\ \A e \in LogEntries(n) : e.sequence <= Latest.last
          \/ n \in LiveLogs(Directory, Latest)
      BY <1>6, <3>1 DEF ImagesInv, LatestInv
    <3>3. LogEntries(n)' = LogEntries(n) BY <1>7
    <3>4. n \in Nat /\ LogEntries(n) \subseteq Entry BY <3>1, LogShape
    <3>5. CASE n < Latest.next /\ \A e \in LogEntries(n) : e.sequence <= Latest.last
      <4>1. n < r.next BY <1>1, <3>4, <3>5 DEF Edit
      <4>2. \A e \in LogEntries(n) : e.sequence <= r.last
        BY <1>1, <3>4, <3>5 DEF Edit, Entry
      <4> QED BY <3>3, <4>1, <4>2
    <3>6. CASE n \in LiveLogs(Directory, Latest)
      <4>1. CASE n < r.log BY <3>3, <3>6, <4>1
      <4>2. CASE r.log <= n BY <1>1, <3>6, <4>2, LiveLog
      <4> QED BY <3>4, <4>1, <4>2 DEF Edit
    <3> QED BY <3>2, <3>5, <3>6
  <2> QED BY <2>1, <2>2
<1>15. \A t \in Nat : TableStays(t)
  BY <1>1, <1>4, <1>5, DirectoryShape DEF TableStays, Whole
<1>16. \A n \in Nat : <<"log", n>> \in Directory.names =>
            LogEntries(n)' = LogEntries(n) /\ SyncedEntries(n)' = SyncedEntries(n)
  BY <1>1, <1>5, DirectoryShape
<1> QED BY <1>4, <1>9, <1>10, <1>11, <1>12, <1>13, <1>14, <1>15, <1>16 DEF ImagesInv

\* CURRENT names another manifest, whose record says what the latest image holds.
LEMMA RenameKeeps ==
    ASSUME DiskType, DirInv, ImagesInv, NEW D \in Dir, NEW r \in Edit,
           D.names \subseteq Directory.names, D.current # 0,
           directories' = Append(directories, D), UNCHANGED <<files, synced, unborn>>,
           Manifest(D) \in D.names, Edits(D) = <<r>>,
           D.current = 1 \/ files[Manifest(D)].durable >= 1,
           Describes(D, r),
           \A A \in Dirs : A.current # 0 => \A s \in Possible(A) :
                /\ s.next <= r.next /\ s.last <= r.last
                /\ \A n \in LiveLogs(A, s) : n < r.next /\ \A e \in LogEntries(n) : e.sequence <= r.last,
           Held(D, r) # {} => Readable /\ Held(D, r) \subseteq Held(Directory, Latest)
    PROVE  /\ DiskType' /\ DirInv' /\ ImagesInv' /\ Directory' = D
           /\ Readable' /\ Latest' = r /\ Possible(Directory)' = {r}
           /\ Held(Directory, Latest)' = Held(D, r)
           /\ LiveLogs(Directory, Latest)' = LiveLogs(D, r)
           /\ \A n : Table(n)' = Table(n) /\ LogEntries(n)' = LogEntries(n)
           /\ \A n, names : Whole(n, names)' <=> Whole(n, names)
<1>1. Directory \in Dirs BY DirectoryShape
<1>2. DiskType' /\ Directory' = D /\ Dirs' = Dirs \cup {D} BY Renames
<1>3. ASSUME NEW n, NEW A, NEW s
      PROVE  /\ Table(n)' = Table(n) /\ LogEntries(n)' = LogEntries(n)
             /\ SyncedEntries(n)' = SyncedEntries(n) /\ Edits(A)' = Edits(A)
             /\ Possible(A)' = Possible(A)
             /\ Held(A, s)' = Held(A, s) /\ KeptBy(A, s)' = KeptBy(A, s)
  BY SameFile DEF Held, KeptBy, Tables, Table, LogEntries, SyncedEntries, LiveLogs
<1>4. ASSUME NEW t, NEW names PROVE Whole(t, names)' <=> Whole(t, names)
  BY <1>3 DEF Whole
<1>5. Possible(D) = {r}
  <2>1. Manifest(D) \in DOMAIN files BY <1>1, DirectoryShape
  <2>2. files[Manifest(D)] \in File("manifest") /\ files[Manifest(D)].durable <= Len(Edits(D))
    BY <2>1 DEF DiskType, Manifest, Edits
  <2>3. files[Manifest(D)].durable \in Nat /\ files[Manifest(D)].durable <= 1
    BY <2>2 DEF File
  <2>4. {p \in 1 .. Len(Edits(D)) : files[Manifest(D)].durable <= p} = {1}
    BY <2>3
  <2>5. Edits(D)[1] = r OBVIOUS
  <2> QED BY <2>4, <2>5 DEF Possible
<1>6. Readable' /\ Latest' = r
  <2>1. Edits(Directory)' = <<r>> BY <1>2, <1>3 DEF Edits, Manifest
  <2> QED BY <1>2, <2>1 DEF Readable, Latest
<1>7. Possible(Directory)' = {r} BY <1>2, <1>3, <1>5 DEF Possible, Edits, Manifest
<1>8. DirInv'
  <2> SUFFICES ASSUME NEW A \in Dirs'
               PROVE  /\ A.current = 0 => synced = {} /\ \A n \in Nat : <<"log", n>> \notin A.names
                      /\ A.current # 0 => /\ Manifest(A) \in A.names
                                          /\ Edits(A) = <<>> => unborn
                                          /\ A.current = 1 \/ files[Manifest(A)].durable >= 1
    BY <1>2, <1>3, <1>6 DEF DirInv, Manifest
  <2> QED BY <1>2 DEF DirInv
<1>9. ASSUME NEW A \in Dirs', A.current # 0, NEW s \in Possible(A)'
      PROVE  /\ Describes(A, s) /\ s.next <= r.next /\ s.last <= r.last
             /\ \A n \in LiveLogs(A, s) :
                    \/ n < r.next /\ \A e \in LogEntries(n) : e.sequence <= r.last
                    \/ n \in LiveLogs(D, r)
             /\ \A e \in Held(A, s) : \E B \in Dirs : B.current # 0 /\ \E u \in Possible(B) : e \in Held(B, u)
  <2>1. s \in Possible(A) BY <1>3
  <2>2. CASE A \in Dirs BY <1>9, <2>1, <2>2, AllDescribed
  <2>3. CASE A = D
    <3>1. s = r BY <1>5, <2>1, <2>3
    <3>2. ASSUME NEW e \in Held(D, r)
          PROVE  \E B \in Dirs : B.current # 0 /\ \E u \in Possible(B) : e \in Held(B, u)
      BY <3>2, LatestShape
    <3> QED BY <2>3, <3>1, <3>2 DEF Edit
  <2> QED BY <1>2, <2>2, <2>3
<1>10. ImageInv' /\ SyncedInv'
  <2> SUFFICES ASSUME NEW A \in Dirs', A.current # 0, NEW s \in Possible(A)'
               PROVE  /\ A.current < s.next /\ s.log < s.next
                      /\ \A t \in s.tables : /\ Whole(t, A.names)' /\ 0 < t /\ t < s.next
                                             /\ \A e \in Table(t)' : e.sequence <= s.last
                      /\ synced \subseteq Writes(KeptBy(A, s)')
    BY DEF ImageInv, SyncedInv, Writes
  <2>1. Describes(A, s) BY <1>9
  <2>2. \A t \in s.tables : Whole(t, A.names)' /\ Table(t)' = Table(t)
    BY <1>3, <1>4, <2>1 DEF Describes
  <2>3. KeptBy(A, s)' = KeptBy(A, s) BY <1>3
  <2> QED BY <2>1, <2>2, <2>3 DEF Describes
<1>11. UniqueInv'
  <2> SUFFICES ASSUME NEW A \in Dirs', NEW B \in Dirs', A.current # 0, B.current # 0,
                      NEW s \in Possible(A)', NEW u \in Possible(B)',
                      NEW e \in Held(A, s), NEW f \in Held(B, u), e.sequence = f.sequence
               PROVE  e = f
    BY <1>3 DEF UniqueInv
  <2>1. PICK A1 \in Dirs : A1.current # 0 /\ \E s1 \in Possible(A1) : e \in Held(A1, s1)
    BY <1>9
  <2>2. PICK B1 \in Dirs : B1.current # 0 /\ \E u1 \in Possible(B1) : f \in Held(B1, u1)
    BY <1>9
  <2> QED BY <2>1, <2>2 DEF ImagesInv, UniqueInv
<1>12. LatestInv'
  <2> SUFFICES ASSUME NEW A \in Dirs', A.current # 0, NEW s \in Possible(A)'
               PROVE  /\ s.next <= r.next /\ s.last <= r.last
                      /\ \A n \in LiveLogs(A, s) :
                            \/ n < r.next /\ \A e \in LogEntries(n) : e.sequence <= r.last
                            \/ n \in LiveLogs(D, r)
    BY <1>2, <1>3, <1>6 DEF LatestInv, LiveLogs
  <2> QED BY <1>9
<1>13. Held(Directory, Latest)' = Held(D, r) /\ LiveLogs(Directory, Latest)' = LiveLogs(D, r)
  <2>1. Held(Directory, Latest)' = Held(D, r)' BY <1>2, <1>6 DEF Held, LiveLogs, Tables
  <2>2. LiveLogs(Directory, Latest)' = LiveLogs(D, r) BY <1>2, <1>6 DEF LiveLogs
  <2> QED BY <1>3, <2>1, <2>2
<1> QED BY <1>2, <1>3, <1>4, <1>6, <1>7, <1>8, <1>10, <1>11, <1>12, <1>13 DEF ImagesInv

\* What is left of the files of a directory when power is lost.
LEMMA PowerLost ==
    ASSUME DiskType, DirInv, ImagesInv, AckInv, LosePower
    PROVE  DiskType' /\ DirInv' /\ ImagesInv' /\ AckInv'
<1>1. /\ synced' = synced /\ acked' = acked \cap synced /\ calls' = calls
  BY DEF LosePower, MemoryLost
<1>2. PICK k \in DOMAIN directories :
        LET kept == directories[k].names
            tails == {n \in kept : files[n].durable < Len(files[n].records)}
            Longest == Largest({0} \cup {Len(files[n].records) : n \in tails})
        IN  \E size \in [tails -> 0 .. Longest] :
            LET left(n) == IF n \in tails THEN size[n] ELSE files[n].durable
            IN  /\ \A n \in tails : size[n] \in files[n].durable .. Len(files[n].records)
                /\ files' = [n \in kept |-> [records |-> SubSeq(files[n].records, 1, left(n)),
                                             durable |-> left(n)]]
                /\ directories' = <<directories[k]>>
                /\ unborn' = \/ unborn
                             \/ /\ directories[k].current = 1
                                /\ \E n \in tails : n = <<"manifest", 1>> /\ size[n] = 0
  BY DEF LosePower
<1>20. PICK D \in Dirs : D = directories[k] BY DEF Dirs
<1> DEFINE tails == {n \in D.names : files[n].durable < Len(files[n].records)}
<1>3. PICK size :
        /\ \A n \in tails : size[n] \in files[n].durable .. Len(files[n].records)
        /\ files' = [n \in D.names |->
                        [records |-> SubSeq(files[n].records, 1,
                                            IF n \in tails THEN size[n] ELSE files[n].durable),
                         durable |-> IF n \in tails THEN size[n] ELSE files[n].durable]]
        /\ directories' = <<D>>
        /\ unborn' = \/ unborn
                     \/ /\ D.current = 1
                        /\ \E n \in tails : n = <<"manifest", 1>> /\ size[n] = 0
  BY <1>2, <1>20
<1>4. D \in Dirs /\ D \in Dir /\ D.names \subseteq Name /\ D.names \subseteq DOMAIN files
      /\ <<"log", 0>> \notin D.names /\ D.current \in Nat
  BY DirectoryShape
<1>5. directories' \in Seq(Dir) /\ directories' # <<>> /\ Directory' = D /\ Dirs' = {D}
  BY <1>3, <1>4, Single
<1> DEFINE left(n) == IF n \in tails THEN size[n] ELSE files[n].durable
<1>6. ASSUME NEW n \in D.names
      PROVE  /\ files[n] \in File(n[1]) /\ Len(files[n].records) \in Nat /\ files[n].durable \in Nat
             /\ left(n) \in files[n].durable .. Len(files[n].records)
             /\ files'[n].records = SubSeq(files[n].records, 1, left(n))
             /\ files'[n].durable = left(n) /\ left(n) \in Nat
             /\ files'[n] \in File(n[1])
             /\ Len(files'[n].records) = left(n)
             /\ \A i \in 1 .. left(n) : files'[n].records[i] = files[n].records[i]
  <2>1. files[n] \in File(n[1]) /\ files[n].durable <= Len(files[n].records)
    BY <1>4 DEF DiskType
  <2>2. /\ files[n].records \in Seq(Content(n[1])) /\ files[n].durable \in Nat
        /\ Len(files[n].records) \in Nat
    BY <2>1 DEF File
  <2>3. left(n) \in files[n].durable .. Len(files[n].records)
    BY <1>3, <2>1, <2>2
  <2>4. files'[n] = [records |-> SubSeq(files[n].records, 1, left(n)), durable |-> left(n)]
    BY <1>3
  <2>5. left(n) \in 0 .. Len(files[n].records) /\ left(n) \in Nat BY <2>2, <2>3
  <2> HIDE DEF left
  <2>6. /\ SubSeq(files[n].records, 1, left(n)) \in Seq(Content(n[1]))
        /\ Len(SubSeq(files[n].records, 1, left(n))) = left(n)
        /\ \A i \in 1 .. left(n) : SubSeq(files[n].records, 1, left(n))[i] = files[n].records[i]
    BY <2>2, <2>5
  <2>7. files'[n] \in File(n[1]) BY <2>4, <2>5, <2>6 DEF File
  <2> QED BY <2>1, <2>2, <2>3, <2>4, <2>5, <2>6, <2>7
<1>7. DOMAIN files' = D.names BY <1>3
<1> HIDE DEF left
<1>8. DiskType'
  <2>1. \A n \in DOMAIN files' : files'[n] \in File(n[1]) /\ files'[n].durable <= Len(files'[n].records)
    BY <1>6, <1>7
  <2> QED BY <1>4, <1>5, <1>7, <2>1 DEF DiskType
<1>9. ASSUME NEW t, Whole(t, D.names)
      PROVE  Whole(t, D.names)' /\ Table(t)' = Table(t)
  <2>1. <<"table", t>> \in D.names /\ files[<<"table", t>>].durable = 1
        /\ Len(files[<<"table", t>>].records) = 1 /\ Table(t) # {}
    BY <1>9 DEF Whole
  <2>2. left(<<"table", t>>) = 1 BY <1>6, <2>1
  <2>3. /\ files'[<<"table", t>>].durable = 1 /\ Len(files'[<<"table", t>>].records) = 1
        /\ files'[<<"table", t>>].records[1] = files[<<"table", t>>].records[1]
    BY <1>6, <2>1, <2>2
  <2>4. files'[<<"table", t>>].records # <<>> /\ files[<<"table", t>>].records # <<>>
    BY <2>1, <2>3
  <2>5. Table(t)' = Table(t) BY <2>3, <2>4 DEF Table
  <2> QED BY <2>1, <2>3, <2>5 DEF Whole
<1>10. ASSUME NEW n, <<"log", n>> \in D.names
       PROVE  LogEntries(n)' \subseteq LogEntries(n) /\ SyncedEntries(n) \subseteq SyncedEntries(n)'
              /\ SyncedEntries(n)' \subseteq LogEntries(n)'
  <2> DEFINE m == left(<<"log", n>>)
  <2>1. /\ m \in files[<<"log", n>>].durable .. Len(files[<<"log", n>>].records)
        /\ Len(files'[<<"log", n>>].records) = m /\ files'[<<"log", n>>].durable = m
        /\ files[<<"log", n>>].durable \in Nat /\ Len(files[<<"log", n>>].records) \in Nat
        /\ \A i \in 1 .. m : files'[<<"log", n>>].records[i] = files[<<"log", n>>].records[i]
    BY <1>6, <1>10
  <2> HIDE DEF m
  <2>2. LogEntries(n)' = {files'[<<"log", n>>].records[i] : i \in 1 .. m}
        /\ SyncedEntries(n)' = {files'[<<"log", n>>].records[i] : i \in 1 .. m}
    BY <2>1 DEF LogEntries, SyncedEntries
  <2>3. LogEntries(n)' = {files[<<"log", n>>].records[i] : i \in 1 .. m}
        /\ SyncedEntries(n)' = {files[<<"log", n>>].records[i] : i \in 1 .. m}
    BY <2>1, <2>2
  <2>4. 1 .. m \subseteq 1 .. Len(files[<<"log", n>>].records)
        /\ 1 .. files[<<"log", n>>].durable \subseteq 1 .. m
    BY <2>1
  <2>5. LogEntries(n)' \subseteq LogEntries(n) BY <2>3, <2>4 DEF LogEntries
  <2>6. SyncedEntries(n) \subseteq SyncedEntries(n)' BY <2>3, <2>4 DEF SyncedEntries
  <2> QED BY <2>2, <2>5, <2>6
<1>11. ASSUME D.current # 0
       PROVE  /\ Manifest(D) \in D.names /\ Len(Edits(D)') = left(Manifest(D))
              /\ Possible(D)' \subseteq Possible(D)
              /\ Edits(D)' # <<>> => Possible(D)' = {Edits(D)'[Len(Edits(D)')]}
              /\ Edits(D)' = <<>> => Possible(D)' = {}
              /\ left(Manifest(D)) \in files[Manifest(D)].durable .. Len(Edits(D))
              /\ files'[Manifest(D)].durable = left(Manifest(D))
  <2>1. Manifest(D) \in D.names BY <1>4, <1>11 DEF DirInv
  <2> DEFINE m == left(Manifest(D))
  <2>2. /\ m \in files[Manifest(D)].durable .. Len(Edits(D)) /\ m \in Nat
        /\ Len(Edits(D)') = m /\ files'[Manifest(D)].durable = m
        /\ files[Manifest(D)].durable \in Nat /\ Len(Edits(D)) \in Nat
        /\ \A i \in 1 .. m : Edits(D)'[i] = Edits(D)[i]
        /\ Edits(D)' \in Seq(Content(Manifest(D)[1]))
    BY <1>6, <2>1 DEF Edits, Manifest, File
  <2> HIDE DEF m
  <2>3. Possible(D)' = {Edits(D)'[p] : p \in {p \in 1 .. m : m <= p}}
    BY <2>2 DEF Possible, Manifest
  <2>4. m # 0 => {p \in 1 .. m : m <= p} = {m} BY <2>2
  <2>5. m = 0 => {p \in 1 .. m : m <= p} = {} BY <2>2
  <2>6. Edits(D)' = <<>> <=> m = 0 BY <2>2
  <2>7. Possible(D)' \subseteq Possible(D)
    <3>1. CASE m = 0 BY <2>3, <2>5, <3>1
    <3>2. CASE m # 0
      <4>1. Possible(D)' = {Edits(D)[m]} BY <2>2, <2>3, <2>4, <3>2
      <4>2. m \in {p \in 1 .. Len(Edits(D)) : files[Manifest(D)].durable <= p}
        BY <2>2, <3>2
      <4> QED BY <4>1, <4>2 DEF Possible
    <3> QED BY <3>1, <3>2
  <2> QED BY <2>1, <2>2, <2>3, <2>4, <2>5, <2>6, <2>7 DEF m
<1>12. ASSUME NEW r PROVE LiveLogs(D, r)' = LiveLogs(D, r) /\
                          \A n \in LiveLogs(D, r) : <<"log", n>> \in D.names
  BY <1>4, LiveLog DEF LiveLogs
<1>13. ImagesCome
  <2> SUFFICES ASSUME D.current # 0, NEW r \in Possible(D)' PROVE ComesFrom(D, D, r)
    BY <1>4, <1>5 DEF ImagesCome
  <2>1. r \in Possible(D) BY <1>11
  <2> QED BY <1>9, <1>10, <1>12, <2>1 DEF ComesFrom
<1>14. Edits(Directory)' = Edits(D)' /\ Possible(Directory)' = Possible(D)'
  BY <1>5 DEF Edits, Possible, Manifest
<1>15. DirInv'
  <2>1. Readable' <=> D.current # 0 /\ Edits(D)' # <<>> BY <1>5, <1>14 DEF Readable
  <2> SUFFICES /\ D.current = 0 => synced = {} /\ \A n \in Nat : <<"log", n>> \notin D.names
               /\ D.current # 0 => /\ Manifest(D) \in D.names
                                   /\ Edits(D)' = <<>> => unborn'
                                   /\ D.current = 1 \/ files'[Manifest(D)].durable >= 1
    BY <1>1, <1>5, <2>1 DEF DirInv, Manifest
  <2>2. CASE D.current = 0 BY <1>4, <2>2 DEF DirInv
  <2>3. CASE D.current # 0
    <3>1. /\ Edits(D) = <<>> => unborn
          /\ D.current = 1 \/ files[Manifest(D)].durable >= 1
      BY <1>4, <2>3 DEF DirInv
    <3>2. /\ files[Manifest(D)].durable \in Nat /\ Len(Edits(D)) \in Nat
          /\ Edits(D) \in Seq(Content(Manifest(D)[1]))
      BY <1>6, <1>11, <2>3 DEF Edits, File
    <3>3. D.current = 1 \/ files'[Manifest(D)].durable >= 1
      BY <1>11, <2>3, <3>1, <3>2
    <3>4. ASSUME Edits(D)' = <<>> PROVE unborn'
      <4>1. left(Manifest(D)) = 0 BY <1>11, <2>3, <3>4
      <4>2. files[Manifest(D)].durable = 0 /\ D.current = 1 BY <1>11, <2>3, <3>1, <3>2, <4>1
      <4>3. CASE Edits(D) = <<>> BY <1>3, <3>1, <4>3
      <4>4. CASE Edits(D) # <<>>
        <5>1. Manifest(D) \in tails BY <1>11, <2>3, <3>2, <4>2, <4>4 DEF Edits
        <5>2. size[Manifest(D)] = 0 BY <4>1, <5>1 DEF left
        <5>3. Manifest(D) = <<"manifest", 1>> BY <4>2 DEF Manifest
        <5> QED BY <1>3, <4>2, <5>1, <5>2, <5>3
      <4> QED BY <4>3, <4>4
    <3> QED BY <1>11, <2>3, <3>3, <3>4
  <2> QED BY <2>2, <2>3
<1>16. ImageInv' /\ UniqueInv' /\ SyncedInv'
  BY <1>1, <1>13, ImagesKept DEF ImagesInv
<1>17. ASSUME D.current # 0, NEW r \in Possible(D)'
       PROVE  r = Latest' /\ r \in Edit
  <2>1. r \in Edit BY <1>4, <1>11, <1>17, ManifestShape
  <2> QED BY <1>5, <1>11, <1>14, <1>17, <2>1 DEF Latest
<1>18. LatestInv'
  <2> SUFFICES ASSUME D.current # 0, NEW r \in Possible(D)'
               PROVE  /\ r.next <= (Latest').next /\ r.last <= (Latest').last
                      /\ \A n \in LiveLogs(D, r) : n \in LiveLogs(D, Latest')
    BY <1>5 DEF LatestInv, LiveLogs
  <2> QED BY <1>17 DEF Edit
<1>19. AckInv'
  <2>1. synced \subseteq acked /\ acked \subseteq 1 .. calls BY DEF AckInv
  <2>2. Directory'.current = 0 => synced = {} BY <1>4, <1>5 DEF DirInv
  <2>3. ASSUME Readable' PROVE synced \subseteq Writes(Held(Directory, Latest)')
    <3>1. D.current # 0 /\ Edits(D)' # <<>> BY <1>5, <1>14, <2>3 DEF Readable
    <3>2. PICK r \in Possible(D)' : r = Latest' BY <1>11, <1>17, <3>1
    <3>3. synced \subseteq Writes(KeptBy(D, r)')
      BY <1>1, <1>5, <1>16, <3>1 DEF SyncedInv, Writes
    <3>4. KeptBy(D, r)' \subseteq Held(D, r)'
      <4>1. \A n \in LiveLogs(D, r) : SyncedEntries(n)' \subseteq LogEntries(n)'
        BY <1>10, <1>12
      <4>2. KeptBy(D, r)' = Tables(r.tables)' \cup UNION {SyncedEntries(n)' : n \in LiveLogs(D, r)}
        BY <1>12 DEF KeptBy
      <4>3. Held(D, r)' = Tables(r.tables)' \cup UNION {LogEntries(n)' : n \in LiveLogs(D, r)}
        BY <1>12 DEF Held
      <4> QED BY <4>1, <4>2, <4>3
    <3>5. Held(Directory, Latest)' = Held(D, r)' BY <1>5, <3>2 DEF Held, LiveLogs, Tables
    <3> QED BY <3>3, <3>4, <3>5, WritesGrow
  <2> QED BY <1>1, <2>1, <2>2, <2>3 DEF AckInv, Writes
<1> QED BY <1>8, <1>15, <1>16, <1>18, <1>19 DEF ImagesInv

-----------------------------------------------------------------------------
(* Memory.                                                                  *)

\* The natural numbers are well founded.
LEMMA LeastNumber ==
    ASSUME NEW T, T \subseteq Nat, T # {}
    PROVE  Smallest(T) \in T /\ \A m \in T : Smallest(T) <= m
<1> DEFINE R == {ss \in Nat \X Nat : ss[1] < ss[2]}
<1>1. IsWellFoundedOn(OpToRel(<, Nat), Nat) BY NatLessThanWellFounded
<1>2. OpToRel(<, Nat) = R BY DEF OpToRel
<1>3. PICK x \in T : \A y \in T : <<y, x>> \notin R BY <1>1, <1>2, WFMin
<1>4. \A y \in T : ~(y < x) BY <1>3
<1>5. \A y \in T : x <= y BY <1>4
<1> QED BY <1>5 DEF Smallest

LEMMA LargestOfTwo ==
    ASSUME NEW m \in Nat, NEW n \in Nat
    PROVE  Largest({m, n}) \in {m, n} /\ m <= Largest({m, n}) /\ n <= Largest({m, n})
<1>1. \E x \in {m, n} : \A y \in {m, n} : y <= x OBVIOUS
<1> QED BY <1>1 DEF Largest

\* A database is opening, replaying, recovering or open.
LEMMA Phases ==
    ASSUME MemoryType
    PROVE  Opening \/ Replaying \/ Recovering \/ db.opened
BY DEF MemoryType, Opening, Replaying, Recovering, Pc, Database

LEMMA ClosedShape == Closed \in Database
BY DEF Closed, Database, NoEdit

LEMMA NoWriteShape == NoWrite \notin [entry : Entry, sync : BOOLEAN]
BY DEF NoWrite, Entry

\* The process is gone.
LEMMA Down ==
    ASSUME MemoryType, MemoryLost
    PROVE  /\ MemoryType' /\ OpeningInv' /\ RunningInv' /\ ReplayInv' /\ RecoveringInv'
           /\ OpenInv' /\ WorkInv'
<1>1. /\ pc' = "down" /\ db' = Closed /\ writer' = NoWrite /\ pins' = {}
      /\ crashes' = crashes + 1 /\ UNCHANGED <<calls, iterators>>
  BY DEF MemoryLost
<1>2. MemoryType' BY <1>1, ClosedShape DEF MemoryType, Pc
<1>3. ~Closed.opened BY DEF Closed
<1>4. OpeningInv' BY <1>1 DEF OpeningInv
<1>5. RunningInv' BY <1>1 DEF RunningInv, Opening
<1>6. ReplayInv' BY <1>1 DEF ReplayInv, Replaying
<1>7. RecoveringInv' BY <1>1 DEF RecoveringInv, Recovering
<1>8. OpenInv' /\ WorkInv' BY <1>1, <1>3 DEF OpenInv, WorkInv
<1> QED BY <1>2, <1>4, <1>5, <1>6, <1>7, <1>8

\* A step that leaves the disk alone.
LEMMA Still ==
    ASSUME UNCHANGED diskVars
    PROVE  /\ Directory' = Directory /\ Dirs' = Dirs /\ (Readable' <=> Readable)
           /\ Latest' = Latest /\ Edits(Directory)' = Edits(Directory)
           /\ Possible(Directory)' = Possible(Directory)
           /\ LiveLogs(Directory, Latest)' = LiveLogs(Directory, Latest)
           /\ Held(Directory, Latest)' = Held(Directory, Latest)
           /\ \A n : /\ Table(n)' = Table(n) /\ LogEntries(n)' = LogEntries(n)
                     /\ SyncedEntries(n)' = SyncedEntries(n)
           /\ \A n, names : Whole(n, names)' <=> Whole(n, names)
           /\ View({}) /\ \A t \in Nat : TableStays(t)
<1>1. files' = files /\ directories' = directories BY DEF diskVars
<1>2. Directory' = Directory /\ Dirs' = Dirs /\ (Readable' <=> Readable)
      /\ Latest' = Latest /\ Edits(Directory)' = Edits(Directory)
      /\ Possible(Directory)' = Possible(Directory)
  BY <1>1 DEF Directory, Dirs, Readable, Latest, Edits, Manifest, Possible
<1>3. \A n : /\ Table(n)' = Table(n) /\ LogEntries(n)' = LogEntries(n)
             /\ SyncedEntries(n)' = SyncedEntries(n)
  BY <1>1 DEF Table, LogEntries, SyncedEntries
<1>4. \A n, names : Whole(n, names)' <=> Whole(n, names)
  BY <1>1, <1>3 DEF Whole
<1>5. LiveLogs(Directory, Latest)' = LiveLogs(Directory, Latest) BY <1>2 DEF LiveLogs
<1>6. Tables(Latest.tables)' = Tables(Latest.tables) BY <1>2, <1>3 DEF Tables
<1>7. Held(Directory, Latest)' = Held(Directory, Latest)
  BY <1>3, <1>5, <1>6 DEF Held
<1>8. View({}) BY <1>2, <1>3, <1>5, <1>7 DEF View
<1>9. \A t \in Nat : TableStays(t)
  BY <1>1, <1>2, <1>3, <1>4 DEF TableStays
<1> QED BY <1>2, <1>3, <1>4, <1>5, <1>7, <1>8, <1>9

LEMMA DiskStill ==
    ASSUME DiskType, DirInv, ImagesInv, UNCHANGED <<diskVars, synced, unborn>>
    PROVE  DiskType' /\ DirInv' /\ ImagesInv'
<1>1. files' = files /\ directories' = directories /\ synced' = synced /\ unborn' = unborn
  BY DEF diskVars
<1>2. Dirs' = Dirs /\ Directory' = Directory /\ (Readable' <=> Readable) /\ Latest' = Latest
  BY Still
<1>3. \A D : Manifest(D)' = Manifest(D) /\ Edits(D)' = Edits(D) /\ Possible(D)' = Possible(D)
  BY <1>1 DEF Edits, Manifest, Possible
<1>4. \A n : /\ Table(n)' = Table(n) /\ LogEntries(n)' = LogEntries(n)
             /\ SyncedEntries(n)' = SyncedEntries(n)
  BY Still
<1>5. \A n, names : Whole(n, names)' <=> Whole(n, names) BY Still
<1>6. \A D, r : LiveLogs(D, r)' = LiveLogs(D, r) BY DEF LiveLogs
<1>7. \A D, r : Held(D, r)' = Held(D, r) /\ KeptBy(D, r)' = KeptBy(D, r)
  BY <1>1 DEF Held, KeptBy, Tables, Table, LogEntries, SyncedEntries, LiveLogs
<1>8. DiskType' BY <1>1, <1>2 DEF DiskType
<1>9. DirInv' BY <1>1, <1>2, <1>3 DEF DirInv
<1>10. ImageInv' BY <1>2, <1>3, <1>4, <1>5 DEF ImagesInv, ImageInv
<1>11. SyncedInv'
  <2>1. \A D, r : Writes(KeptBy(D, r))' = Writes(KeptBy(D, r)) BY <1>7 DEF Writes
  <2> QED BY <1>1, <1>2, <1>3, <2>1 DEF ImagesInv, SyncedInv
<1>12. LatestInv'
  <2>1. LiveLogs(Directory, Latest)' = LiveLogs(Directory, Latest) BY Still
  <2> QED BY <1>2, <1>3, <1>4, <1>6, <2>1 DEF ImagesInv, LatestInv
<1>13. UniqueInv' BY <1>2, <1>3, <1>7 DEF ImagesInv, UniqueInv
<1> QED BY <1>8, <1>9, <1>10, <1>11, <1>12, <1>13 DEF ImagesInv

\* The calls and what they promised, where the latest image stays.
LEMMA AckKept ==
    ASSUME AckInv, NEW new, View(new), UNCHANGED <<acked, synced, calls>>
    PROVE  AckInv'
<1>1. Writes(Held(Directory, Latest))' = Writes(Held(Directory, Latest)')
  BY DEF Writes
<1>2. Readable => Held(Directory, Latest)' = Held(Directory, Latest) BY DEF View
<1> QED BY <1>1, <1>2 DEF AckInv, View

\* What the numbers of a running database are above.
LEMMA Given ==
    ASSUME Inv, ~Opening
    PROVE  /\ Readable /\ Directory \in Dirs /\ Latest \in Possible(Directory) /\ Latest \in Edit
           /\ Directory.current # 0 /\ db \in Database
           /\ \A D \in Dirs : D.current # 0 => \A r \in Possible(D) :
                /\ r \in Edit /\ r.next <= Latest.next /\ r.next <= db.next /\ r.last <= db.last
                /\ D.current < Latest.next
                /\ \A t \in r.tables : t < db.next
                /\ db.todo = {} =>
                    /\ \A n \in LiveLogs(D, r) :
                        n < db.next /\ \A e \in LogEntries(n) : e.sequence <= LastGiven
                    /\ \A e \in Held(D, r) : e.sequence <= LastGiven
<1>1. DiskType /\ DirInv /\ ImagesInv /\ MemoryType /\ RunningInv BY DEF Inv, Core, DiskInv
<1>2. Readable /\ Latest.next <= db.next /\ Latest.last <= db.last BY <1>1 DEF RunningInv
<1>3. Directory \in Dirs /\ Latest \in Possible(Directory) /\ Latest \in Edit /\ Directory.current # 0
  BY <1>1, <1>2, LatestShape
<1>4. db \in Database /\ db.last \in Nat /\ db.next \in Nat BY <1>1 DEF MemoryType, Database
<1>5. LastGiven \in Nat /\ db.last <= LastGiven
  <2>1. CASE writer = NoWrite BY <1>4, <2>1 DEF LastGiven
  <2>2. CASE writer # NoWrite
    <3>1. db.opened BY <1>1, <2>2, Phases DEF Inv, Core, ReplayInv, RecoveringInv
    <3>2. writer.entry.sequence = db.last + 1 BY <2>2, <3>1 DEF Inv, Core, OpenInv
    <3> QED BY <1>4, <2>2, <3>2 DEF LastGiven
  <2> QED BY <2>1, <2>2
<1>6. ASSUME NEW D \in Dirs, D.current # 0, NEW r \in Possible(D)
      PROVE  /\ r \in Edit /\ r.next <= Latest.next /\ r.next <= db.next /\ r.last <= db.last
             /\ D.current < Latest.next
             /\ \A t \in r.tables : t < db.next
             /\ db.todo = {} =>
                    /\ \A n \in LiveLogs(D, r) :
                        n < db.next /\ \A e \in LogEntries(n) : e.sequence <= LastGiven
                    /\ \A e \in Held(D, r) : e.sequence <= LastGiven
  <2>1. r \in Edit BY <1>1, <1>6, ManifestShape
  <2>2. /\ r.next <= Latest.next /\ r.last <= Latest.last
        /\ \A n \in LiveLogs(D, r) :
            \/ n < Latest.next /\ \A e \in LogEntries(n) : e.sequence <= Latest.last
            \/ n \in LiveLogs(Directory, Latest)
    BY <1>1, <1>6 DEF ImagesInv, LatestInv
  <2>3. /\ D.current < r.next
        /\ \A t \in r.tables : Whole(t, D.names) /\ t < r.next /\ \A e \in Table(t) : e.sequence <= r.last
    BY <1>1, <1>6 DEF ImagesInv, ImageInv
  <2>4. r.next \in Nat /\ r.last \in Nat /\ Latest.next \in Nat /\ Latest.last \in Nat
        /\ r.tables \subseteq Nat /\ D.current \in Nat
    BY <1>1, <1>3, <2>1, DirectoryShape DEF Edit
  <2>5. r.next <= db.next /\ r.last <= db.last /\ D.current < Latest.next
    BY <1>2, <1>4, <2>2, <2>3, <2>4
  <2>6. \A t \in r.tables : t < db.next BY <1>4, <2>3, <2>4, <2>5
  <2>7. ASSUME db.todo = {}, NEW n \in LiveLogs(D, r)
        PROVE  n < db.next /\ \A e \in LogEntries(n) : e.sequence <= LastGiven
    <3>1. n \in Nat /\ LogEntries(n) \subseteq Entry BY <1>1, <2>7, LogShape
    <3>2. CASE n \in LiveLogs(Directory, Latest)
      BY <1>1, <2>7, <3>2 DEF RunningInv
    <3>3. CASE n < Latest.next /\ \A e \in LogEntries(n) : e.sequence <= Latest.last
      <4>1. n < db.next BY <1>2, <1>4, <2>4, <3>1, <3>3
      <4>2. \A e \in LogEntries(n) : e.sequence <= LastGiven
        BY <1>2, <1>4, <1>5, <2>4, <3>1, <3>3 DEF Entry
      <4> QED BY <4>1, <4>2
    <3> QED BY <2>2, <2>7, <3>2, <3>3
  <2>8. ASSUME db.todo = {}, NEW e \in Held(D, r)
        PROVE  e.sequence <= LastGiven
    <3>1. CASE e \in UNION {LogEntries(n) : n \in LiveLogs(D, r)} BY <2>7, <2>8, <3>1
    <3>2. CASE e \in Tables(r.tables)
      <4>1. PICK t \in r.tables : e \in Table(t) BY <3>2 DEF Tables
      <4>2. Table(t) \subseteq Entry
        BY <1>1, <1>6, <2>3, <2>4, DirectoryShape, TableShape DEF Whole
      <4>3. e.sequence \in Nat /\ e.sequence <= r.last BY <2>3, <4>1, <4>2 DEF Entry
      <4> QED BY <1>4, <1>5, <2>4, <2>5, <4>3
    <3> QED BY <2>8, <3>1, <3>2 DEF Held
  <2> QED BY <2>1, <2>2, <2>5, <2>6, <2>7, <2>8
<1> QED BY <1>2, <1>3, <1>4, <1>6

\* The next number is free; so is the one that recovery took for its manifest.
LEMMA FreeNumbers ==
    ASSUME Inv, ~Opening
    PROVE  /\ Unused(<<"table", db.next>>) /\ Unused(<<"manifest", Latest.next>>)
           /\ db.todo = {} => Unused(<<"log", db.next>>)
<1>1. db.next \in Nat /\ Latest.next \in Nat BY Given DEF Database, Edit
<1> SUFFICES ASSUME NEW D \in Dirs, D.current # 0
             PROVE  /\ <<"manifest", Latest.next>> # Manifest(D)
                    /\ \A r \in Possible(D) :
                        /\ \A t \in r.tables : <<"table", db.next>> # <<"table", t>>
                        /\ db.todo = {} => \A n \in LiveLogs(D, r) : <<"log", db.next>> # <<"log", n>>
  BY DEF Unused, Manifest
<1>2. <<"manifest", Latest.next>> # Manifest(D)
  <2>1. CASE Possible(D) = {}
    <3>1. Edits(D) = <<>> BY <2>1, ManifestShape DEF Inv, Core, DiskInv
    <3>2. D.current = 1
      <4>1. files[Manifest(D)].durable \in 0 .. Len(Edits(D)) BY ManifestShape DEF Inv, Core, DiskInv
      <4>2. D.current = 1 \/ files[Manifest(D)].durable >= 1 BY DEF Inv, Core, DiskInv, DirInv
      <4> QED BY <3>1, <4>1, <4>2
    <3>3. Directory.current < Latest.next /\ Directory.current # 0 /\ Directory.current \in Nat
      BY Given, DirectoryShape DEF Inv, Core, DiskInv
    <3> QED BY <1>1, <3>2, <3>3 DEF Manifest
  <2>2. CASE Possible(D) # {}
    <3>1. D.current < Latest.next BY <2>2, Given
    <3>2. D.current \in Nat BY DirectoryShape DEF Inv, Core, DiskInv
    <3> QED BY <1>1, <3>1, <3>2 DEF Manifest
  <2> QED BY <2>1, <2>2
<1>3. ASSUME NEW r \in Possible(D)
      PROVE  /\ \A t \in r.tables : <<"table", db.next>> # <<"table", t>>
             /\ db.todo = {} => \A n \in LiveLogs(D, r) : <<"log", db.next>> # <<"log", n>>
  <2>1. /\ \A t \in r.tables : t < db.next
        /\ db.todo = {} => \A n \in LiveLogs(D, r) : n < db.next
    BY Given
  <2> QED BY <1>1, <2>1
<1> QED BY <1>2, <1>3

\* What the new state of a running database must be beside the latest image.
LEMMA RunningKept ==
    ASSUME Inv, ~Opening, NEW new, View(new), MemoryType',
           db'.next >= db.next, db'.last >= db.last, db'.manifest < db'.next,
           \A t \in db'.version \cup db'.edit.add :
                \/ t \in db.version \cup db.edit.add /\ TableStays(t)
                \/ /\ Whole(t, Directory.names)' /\ 0 < t /\ t < db'.next
                   /\ Table(t)' \subseteq Contents,
           \A e \in db'.mem \cup db'.imm :
                \/ e \in db.mem \cup db.imm
                \/ e.sequence <= db'.last /\ e \in Held(Directory, Latest),
           \A n \in LiveLogs(Directory, Latest) : n \notin db'.todo =>
                \/ n \notin db.todo /\ LastGiven' >= LastGiven
                \/ n < db'.next /\ \A e \in LogEntries(n) : e.sequence <= LastGiven',
           \A n \in new : n < db'.next,
           LastGiven' \in Nat
    PROVE  RunningInv'
<1>1. /\ Readable /\ Directory \in Dirs /\ Latest \in Edit /\ db \in Database
      /\ DiskType /\ DirInv /\ ImagesInv /\ RunningInv
  BY Given DEF Inv, Core, DiskInv
<1>2. /\ Readable' /\ Latest' = Latest
      /\ LiveLogs(Directory, Latest)' = LiveLogs(Directory, Latest) \cup new
      /\ \A n \in LiveLogs(Directory, Latest) : LogEntries(n)' = LogEntries(n)
      /\ \A n \in new : LogEntries(n)' = {}
      /\ Held(Directory, Latest)' = Held(Directory, Latest)
  BY <1>1 DEF View
<1>3. /\ Latest.next <= db.next /\ Latest.last <= db.last
      /\ \A t \in db.version \cup db.edit.add :
            /\ Whole(t, Directory.names) /\ 0 < t /\ t < db.next
            /\ \A e \in Table(t) : e.sequence <= db.last
      /\ \A e \in db.mem \cup db.imm : e.sequence <= db.last
      /\ Contents \cup Tables(db.edit.add) \subseteq Held(Directory, Latest)
      /\ \A n \in LiveLogs(Directory, Latest) \ db.todo :
            n < db.next /\ \A e \in LogEntries(n) : e.sequence <= LastGiven
  BY <1>1 DEF RunningInv
<1>4. /\ db.next \in Nat /\ db.last \in Nat /\ db'.next \in Nat /\ db'.last \in Nat
      /\ db.version \cup db.edit.add \subseteq Nat /\ db'.version \cup db'.edit.add \subseteq Nat
      /\ db.mem \cup db.imm \subseteq Entry /\ db'.mem \cup db'.imm \subseteq Entry
      /\ Latest.next \in Nat /\ Latest.last \in Nat
  BY <1>1 DEF Inv, Core, MemoryType, Database, Edit
<1>5. \A t \in db.version \cup db.edit.add : Table(t) \subseteq Entry
  BY <1>1, <1>3, <1>4, DirectoryShape, TableShape DEF Whole
<1>6. \A e \in Contents : e \in Entry /\ e.sequence <= db.last
  <2>1. \A e \in Tables(db.version) : e \in Entry /\ e.sequence <= db.last
    BY <1>3, <1>5 DEF Tables
  <2> QED BY <1>3, <1>4, <2>1 DEF Contents, Tables
<1>7. ASSUME NEW t \in db'.version \cup db'.edit.add
      PROVE  /\ Whole(t, Directory.names)' /\ 0 < t /\ t < db'.next
             /\ \A e \in Table(t)' : e.sequence <= db'.last
             /\ Table(t)' \subseteq Held(Directory, Latest)
  <2>1. CASE t \in db.version \cup db.edit.add /\ TableStays(t)
    <3>1. Whole(t, Directory.names) /\ Whole(t, Directory.names)' /\ Table(t)' = Table(t)
      BY <1>3, <2>1 DEF TableStays, Whole
    <3>2. Table(t) \subseteq Held(Directory, Latest)
      <4>1. Table(t) \subseteq Tables(db.version) \cup Tables(db.edit.add) BY <2>1 DEF Tables
      <4> QED BY <1>3, <4>1 DEF Contents, Tables
    <3>3. 0 < t /\ t < db'.next BY <1>3, <1>4, <2>1
    <3>4. \A e \in Table(t) : e.sequence <= db'.last BY <1>3, <1>4, <1>5, <2>1 DEF Entry
    <3> QED BY <3>1, <3>2, <3>3, <3>4
  <2>2. CASE /\ Whole(t, Directory.names)' /\ 0 < t /\ t < db'.next
             /\ Table(t)' \subseteq Contents
    <3>1. \A e \in Table(t)' : e.sequence <= db'.last BY <1>4, <1>6, <2>2 DEF Entry
    <3> QED BY <1>3, <2>2, <3>1
  <2> QED BY <2>1, <2>2
<1>8. ASSUME NEW e \in db'.mem \cup db'.imm
      PROVE  e.sequence <= db'.last /\ e \in Held(Directory, Latest)
  <2>1. CASE e \in db.mem \cup db.imm
    <3>1. e.sequence <= db.last /\ e.sequence \in Nat BY <1>3, <1>4, <2>1 DEF Entry
    <3> QED BY <1>3, <1>4, <2>1, <3>1 DEF Contents
  <2> QED BY <2>1
<1>9. (Contents \cup Tables(db.edit.add))' \subseteq Held(Directory, Latest)'
  <2>1. (Contents \cup Tables(db.edit.add))'
            = db'.mem \cup db'.imm \cup (UNION {Table(t)' : t \in db'.version})
                \cup (UNION {Table(t)' : t \in db'.edit.add})
    BY DEF Contents, Tables
  <2> QED BY <1>2, <1>7, <1>8, <2>1
<1>10. ASSUME NEW n \in LiveLogs(Directory, Latest)', n \notin db'.todo
       PROVE  n < db'.next /\ \A e \in LogEntries(n)' : e.sequence <= LastGiven'
  <2>1. CASE n \in new BY <1>2, <2>1
  <2>2. CASE n \in LiveLogs(Directory, Latest)
    <3>1. n \in Nat /\ LogEntries(n) \subseteq Entry BY <1>1, <2>2, LogShape
    <3>2. CASE n < db'.next /\ \A e \in LogEntries(n) : e.sequence <= LastGiven'
      BY <1>2, <2>2, <3>2
    <3>3. CASE n \notin db.todo /\ LastGiven' >= LastGiven
      <4>1. n < db.next /\ \A e \in LogEntries(n) : e.sequence <= LastGiven
        BY <1>3, <2>2, <3>3
      <4>2. LastGiven \in Nat
        BY <1>1 DEF LastGiven, Database, Inv, Core, MemoryType, Entry
      <4>3. n < db'.next BY <1>4, <3>1, <4>1
      <4>4. \A e \in LogEntries(n) : e.sequence <= LastGiven' BY <3>1, <3>3, <4>1, <4>2 DEF Entry
      <4> QED BY <1>2, <2>2, <4>3, <4>4
    <3> QED BY <1>10, <2>2, <3>2, <3>3
  <2> QED BY <1>2, <1>10, <2>1, <2>2
<1>11. (Latest.next)' <= db'.next /\ (Latest.last)' <= db'.last BY <1>2, <1>3, <1>4
<1> QED BY <1>2, <1>7, <1>8, <1>9, <1>10, <1>11 DEF RunningInv

\* The background thread's and the clients' steps.
LEMMA OpenPhase ==
    ASSUME db'.opened, db'.described,
           pc' \in {"idle", "merge", "build", "sync", "apply", "syncManifest", "install", "clean"}
    PROVE  ~Opening' /\ OpeningInv' /\ ReplayInv' /\ RecoveringInv'
<1>1. ~Opening' BY DEF Opening
<1>2. ~Replaying' BY DEF Replaying
<1>3. ~Recovering' BY DEF Recovering
<1> QED BY <1>1, <1>2, <1>3 DEF OpeningInv, ReplayInv, RecoveringInv

LEMMA OpenFacts ==
    ASSUME Inv, db.opened
    PROVE  /\ ~Opening /\ Readable /\ DiskType /\ DirInv /\ ImagesInv /\ AckInv /\ MemoryType
           /\ OpenInv /\ WorkInv /\ RunningInv /\ db \in Database
           /\ Directory \in Dirs /\ Latest \in Possible(Directory) /\ Latest \in Edit
           /\ Directory.current # 0 /\ db.todo = {} /\ db.described
           /\ db.log \in LiveLogs(Directory, Latest) /\ db.log # 0
           /\ Latest.log <= db.log
<1>1. ~Opening BY DEF Inv, Core, OpenInv, Opening
<1>2. Readable /\ Directory \in Dirs /\ Latest \in Possible(Directory) /\ Latest \in Edit
      /\ Directory.current # 0 /\ db \in Database
  BY <1>1, Given
<1>3. /\ <<"log", db.log>> \in Directory.names /\ Latest.log <= db.log
      /\ db.todo = {} /\ db.described
  BY <1>2 DEF Inv, Core, OpenInv
<1>4. db.log \in Nat BY <1>2 DEF Database
<1>5. db.log \in LiveLogs(Directory, Latest) BY <1>2, <1>3, <1>4, LiveLog DEF Inv, Core, DiskInv
<1>6. db.log # 0 BY <1>2, <1>3, DirectoryShape DEF Inv, Core, DiskInv
<1> QED BY <1>1, <1>2, <1>3, <1>5, <1>6 DEF Inv, Core, DiskInv

\* A step that leaves the logs and what the clients see alone.
LEMMA OpenKept ==
    ASSUME Inv, db.opened, View({}),
           pc' \in {"idle", "merge", "build", "sync", "apply", "syncManifest", "install", "clean"},
           db'.opened, db'.described, db'.manifest = db.manifest, db'.todo = {},
           db'.log = db.log, db'.mem = db.mem, db'.last = db.last, db'.next >= db.next,
           db'.next \in Nat, db'.logNumber <= db.log,
           UNCHANGED <<writer, calls, acked, synced>>,
           <<"log", db.log>> \in Directory'.names,
           SyncedEntries(db.log) \subseteq SyncedEntries(db.log)',
           Contents \subseteq Contents',
           Tables(db.version) \cup db.imm \subseteq (Tables(db.version) \cup db.imm)',
           \A t \in Pinned' : (t \in Pinned \/ t \in db.version) /\ TableStays(t)
    PROVE  OpenInv'
<1>1. /\ Readable /\ OpenInv /\ db \in Database /\ Latest \in Edit /\ RunningInv /\ DiskType
      /\ db.log \in LiveLogs(Directory, Latest) /\ MemoryType /\ ~Opening
  BY OpenFacts
<1>2. /\ Directory'.current = Directory.current /\ Latest' = Latest
      /\ Possible(Directory)' \subseteq Possible(Directory)
      /\ LiveLogs(Directory, Latest)' = LiveLogs(Directory, Latest)
      /\ \A n \in LiveLogs(Directory, Latest) : LogEntries(n)' = LogEntries(n)
  BY <1>1 DEF View
<1>3. LogEntries(db.log)' = LogEntries(db.log)
  <2>1. PICK n \in LiveLogs(Directory, Latest) : n = db.log BY <1>1
  <2>2. LogEntries(db.log)' = LogEntries(n)' BY <2>1 DEF LogEntries
  <2> QED BY <1>2, <2>1, <2>2
<1>4. acked' \subseteq Writes(Contents)'
  <2>1. Writes(Contents) \subseteq Writes(Contents') BY WritesGrow
  <2>2. Writes(Contents)' = Writes(Contents') BY DEF Writes
  <2> QED BY <1>1, <2>1, <2>2 DEF OpenInv
<1>5. synced' \subseteq Writes(Tables(db.version) \cup db.imm \cup SyncedEntries(db.log))'
  <2> DEFINE kept == Tables(db.version) \cup db.imm \cup SyncedEntries(db.log)
  <2>1. kept \subseteq kept' OBVIOUS
  <2>2. synced \subseteq Writes(kept) BY <1>1 DEF OpenInv
  <2>3. Writes(kept)' = Writes(kept') BY DEF Writes
  <2>4. Writes(kept) \subseteq Writes(kept') BY <2>1, WritesGrow
  <2> QED BY <2>2, <2>3, <2>4
<1>6. ASSUME NEW t \in Pinned'
      PROVE  /\ <<"table", t>> \in Directory'.names /\ Table(t)' # {}
             /\ 0 < t /\ t < db'.next
  <2>1. (t \in Pinned \/ t \in db.version) /\ TableStays(t) OBVIOUS
  <2>2. <<"table", t>> \in Directory.names /\ Table(t) # {} /\ 0 < t /\ t < db.next
    BY <1>1, <2>1 DEF OpenInv, RunningInv, Whole
  <2>3. t \in Nat
    <3>1. CASE t \in db.version BY <1>1, <3>1 DEF Database
    <3>2. CASE t \in Pinned BY <1>1, <3>2 DEF Pinned, MemoryType
    <3> QED BY <2>1, <3>1, <3>2
  <2>4. <<"table", t>> \in Directory'.names /\ Table(t)' = Table(t) BY <2>1, <2>2 DEF TableStays
  <2>5. db.next \in Nat BY <1>1 DEF Database
  <2> QED BY <2>2, <2>3, <2>4, <2>5
<1>7. /\ db'.described /\ Directory'.current = db'.manifest /\ db'.todo = {}
      /\ <<"log", db'.log>> \in Directory'.names /\ db'.log < db'.next
      /\ db'.logNumber <= db'.log
  <2>1. db.log \in Nat /\ db.next \in Nat BY <1>1 DEF Database
  <2>2. Directory.current = db.manifest /\ db.log < db.next BY <1>1 DEF OpenInv
  <2> QED BY <1>2, <2>1, <2>2
<1>8. /\ \A r \in Possible(Directory)' : r.log <= db'.log
      /\ \A n \in LiveLogs(Directory, Latest)' : n <= db'.log
      /\ \A n \in LiveLogs(Directory, Latest)' \ {db'.log} :
            \A e \in LogEntries(n)' : e.sequence <= db'.last
      /\ db'.mem \subseteq LogEntries(db.log)'
  BY <1>1, <1>2, <1>3 DEF OpenInv
<1>9. IF writer' = NoWrite THEN LogEntries(db.log)' \subseteq db'.mem
      ELSE /\ LogEntries(db.log)' \subseteq db'.mem \cup {writer'.entry}
           /\ writer'.entry \in LogEntries(db.log)'
           /\ writer'.entry.sequence = db'.last + 1 /\ writer'.entry.write <= calls'
  BY <1>1, <1>3 DEF OpenInv
<1> QED BY <1>4, <1>5, <1>6, <1>7, <1>8, <1>9 DEF OpenInv

-----------------------------------------------------------------------------
(* DB::Open, to the state it recovers.                                      *)

\* Before the manifest is read.
LEMMA OpeningPhase ==
    ASSUME db' = Closed, writer' = NoWrite, pins' = {}, MemoryType', DiskInv',
           \/ pc' \in {"down", "newDB", "recover", "broken"}
           \/ pc' \in {"current", "rename"} /\ ~db'.described,
           pc' \in {"newDB", "current", "rename"} => Directory'.current = 0,
           pc' \in {"current", "rename"} =>
                /\ <<"manifest", 1>> \in Directory'.names
                /\ files'[<<"manifest", 1>>].records = <<FirstEdit>>,
           pc' = "recover" => Directory'.current # 0,
           pc' = "broken" => unborn'
    PROVE  Core'
<1>1. Opening' BY DEF Opening
<1>2. OpeningInv' BY DEF OpeningInv
<1>3. ~Replaying' /\ ~Recovering'
  BY DEF Replaying, Recovering
<1>4. ~db'.opened BY DEF Closed
<1>5. RunningInv' BY <1>1 DEF RunningInv
<1>6. ReplayInv' /\ RecoveringInv' BY <1>3 DEF ReplayInv, RecoveringInv
<1>7. OpenInv' /\ WorkInv' BY <1>4 DEF OpenInv, WorkInv
<1> QED BY <1>2, <1>5, <1>6, <1>7 DEF Inv, Core

LEMMA OpenKeeps ==
    ASSUME Inv, Open
    PROVE  Core'
<1>1. /\ pc = "down" /\ pc' = IF Directory.current = 0 THEN "newDB" ELSE "recover"
      /\ UNCHANGED <<diskVars, db, writer, pins, countVars, historyVars>>
  BY DEF Open, Alone
<1>2. Opening BY <1>1 DEF Opening
<1>3. db = Closed /\ writer = NoWrite /\ pins = {} /\ MemoryType
  BY <1>2 DEF Inv, Core, OpeningInv
<1>4. DiskType' /\ DirInv' /\ ImagesInv' /\ Directory' = Directory /\ View({})
  BY <1>1, DiskStill, Still DEF Inv, Core, DiskInv, historyVars
<1>5. AckInv' BY <1>1, <1>4, AckKept DEF Inv, Core, DiskInv, historyVars, countVars
<1>6. MemoryType' BY <1>1, <1>3 DEF MemoryType, Pc, countVars
<1>7. CASE Directory.current = 0
  <2>1. pc' = "newDB" BY <1>1, <1>7
  <2> QED BY <1>1, <1>3, <1>4, <1>5, <1>6, <1>7, <2>1, OpeningPhase DEF DiskInv
<1>8. CASE Directory.current # 0
  <2>1. pc' = "recover" BY <1>1, <1>8
  <2> QED BY <1>1, <1>3, <1>4, <1>5, <1>6, <1>8, <2>1, OpeningPhase DEF DiskInv
<1> QED BY <1>7, <1>8

LEMMA NewDBKeeps ==
    ASSUME Inv, NewDB
    PROVE  Core'
<1> DEFINE name == <<"manifest", 1>>
<1>1. /\ pc = "newDB" /\ pc' = "current" /\ Create(name, <<FirstEdit>>)
      /\ UNCHANGED <<db, writer, pins, countVars, historyVars>>
  BY DEF NewDB, Alone, FirstEdit
<1>2. Opening BY <1>1 DEF Opening
<1>3. db = Closed /\ writer = NoWrite /\ pins = {} /\ MemoryType /\ Directory.current = 0
  BY <1>1, <1>2 DEF Inv, Core, OpeningInv
<1>4. Unused(name) BY <1>3 DEF Unused, Inv, Core, DiskInv, DirInv
<1>5. name \in Name /\ name # <<"log", 0>> /\ name[1] # "log" BY DEF Name
<1>6. <<FirstEdit>> \in Seq(Content(name[1]))
  <2>1. FirstEdit \in Edit BY DEF FirstEdit, Edit
  <2>2. Content(name[1]) = Edit BY DEF Content
  <2> QED BY <2>1, <2>2
<1> HIDE DEF name
<1>7. /\ DiskType' /\ DirInv' /\ ImagesInv' /\ View({})
  BY <1>1, <1>4, <1>5, <1>6, CreateKeeps DEF Inv, Core, DiskInv, historyVars
<1>8. /\ Directory'.names = Directory.names \cup {name}
      /\ Directory'.current = Directory.current
      /\ files'[name] = [records |-> <<FirstEdit>>, durable |-> 0]
  BY <1>1, <1>5, <1>6, Creates DEF Inv, Core, DiskInv
<1>9. AckInv' BY <1>1, <1>7, AckKept DEF Inv, Core, DiskInv, historyVars, countVars
<1>10. MemoryType' BY <1>1, <1>3 DEF MemoryType, Pc, countVars
<1>11. ~db'.described BY <1>1, <1>3 DEF Closed
<1>12. files'[<<"manifest", 1>>].records = <<FirstEdit>> /\ <<"manifest", 1>> \in Directory'.names
  BY <1>8 DEF name
<1> QED BY <1>1, <1>3, <1>7, <1>8, <1>9, <1>10, <1>11, <1>12, OpeningPhase DEF DiskInv

\* A step of recovery after the replay, where nothing has to be said of its place.
LEMMA RecoveringPhase ==
    ASSUME Recovering', DiskInv', MemoryType', RunningInv', RecoveringInv'
    PROVE  Core'
<1>1. ~db'.opened /\ ~Opening' /\ ~Replaying' BY DEF Recovering, Opening, Replaying
<1> QED BY <1>1 DEF Inv, Core, OpeningInv, ReplayInv, OpenInv, WorkInv

LEMMA RecoveringFacts ==
    ASSUME Inv, Recovering
    PROVE  /\ ~Opening /\ ~db.opened /\ Readable /\ DiskType /\ DirInv /\ ImagesInv /\ AckInv
           /\ MemoryType /\ RecoveringInv /\ RunningInv /\ db \in Database
           /\ Directory \in Dirs /\ Latest \in Possible(Directory) /\ Latest \in Edit
           /\ Directory.current # 0
           /\ writer = NoWrite /\ pins = {} /\ db.todo = {} /\ db.mem = {} /\ db.imm = {}
           /\ db.edit.delete = {} /\ NewTables = db.version \cup db.edit.add
           /\ db.log \in LiveLogs(Directory, Latest)
           /\ LogEntries(db.log) = {}
           /\ \A n \in LiveLogs(Directory, Latest) : n <= db.log
<1>1. ~Opening /\ ~db.opened BY DEF Recovering, Opening
<1>2. /\ writer = NoWrite /\ pins = {} /\ db.todo = {} /\ db.mem = {} /\ db.imm = {}
      /\ db.edit.delete = {} /\ <<"log", db.log>> \in Directory.names
      /\ files[<<"log", db.log>>].records = <<>> /\ db.next = db.log + 1
  BY DEF Inv, Core, RecoveringInv
<1>3. Readable /\ Directory \in Dirs /\ Latest \in Possible(Directory) /\ Latest \in Edit
      /\ Directory.current # 0 /\ db \in Database
  BY <1>1, Given
<1>4. NewTables = db.version \cup db.edit.add BY <1>2 DEF NewTables
<1>5. Latest.log < Latest.next /\ Latest.next <= db.next
  BY <1>1, <1>3 DEF Inv, Core, DiskInv, ImagesInv, ImageInv, RunningInv
<1>6. db.log \in Nat /\ db.next \in Nat /\ Latest.log \in Nat /\ Latest.next \in Nat
  BY <1>3 DEF Database, Edit
<1>7. Latest.log <= db.log BY <1>2, <1>5, <1>6
<1>8. db.log \in LiveLogs(Directory, Latest) BY <1>2, <1>3, <1>6, <1>7, LiveLog DEF Inv, Core, DiskInv
<1>9. LogEntries(db.log) = {} BY <1>2 DEF LogEntries
<1>10. \A n \in LiveLogs(Directory, Latest) : n <= db.log
  <2>1. \A n \in LiveLogs(Directory, Latest) : n < db.next BY <1>1, <1>2 DEF Inv, Core, RunningInv
  <2>2. \A n \in LiveLogs(Directory, Latest) : n \in Nat BY <1>3, LogShape DEF Inv, Core, DiskInv
  <2> QED BY <1>2, <1>6, <2>1, <2>2
<1> QED BY <1>1, <1>2, <1>3, <1>4, <1>8, <1>9, <1>10 DEF Inv, Core, DiskInv

\* What RecoveringInv says in each of its places, where the latest image stays.
LEMMA RecoveringKept ==
    ASSUME Inv, Recovering, View({}), UNCHANGED <<writer, pins, acked>>, ~db'.opened,
           \A t \in Nat : t \in NewTables => TableStays(t),
           <<"log", db.log>> \in Directory'.names,
           files'[<<"log", db.log>>].records = files[<<"log", db.log>>].records,
           db'.todo = {}, db'.mem = {}, db'.imm = {}, db'.edit.delete = {},
           db'.log = db.log, db'.next = db.next, db'.last = db.last,
           db'.version = db.version, db'.edit = db.edit
    PROVE  /\ db'.next = db'.log + 1 /\ writer' = NoWrite /\ pins' = {}
           /\ files'[<<"log", db'.log>>].records = <<>> /\ <<"log", db'.log>> \in Directory'.names
           /\ acked' \subseteq Writes(Tables(NewTables))'
           /\ NewTables' = NewTables /\ NewEdit' = NewEdit /\ Latest' = Latest
           /\ Directory'.current = Directory.current
<1>1. /\ Readable /\ db \in Database /\ writer = NoWrite /\ pins = {} /\ RecoveringInv /\ RunningInv
      /\ NewTables = db.version \cup db.edit.add /\ ~Opening
  BY RecoveringFacts
<1>2. NewTables' = NewTables /\ NewEdit' = NewEdit BY DEF NewTables, NewEdit
<1>3. acked' \subseteq Writes(Tables(NewTables))'
  <2>1. \A t \in NewTables : Whole(t, Directory.names) /\ t \in Nat
    BY <1>1 DEF RunningInv, Database
  <2>2. \A t \in NewTables : Table(t)' = Table(t) BY <2>1 DEF TableStays, Whole
  <2>3. Tables(NewTables)' = Tables(NewTables) BY <1>2, <2>2 DEF Tables
  <2>4. Writes(Tables(NewTables))' = Writes(Tables(NewTables)) BY <2>3 DEF Writes
  <2> QED BY <1>1, <2>4 DEF RecoveringInv
<1>4. Latest' = Latest /\ Directory'.current = Directory.current BY <1>1 DEF View
<1> QED BY <1>1, <1>2, <1>3, <1>4 DEF RecoveringInv

LEMMA WriteTempKeeps ==
    ASSUME Inv, WriteTemp
    PROVE  Core'
<1> DEFINE name == <<"temp", db.manifest>>
           D == [Directory EXCEPT !.names = @ \cup {name}]
           fs == [n \in DOMAIN files \cup {name} |->
                    IF n = name THEN [records |-> <<db.manifest>>, durable |-> 0] ELSE files[n]]
<1>1. /\ pc = "current" /\ pc' = "rename" /\ Sync(fs, name, D)
      /\ UNCHANGED <<db, writer, pins, countVars, historyVars>>
  BY DEF WriteTemp, Alone
<1>2. DiskType /\ DirInv /\ ImagesInv /\ AckInv /\ MemoryType /\ db \in Database
  BY DEF Inv, Core, DiskInv, MemoryType
<1>3. /\ Directory \in Dir /\ Directory.names \subseteq DOMAIN files
      /\ Directory.names \subseteq Name
  BY <1>2, DirectoryShape
<1>4. /\ D \in Dir /\ D.names = Directory.names \cup {name} /\ D.current = Directory.current
      /\ name \in Name /\ name \in D.names /\ D.names \subseteq Name
  BY <1>2, <1>3 DEF Dir, Name, Database
<1>5. ASSUME NEW n \in D.names
      PROVE  /\ fs[n] \in File(n[1]) /\ fs[n].durable <= Len(fs[n].records)
             /\ n[1] # "temp" => n \in Directory.names /\ fs[n] = files[n]
  <2>1. CASE n = name
    <3>1. fs[n] = [records |-> <<db.manifest>>, durable |-> 0] BY <2>1
    <3>2. Content("temp") = Nat BY DEF Content
    <3>3. <<db.manifest>> \in Seq(Content(n[1])) BY <1>2, <2>1, <3>2 DEF Database
    <3> QED BY <2>1, <3>1, <3>3 DEF File
  <2>2. CASE n # name
    <3>1. n \in Directory.names /\ n \in DOMAIN files /\ fs[n] = files[n] BY <1>3, <1>4, <2>2
    <3> QED BY <1>2, <3>1 DEF DiskType
  <2> QED BY <2>1, <2>2
<1>20. PICK E, nm, g : E = D /\ nm = name /\ g = fs OBVIOUS
<1>6. /\ E \in Dir /\ nm \in E.names /\ Directory.names \subseteq E.names /\ E.current = Directory.current
      /\ E.names \subseteq Name /\ E.names = Directory.names \cup {nm} /\ nm[1] = "temp"
      /\ \A n \in E.names : g[n] \in File(n[1]) /\ g[n].durable <= Len(g[n].records)
      /\ \A n \in E.names : n[1] # "temp" => n \in Directory.names /\ g[n] = files[n]
      /\ Sync(g, nm, E)
  <2>1. Sync(g, nm, E) BY <1>1, <1>20
  <2>2. /\ \A n \in E.names : g[n] \in File(n[1]) /\ g[n].durable <= Len(g[n].records)
        /\ \A n \in E.names : n[1] # "temp" => n \in Directory.names /\ g[n] = files[n]
    BY <1>5, <1>20
  <2> QED BY <1>4, <1>20, <2>1, <2>2
<1> HIDE DEF name, D, fs
<1>7. /\ DiskType' /\ DirInv' /\ ImageInv' /\ UniqueInv' /\ LatestInv' /\ SyncedInv'
      /\ View({}) /\ Directory' = E
      /\ \A t \in Nat : TableStays(t)
      /\ \A n \in Directory.names : n[1] # "temp" =>
            files'[n] = files[n]
  <2>1. UNCHANGED <<synced, unborn>> BY <1>1 DEF historyVars
  <2>2. /\ DiskType' /\ DirInv' /\ ImageInv' /\ UniqueInv' /\ LatestInv'
        /\ synced' \subseteq synced => SyncedInv'
        /\ View({}) /\ Directory' = E
        /\ \A t \in Nat : TableStays(t)
        /\ \A n \in Directory.names : n[1] # "temp" => (n # nm => files'[n] = files[n])
    BY <1>2, <1>6, <2>1, SyncKeeps
  <2> QED BY <1>6, <2>1, <2>2
<1>8. AckInv' BY <1>1, <1>2, <1>7, AckKept DEF historyVars, countVars
<1>9. DiskInv' BY <1>7, <1>8 DEF DiskInv, ImagesInv
<1>10. MemoryType' BY <1>1, <1>2 DEF MemoryType, Pc, countVars
<1>11. CASE ~db.described
  <2>1. /\ db = Closed /\ writer = NoWrite /\ pins = {} /\ Directory.current = 0
        /\ <<"manifest", 1>> \in Directory.names
        /\ files[<<"manifest", 1>>].records = <<FirstEdit>>
    BY <1>1, <1>11 DEF Inv, Core, OpeningInv, Opening
  <2>2. files'[<<"manifest", 1>>].records = <<FirstEdit>> BY <1>7, <2>1
  <2> QED BY <1>1, <1>6, <1>7, <1>9, <1>10, <1>11, <2>1, <2>2, OpeningPhase
<1>12. CASE db.described
  <2>1. ~db.opened BY <1>1 DEF Inv, Core, OpenInv
  <2>2. Recovering BY <1>1, <1>12, <2>1 DEF Recovering
  <2>3. /\ ~Opening /\ db.todo = {} /\ db.mem = {} /\ db.imm = {} /\ db.edit.delete = {}
        /\ RecoveringInv /\ RunningInv /\ writer = NoWrite
    BY <2>2, RecoveringFacts
  <2>4. /\ <<"log", db.log>> \in Directory.names /\ db.edit.log = db.log /\ db.manifest = Latest.next
        /\ <<"manifest", db.manifest>> \in Directory.names
        /\ files[<<"manifest", db.manifest>>].records = <<NewEdit>>
        /\ files[<<"manifest", db.manifest>>].durable = 1
    BY <1>1, <2>2 DEF Inv, Core, RecoveringInv
  <2>5. /\ files'[<<"log", db.log>>] = files[<<"log", db.log>>]
        /\ files'[<<"manifest", db.manifest>>] = files[<<"manifest", db.manifest>>]
        /\ <<"log", db.log>> \in Directory'.names /\ <<"manifest", db.manifest>> \in Directory'.names
    BY <1>6, <1>7, <2>4
  <2>6. /\ db'.next = db'.log + 1 /\ writer' = NoWrite /\ pins' = {}
        /\ files'[<<"log", db'.log>>].records = <<>> /\ <<"log", db'.log>> \in Directory'.names
        /\ acked' \subseteq Writes(Tables(NewTables))'
        /\ NewTables' = NewTables /\ NewEdit' = NewEdit /\ Latest' = Latest
        /\ Directory'.current = Directory.current
    BY <1>1, <1>7, <2>1, <2>2, <2>3, <2>5, RecoveringKept DEF historyVars
  <2>7. RecoveringInv'
    BY <1>1, <2>3, <2>4, <2>5, <2>6, <1>12 DEF RecoveringInv
  <2>8. RunningInv'
    <3>1. db.next \in Nat /\ db.last \in Nat /\ db.version \cup db.edit.add \subseteq Nat
      BY <1>2 DEF Database
    <3>2. LastGiven' = LastGiven /\ LastGiven \in Nat BY <1>1, <2>3, <3>1 DEF LastGiven
    <3>3. db.manifest < db.next BY <2>3 DEF RunningInv
    <3> QED BY <1>1, <1>7, <1>10, <2>3, <3>1, <3>2, <3>3, RunningKept
  <2>9. Recovering' BY <1>1, <1>12, <2>1 DEF Recovering
  <2> QED BY <1>9, <1>10, <2>7, <2>8, <2>9, RecoveringPhase
<1> QED BY <1>11, <1>12

LEMMA RenameTempFirst ==
    ASSUME Inv, RenameTemp, ~db.described
    PROVE  Core'
<1>1. /\ pc = "rename" /\ pc' = "recover" /\ UNCHANGED <<files, db, writer, pins, countVars, historyVars>>
      /\ directories' = Append(directories,
                             [names |-> Directory.names \ {<<"temp", db.manifest>>},
                              current |-> db.manifest])
  BY DEF RenameTemp, Alone
<1>2. DiskType /\ DirInv /\ ImagesInv /\ AckInv /\ MemoryType
  BY DEF Inv, Core, DiskInv
<1>3. /\ db = Closed /\ writer = NoWrite /\ pins = {} /\ Directory.current = 0
      /\ <<"manifest", 1>> \in Directory.names
      /\ files[<<"manifest", 1>>].records = <<FirstEdit>>
  BY <1>1 DEF Inv, Core, OpeningInv, Opening
<1>4. db.manifest = 1 BY <1>3 DEF Closed
<1>5. PICK D : D = [names |-> Directory.names \ {<<"temp", 1>>}, current |-> 1] OBVIOUS
<1>6. /\ Directory \in Dirs /\ Directory.names \subseteq Name
  BY <1>2, DirectoryShape
<1>7. /\ D \in Dir /\ D.names \subseteq Directory.names /\ D.current = 1
      /\ directories' = Append(directories, D)
      /\ Manifest(D) = <<"manifest", 1>> /\ Manifest(D) \in D.names /\ Edits(D) = <<FirstEdit>>
  <2>1. D \in Dir /\ D.names \subseteq Directory.names /\ D.current = 1
    BY <1>5, <1>6 DEF Dir
  <2>2. directories' = Append(directories, D) BY <1>1, <1>4, <1>5
  <2>3. Manifest(D) = <<"manifest", 1>> BY <2>1 DEF Manifest
  <2>4. Manifest(D) \in D.names BY <1>3, <1>5, <2>3
  <2> QED BY <1>3, <2>1, <2>2, <2>3, <2>4 DEF Edits
<1>8. FirstEdit \in Edit /\ FirstEdit.tables = {} /\ FirstEdit.next = 2 /\ FirstEdit.log = 0
  BY DEF FirstEdit, Edit
<1>9. synced = {} /\ acked = {} /\ \A n \in Nat : <<"log", n>> \notin Directory.names
  BY <1>2, <1>3, <1>6 DEF DirInv, AckInv
<1>10. \A A \in Dirs : A.current = 0 BY <1>2, <1>3 DEF DirInv
<1>11. LiveLogs(D, FirstEdit) = {}
  <2>1. \A n \in D.names : n[1] # "log" BY <1>6, <1>7, <1>9 DEF Name
  <2> QED BY <2>1 DEF LiveLogs
<1>12. Held(D, FirstEdit) = {} BY <1>8, <1>11 DEF Held, Tables
<1>13. Describes(D, FirstEdit) BY <1>7, <1>8, <1>9 DEF Describes
<1>14. UNCHANGED <<files, synced, unborn>> BY <1>1 DEF historyVars
<1>15. /\ DiskType' /\ DirInv' /\ ImagesInv' /\ Directory' = D
  BY <1>2, <1>7, <1>8, <1>10, <1>12, <1>13, <1>14, RenameKeeps
<1>16. AckInv'
  <2>1. acked' = {} /\ synced' = {} BY <1>1, <1>9 DEF historyVars
  <2> QED BY <2>1 DEF AckInv
<1>17. MemoryType' BY <1>1, <1>2 DEF MemoryType, Pc, countVars
<1> QED BY <1>1, <1>3, <1>7, <1>15, <1>16, <1>17, OpeningPhase DEF DiskInv

LEMMA RenameTempNext ==
    ASSUME Inv, RenameTemp, db.described
    PROVE  Core'
<1>1. /\ pc = "rename" /\ pc' = "install" /\ UNCHANGED <<files, db, writer, pins, countVars, historyVars>>
      /\ directories' = Append(directories,
                             [names |-> Directory.names \ {<<"temp", db.manifest>>},
                              current |-> db.manifest])
  BY DEF RenameTemp, Alone
<1>2. Recovering
  <2>1. ~db.opened BY <1>1 DEF Inv, Core, OpenInv
  <2> QED BY <1>1, <2>1 DEF Recovering
<1>3. /\ ~Opening /\ ~db.opened /\ Readable /\ DiskType /\ DirInv /\ ImagesInv /\ AckInv
      /\ MemoryType /\ RecoveringInv /\ RunningInv /\ db \in Database
      /\ Directory \in Dirs /\ Latest \in Possible(Directory) /\ Latest \in Edit
      /\ writer = NoWrite /\ pins = {} /\ db.todo = {} /\ db.mem = {} /\ db.imm = {}
      /\ db.edit.delete = {} /\ NewTables = db.version \cup db.edit.add
      /\ db.log \in LiveLogs(Directory, Latest) /\ LogEntries(db.log) = {}
      /\ \A n \in LiveLogs(Directory, Latest) : n <= db.log
  BY <1>2, RecoveringFacts
<1>4. /\ <<"log", db.log>> \in Directory.names /\ db.edit.log = db.log /\ db.manifest = Latest.next
      /\ <<"manifest", db.manifest>> \in Directory.names
      /\ files[<<"manifest", db.manifest>>].records = <<NewEdit>>
      /\ files[<<"manifest", db.manifest>>].durable = 1 /\ db.next = db.log + 1
      /\ acked \subseteq Writes(Tables(NewTables))
  BY <1>1, <1>2, <1>3 DEF RecoveringInv
<1>5. PICK D, r : /\ D = [names |-> Directory.names \ {<<"temp", db.manifest>>}, current |-> db.manifest]
                  /\ r = NewEdit
  OBVIOUS
<1>6. Directory.names \subseteq Name BY <1>3, DirectoryShape
<1>7. /\ db.manifest \in Nat /\ db.next \in Nat /\ db.last \in Nat /\ db.log \in Nat
      /\ db.version \cup db.edit.add \subseteq Nat /\ db.edit.log \in Nat
      /\ Latest.next \in Nat /\ Latest.log \in Nat /\ Latest.last \in Nat
  BY <1>3 DEF Database, Edit
<1>8. /\ Latest.next <= db.next /\ Latest.last <= db.last /\ db.manifest < db.next
      /\ \A t \in NewTables : /\ Whole(t, Directory.names) /\ 0 < t /\ t < db.next
                              /\ \A e \in Table(t) : e.sequence <= db.last
      /\ Contents \cup Tables(db.edit.add) \subseteq Held(Directory, Latest)
  BY <1>3 DEF RunningInv
<1>9. /\ D \in Dir /\ D.names \subseteq Directory.names /\ D.current = db.manifest /\ D.current # 0
      /\ directories' = Append(directories, D)
      /\ Manifest(D) \in D.names /\ Edits(D) = <<r>> /\ files[Manifest(D)].durable >= 1
      /\ <<"log", db.log>> \in D.names
      /\ \A t : <<"table", t>> \in Directory.names => <<"table", t>> \in D.names
  <2>1. D \in Dir /\ D.names \subseteq Directory.names /\ D.current = db.manifest
    BY <1>5, <1>6, <1>7 DEF Dir
  <2>2. D.current # 0
    <3>1. Directory.current < Latest.next /\ Directory.current \in Nat
      BY <1>3, DirectoryShape, Given, LatestShape
    <3> QED BY <1>4, <1>7, <2>1, <3>1
  <2>3. directories' = Append(directories, D) BY <1>1, <1>5
  <2>4. Manifest(D) = <<"manifest", db.manifest>> BY <2>1 DEF Manifest
  <2>5. Manifest(D) \in D.names /\ <<"log", db.log>> \in D.names BY <1>4, <1>5, <2>4
  <2>6. Edits(D) = <<r>> /\ files[Manifest(D)].durable >= 1 BY <1>4, <1>5, <2>4 DEF Edits
  <2>7. \A t : <<"table", t>> \in Directory.names => <<"table", t>> \in D.names BY <1>5
  <2> QED BY <2>1, <2>2, <2>3, <2>5, <2>6, <2>7
<1>10. /\ r \in Edit /\ r.tables = NewTables /\ r.next = db.next /\ r.last = db.last /\ r.log = db.log
  BY <1>3, <1>4, <1>5, <1>7 DEF NewEdit, Edit
<1>11. LiveLogs(D, r) = {db.log}
  <2>1. ASSUME NEW n \in LiveLogs(D, r) PROVE n = db.log
    <3>1. n \in Nat /\ <<"log", n>> \in D.names /\ r.log <= n BY <1>6, <1>9 DEF LiveLogs, Name
    <3>2. Latest.log <= db.log BY <1>3, LiveLog
    <3>3. n \in LiveLogs(Directory, Latest) BY <1>3, <1>7, <1>9, <1>10, <3>1, <3>2, LiveLog
    <3> QED BY <1>3, <1>7, <1>10, <3>1, <3>3
  <2>2. <<"log", db.log>> \in {n \in D.names : n[1] = "log" /\ r.log <= n[2]}
    BY <1>7, <1>9, <1>10
  <2>3. db.log \in LiveLogs(D, r) BY <2>2 DEF LiveLogs
  <2> QED BY <2>1, <2>3
<1>12. Held(D, r) = Tables(NewTables) /\ Tables(NewTables) \subseteq Held(Directory, Latest)
  <2>1. UNION {LogEntries(n) : n \in LiveLogs(D, r)} = {} BY <1>3, <1>11
  <2>2. Tables(NewTables) \subseteq Contents \cup Tables(db.edit.add)
    BY <1>3 DEF Tables, Contents
  <2> QED BY <1>8, <1>10, <2>1, <2>2 DEF Held
<1>13. \A t \in r.tables : Whole(t, D.names) BY <1>8, <1>9, <1>10 DEF Whole
<1>14. Describes(D, r)
  <2>1. synced \subseteq Writes(KeptBy(D, r))
    <3>1. Tables(NewTables) \subseteq KeptBy(D, r) BY <1>10 DEF KeptBy
    <3>2. Writes(Tables(NewTables)) \subseteq Writes(KeptBy(D, r)) BY <3>1, WritesGrow
    <3> QED BY <1>3, <1>4, <3>2 DEF AckInv
  <2> QED BY <1>4, <1>7, <1>8, <1>9, <1>10, <1>13, <2>1 DEF Describes
<1>15. \A A \in Dirs : A.current # 0 => \A s \in Possible(A) :
                /\ s.next <= r.next /\ s.last <= r.last
                /\ \A n \in LiveLogs(A, s) : n < r.next /\ \A e \in LogEntries(n) : e.sequence <= r.last
  BY <1>3, <1>10, Given DEF LastGiven
<1>16. UNCHANGED <<files, synced, unborn>> BY <1>1 DEF historyVars
<1>17. /\ DiskType' /\ DirInv' /\ ImagesInv' /\ Directory' = D
       /\ Readable' /\ Latest' = r /\ Possible(Directory)' = {r}
       /\ Held(Directory, Latest)' = Held(D, r)
       /\ LiveLogs(Directory, Latest)' = LiveLogs(D, r)
       /\ \A n : Table(n)' = Table(n) /\ LogEntries(n)' = LogEntries(n)
       /\ \A n, names : Whole(n, names)' <=> Whole(n, names)
  BY <1>3, <1>9, <1>10, <1>12, <1>14, <1>15, <1>16, RenameKeeps
<1>18. AckInv'
  <2>1. Writes(Held(Directory, Latest))' = Writes(Tables(NewTables))
    BY <1>12, <1>17 DEF Writes
  <2> QED BY <1>1, <1>3, <1>4, <1>9, <1>17, <2>1 DEF AckInv, historyVars, countVars
<1>19. MemoryType' BY <1>1, <1>3 DEF MemoryType, Pc, countVars
<1>20. NewTables' = NewTables BY <1>1 DEF NewTables
<1>21. Tables(NewTables)' = Tables(NewTables) BY <1>17, <1>20 DEF Tables
<1>22. RunningInv'
  <2>1. \A t \in db'.version \cup db'.edit.add :
            /\ Whole(t, Directory.names)' /\ 0 < t /\ t < db'.next
            /\ \A e \in Table(t)' : e.sequence <= db'.last
    <3>1. ASSUME NEW t \in db'.version \cup db'.edit.add
          PROVE  Whole(t, Directory.names)' <=> Whole(t, D.names)
      BY <1>17 DEF Whole
    <3>2. db'.version \cup db'.edit.add = r.tables BY <1>1, <1>3, <1>10
    <3> QED BY <1>1, <1>3, <1>8, <1>13, <1>17, <3>1, <3>2
  <2>2. (Contents \cup Tables(db.edit.add))' \subseteq Held(Directory, Latest)'
    <3>1. (Contents \cup Tables(db.edit.add))' = Contents \cup Tables(db.edit.add)
      BY <1>1, <1>17 DEF Contents, Tables
    <3>2. Contents \cup Tables(db.edit.add) = Tables(NewTables) BY <1>3 DEF Contents, Tables
    <3> QED BY <1>12, <1>17, <3>1, <3>2
  <2>3. \A n \in LiveLogs(Directory, Latest)' \ db'.todo :
            n < db'.next /\ \A e \in LogEntries(n)' : e.sequence <= LastGiven'
    BY <1>1, <1>3, <1>4, <1>7, <1>11, <1>17
  <2>4. (Latest.next)' <= db'.next /\ (Latest.last)' <= db'.last BY <1>1, <1>7, <1>10, <1>17
  <2>5. db'.mem \cup db'.imm = {} /\ db'.manifest < db'.next BY <1>1, <1>3, <1>8
  <2> QED BY <1>17, <2>1, <2>2, <2>3, <2>4, <2>5 DEF RunningInv
<1>23. RecoveringInv'
  <2>1. acked' \subseteq Writes(Tables(NewTables))'
    BY <1>1, <1>4, <1>21 DEF Writes, historyVars
  <2>2. /\ Directory'.current = db'.manifest /\ Possible(Directory)' = {Latest'}
        /\ (Latest.tables)' = NewTables' /\ (Latest.log)' = db'.log
        /\ <<"log", db'.log>> \in Directory'.names
    BY <1>1, <1>9, <1>10, <1>17, <1>20
  <2>3. /\ writer' = NoWrite /\ pins' = {} /\ db'.todo = {} /\ db'.mem = {} /\ db'.imm = {}
        /\ db'.edit.delete = {} /\ db'.next = db'.log + 1 /\ db'.edit.log = db'.log
        /\ files'[<<"log", db'.log>>].records = <<>> /\ db'.described /\ pc' = "install"
    BY <1>1, <1>2, <1>3, <1>4 DEF RecoveringInv
  <2> QED BY <2>1, <2>2, <2>3 DEF RecoveringInv
<1>24. Recovering' BY <1>1, <1>3 DEF Recovering
<1> QED BY <1>17, <1>18, <1>19, <1>22, <1>23, <1>24, RecoveringPhase DEF DiskInv

\* The log that is replayed.
LEMMA ReplayingFacts ==
    ASSUME Inv, Replaying
    PROVE  /\ ~Opening /\ ~Recovering /\ ~db.opened /\ ~db.described
           /\ Readable /\ DiskType /\ DirInv /\ ImagesInv /\ AckInv /\ ReplayInv
           /\ MemoryType /\ RunningInv /\ db \in Database
           /\ Directory \in Dirs /\ Latest \in Possible(Directory) /\ Latest \in Edit
           /\ writer = NoWrite /\ pins = {} /\ db.imm = {} /\ db.edit.delete = {}
           /\ \A t \in db.version \cup db.edit.add : t \in Nat /\ Table(t) \subseteq Entry
           /\ db.todo # {} =>
                LET number == Smallest(db.todo)
                    log == files[<<"log", number>>].records
                IN  /\ number \in db.todo /\ number \in LiveLogs(Directory, Latest)
                    /\ log \in Seq(Entry) /\ Len(log) \in Nat /\ db.position <= Len(log)
                    /\ \A i \in 1 .. db.position : log[i] \in db.mem \cup Tables(db.edit.add)
                    /\ number \in Nat
<1>1. ~Opening /\ ~db.opened /\ ~Recovering
  BY DEF Inv, Core, ReplayInv, Replaying, Opening, Recovering
<1>2. /\ Readable /\ Directory \in Dirs /\ Latest \in Possible(Directory) /\ Latest \in Edit
      /\ db \in Database
  BY <1>1, Given
<1>3. /\ db.todo \subseteq LiveLogs(Directory, Latest) /\ ~db.described
      /\ writer = NoWrite /\ pins = {} /\ db.imm = {} /\ db.edit.delete = {}
  BY DEF Inv, Core, ReplayInv
<1>4. ASSUME db.todo # {}
      PROVE  LET number == Smallest(db.todo)
                 log == files[<<"log", number>>].records
             IN  /\ number \in db.todo /\ number \in LiveLogs(Directory, Latest)
                 /\ log \in Seq(Entry) /\ Len(log) \in Nat /\ db.position <= Len(log)
                 /\ \A i \in 1 .. db.position : log[i] \in db.mem \cup Tables(db.edit.add)
                 /\ number \in Nat
  <2>1. db.todo \subseteq Nat BY <1>2 DEF Database
  <2>2. Smallest(db.todo) \in db.todo BY <1>4, <2>1, LeastNumber
  <2>3. PICK n \in LiveLogs(Directory, Latest) : n = Smallest(db.todo) BY <1>3, <2>2
  <2>4. files[<<"log", n>>].records \in Seq(Entry) /\ n \in Nat BY <1>2, LogShape DEF Inv, Core, DiskInv
  <2>5. /\ db.position <= Len(files[<<"log", n>>].records)
        /\ \A i \in 1 .. db.position :
                files[<<"log", n>>].records[i] \in db.mem \cup Tables(db.edit.add)
    BY <1>4, <2>3 DEF Inv, Core, ReplayInv
  <2>6. Len(files[<<"log", n>>].records) \in Nat BY <2>4
  <2> QED BY <2>2, <2>3, <2>4, <2>5, <2>6
<1>5. \A t \in db.version \cup db.edit.add : t \in Nat /\ Table(t) \subseteq Entry
  <2>1. ASSUME NEW t \in db.version \cup db.edit.add
        PROVE  t \in Nat /\ Table(t) \subseteq Entry
    <3>1. t \in Nat BY <1>2 DEF Database
    <3>2. Whole(t, Directory.names) BY <1>1 DEF Inv, Core, RunningInv
    <3>3. <<"table", t>> \in DOMAIN files BY <1>2, <3>2, DirectoryShape DEF Whole, Inv, Core, DiskInv
    <3> QED BY <3>1, <3>3, TableShape DEF Inv, Core, DiskInv
  <2> QED BY <2>1
<1> QED BY <1>1, <1>2, <1>3, <1>4, <1>5 DEF Inv, Core, DiskInv

\* A step of the replay.
LEMMA ReplayPhase ==
    ASSUME Replaying', DiskInv', MemoryType', RunningInv', ReplayInv'
    PROVE  Core'
<1>1. ~db'.opened BY DEF ReplayInv
<1>2. ~Opening' /\ ~Recovering' BY <1>1 DEF Replaying, Opening, Recovering
<1> QED BY <1>1, <1>2 DEF Inv, Core, OpeningInv, RecoveringInv, OpenInv, WorkInv

LEMMA RecoverVersionKeeps ==
    ASSUME Inv, RecoverVersion
    PROVE  Core'
<1>1. pc = "recover" /\ UNCHANGED <<diskVars, writer, pins, countVars, historyVars>>
  BY DEF RecoverVersion, Alone
<1>2. Opening BY <1>1 DEF Opening
<1>3. db = Closed /\ writer = NoWrite /\ pins = {} /\ Directory.current # 0
  BY <1>1, <1>2 DEF Inv, Core, OpeningInv
<1>4. DiskType /\ DirInv /\ ImagesInv /\ AckInv /\ MemoryType /\ Directory \in Dirs
  BY DirectoryShape DEF Inv, Core, DiskInv
<1>5. /\ DiskType' /\ DirInv' /\ ImagesInv' /\ Directory' = Directory /\ View({})
      /\ Latest' = Latest /\ (Readable' <=> Readable)
      /\ LiveLogs(Directory, Latest)' = LiveLogs(Directory, Latest)
      /\ Held(Directory, Latest)' = Held(Directory, Latest)
      /\ \A n : Table(n)' = Table(n) /\ LogEntries(n)' = LogEntries(n)
      /\ \A n, names : Whole(n, names)' <=> Whole(n, names)
  BY <1>1, <1>4, DiskStill, Still DEF historyVars
<1>6. AckInv' BY <1>1, <1>4, <1>5, AckKept DEF historyVars, countVars
<1>7. Manifest(Directory) \in Directory.names BY <1>3, <1>4 DEF DirInv
<1>8. CASE pc' = "broken"
  <2>1. \/ Edits(Directory) = <<>>
        \/ ~({<<"table", t>> : t \in Latest.tables} \subseteq Directory.names)
    BY <1>7, <1>8 DEF RecoverVersion, Edits, Manifest, Latest
  <2>2. Edits(Directory) = <<>>
    <3> SUFFICES ASSUME Edits(Directory) # <<>> PROVE FALSE OBVIOUS
    <3>1. Readable BY <1>3 DEF Readable
    <3>2. Latest \in Possible(Directory) BY <1>4, <3>1, LatestShape
    <3>3. \A t \in Latest.tables : <<"table", t>> \in Directory.names
      BY <1>3, <1>4, <3>2 DEF ImagesInv, ImageInv, Whole
    <3> QED BY <2>1, <3>3
  <2>3. unborn BY <1>3, <1>4, <2>2 DEF DirInv
  <2>4. db' = db BY <1>8 DEF RecoverVersion
  <2>5. MemoryType' BY <1>1, <1>3, <1>4, <1>8, <2>4 DEF MemoryType, Pc, countVars
  <2> QED BY <1>1, <1>3, <1>5, <1>6, <1>8, <2>3, <2>4, <2>5, OpeningPhase DEF DiskInv, historyVars
<1>9. CASE pc' # "broken"
  <2>1. /\ Edits(Directory) # <<>> /\ pc' = "replay"
        /\ db' = [Closed EXCEPT
                    !.manifest = Latest.next,
                    !.next = Latest.next + 1,
                    !.logNumber = Latest.log,
                    !.last = Latest.last,
                    !.version = Latest.tables,
                    !.todo = {n[2] : n \in {n \in Directory.names :
                                            n[1] = "log" /\ n[2] >= Latest.log}}]
    BY <1>9 DEF RecoverVersion, Edits, Manifest, Latest
  <2>2. Readable BY <1>3, <2>1 DEF Readable
  <2>3. Latest \in Possible(Directory) /\ Latest \in Edit BY <1>4, <2>2, LatestShape
  <2>4. {n[2] : n \in {n \in Directory.names : n[1] = "log" /\ n[2] >= Latest.log}}
            = LiveLogs(Directory, Latest)
    <3>1. \A n \in Directory.names : n[2] >= Latest.log <=> Latest.log <= n[2] OBVIOUS
    <3>2. {n \in Directory.names : n[1] = "log" /\ n[2] >= Latest.log}
            = {n \in Directory.names : n[1] = "log" /\ Latest.log <= n[2]}
      BY <3>1
    <3> QED BY <3>2 DEF LiveLogs
  <2>5. /\ db'.opened = FALSE /\ db'.described = FALSE /\ db'.manifest = Latest.next
        /\ db'.next = Latest.next + 1 /\ db'.last = Latest.last /\ db'.version = Latest.tables
        /\ db'.todo = LiveLogs(Directory, Latest) /\ db'.mem = {} /\ db'.imm = {}
        /\ db'.edit = NoEdit /\ db'.position = 0 /\ db'.work = "replay"
        /\ db'.edit.add = {} /\ db'.edit.delete = {}
    BY <2>1, <2>4 DEF Closed, NoEdit
  <2>6. LiveLogs(Directory, Latest) \subseteq Nat BY <1>4, LogShape
  <2>7. db' \in Database
    <3>1. PICK todo : todo = LiveLogs(Directory, Latest) OBVIOUS
    <3>2. /\ Latest.next \in Nat /\ Latest.log \in Nat /\ Latest.last \in Nat
          /\ Latest.tables \in SUBSET Nat /\ todo \in SUBSET Nat /\ Latest.next + 1 \in Nat
      BY <2>3, <2>6, <3>1 DEF Edit
    <3>3. db' = [Closed EXCEPT !.manifest = Latest.next, !.next = Latest.next + 1,
                               !.logNumber = Latest.log, !.last = Latest.last,
                               !.version = Latest.tables, !.todo = todo]
      BY <2>1, <2>4, <3>1
    <3> QED BY <3>2, <3>3, ClosedShape DEF Database
  <2>8. MemoryType' BY <1>1, <1>4, <2>1, <2>7 DEF MemoryType, Pc, countVars
  <2>9. \A t \in Latest.tables : /\ Whole(t, Directory.names) /\ 0 < t /\ t < Latest.next
                                 /\ \A e \in Table(t) : e.sequence <= Latest.last
    BY <1>3, <1>4, <2>3 DEF ImagesInv, ImageInv
  <2>10. RunningInv'
    <3>1. /\ (Latest.next)' <= db'.next /\ (Latest.last)' <= db'.last /\ db'.manifest < db'.next
      BY <1>5, <2>3, <2>5 DEF Edit
    <3>2. \A t \in db'.version \cup db'.edit.add :
            /\ Whole(t, Directory.names)' /\ 0 < t /\ t < db'.next
            /\ \A e \in Table(t)' : e.sequence <= db'.last
      <4>1. \A t \in Latest.tables : t \in Nat /\ t < Latest.next + 1
        BY <2>3, <2>9 DEF Edit
      <4>3. \A t : Whole(t, Directory.names) => Whole(t, Directory.names)'
        BY <1>1, <1>5 DEF Whole, diskVars
      <4> QED BY <1>5, <2>5, <2>9, <4>1, <4>3
    <3>3. (Contents \cup Tables(db.edit.add))' \subseteq Held(Directory, Latest)'
      <4>1. (Contents \cup Tables(db.edit.add))' = Tables(Latest.tables)
        BY <1>5, <2>5 DEF Contents, Tables
      <4> QED BY <1>5, <4>1 DEF Held
    <3>4. LiveLogs(Directory, Latest)' \ db'.todo = {} BY <1>5, <2>5
    <3>5. db'.mem \cup db'.imm = {} BY <2>5
    <3> QED BY <1>5, <2>2, <3>1, <3>2, <3>3, <3>4, <3>5 DEF RunningInv
  <2>11. ReplayInv'
    <3>1. db'.todo # {} => 0 <= Len(files'[<<"log", Smallest(db'.todo)>>].records)
      <4> SUFFICES ASSUME db'.todo # {}
                   PROVE  0 <= Len(files'[<<"log", Smallest(db'.todo)>>].records)
        OBVIOUS
      <4>1. PICK n \in LiveLogs(Directory, Latest) : n = Smallest(db'.todo)
        BY <2>5, <2>6, LeastNumber
      <4>2. files[<<"log", n>>].records \in Seq(Entry) BY <1>4, LogShape
      <4> QED BY <1>1, <4>1, <4>2 DEF diskVars
    <3>2. /\ ~db'.opened /\ ~db'.described /\ db'.work = "replay" /\ writer' = NoWrite /\ pins' = {}
          /\ db'.imm = {} /\ db'.edit.delete = {} /\ db'.mem = {} /\ db'.position = 0
          /\ db'.version = (Latest.tables)' /\ db'.manifest = (Latest.next)' /\ pc' = "replay"
          /\ db'.todo = LiveLogs(Directory, Latest)'
      BY <1>1, <1>3, <1>5, <2>1, <2>5
    <3> QED BY <3>1, <3>2 DEF ReplayInv
  <2>12. Replaying' BY <2>1 DEF Replaying
  <2> QED BY <1>5, <1>6, <2>8, <2>10, <2>11, <2>12, ReplayPhase DEF DiskInv
<1> QED BY <1>8, <1>9

LEMMA ReplayRecordKeeps ==
    ASSUME Inv, ReplayRecord
    PROVE  Core'
<1> DEFINE number == Smallest(db.todo)
           log == files[<<"log", number>>].records
           entry == log[db.position + 1]
           mem == db.mem \cup {entry}
<1>1. /\ pc = "replay" /\ db.todo # {} /\ db.position < Len(log)
      /\ db' = [db EXCEPT !.mem = mem, !.position = @ + 1,
                          !.last = Largest({@, entry.sequence})]
      /\ pc' = IF Cardinality(mem) > BufferSize THEN "build" ELSE "replay"
      /\ UNCHANGED <<diskVars, writer, pins, countVars, historyVars>>
  BY DEF ReplayRecord, Alone
<1>2. Replaying BY <1>1 DEF Replaying
<1>3. /\ ~Opening /\ ~db.opened /\ ~db.described
      /\ Readable /\ DiskType /\ DirInv /\ ImagesInv /\ AckInv /\ ReplayInv
      /\ MemoryType /\ RunningInv /\ db \in Database
      /\ Directory \in Dirs /\ Latest \in Edit /\ writer = NoWrite
      /\ number \in db.todo /\ number \in LiveLogs(Directory, Latest)
      /\ log \in Seq(Entry) /\ Len(log) \in Nat /\ db.position <= Len(log)
      /\ \A i \in 1 .. db.position : log[i] \in db.mem \cup Tables(db.edit.add)
  BY <1>1, <1>2, ReplayingFacts
<1>4. db.position \in Nat /\ db.last \in Nat /\ db.next \in Nat /\ db.mem \subseteq Entry
      /\ db.imm \subseteq Entry /\ db.version \cup db.edit.add \subseteq Nat
  BY <1>3 DEF Database
<1>5. db.position + 1 \in 1 .. Len(log) BY <1>1, <1>3, <1>4
<1>6. entry \in Entry /\ entry.sequence \in Nat
  <2>1. \A i \in 1 .. Len(log) : log[i] \in Entry BY <1>3
  <2>2. entry \in Entry BY <1>5, <2>1
  <2> QED BY <2>2 DEF Entry
<1>7. entry \in Held(Directory, Latest)
  <2>1. entry \in LogEntries(number) BY <1>5 DEF LogEntries
  <2> QED BY <1>3, <2>1 DEF Held
<1>8. PICK last : /\ last = Largest({db.last, entry.sequence})
                  /\ last \in Nat /\ db.last <= last /\ entry.sequence <= last
  BY <1>4, <1>6, LargestOfTwo
<1>9. /\ db' = [db EXCEPT !.mem = mem, !.position = db.position + 1, !.last = last]
  BY <1>1, <1>8
<1>10. /\ DiskType' /\ DirInv' /\ ImagesInv' /\ View({}) /\ Directory' = Directory
       /\ Latest' = Latest /\ LiveLogs(Directory, Latest)' = LiveLogs(Directory, Latest)
       /\ \A n : Table(n)' = Table(n) /\ LogEntries(n)' = LogEntries(n)
       /\ \A t \in Nat : TableStays(t)
  BY <1>1, <1>3, DiskStill, Still DEF historyVars
<1>11. AckInv' BY <1>1, <1>3, <1>10, AckKept DEF historyVars, countVars
<1> HIDE DEF number, log, entry
<1>12. mem \in SUBSET Entry BY <1>4, <1>6
<1>13. /\ db' \in Database /\ db'.mem = mem /\ db'.position = db.position + 1 /\ db'.last = last
       /\ db'.next = db.next /\ db'.manifest = db.manifest /\ db'.version = db.version
       /\ db'.edit = db.edit /\ db'.imm = db.imm /\ db'.todo = db.todo
       /\ ~db'.opened /\ ~db'.described /\ db'.work = db.work
  <2>1. db \in Database /\ ~db.opened /\ ~db.described /\ db.position + 1 \in Nat BY <1>3, <1>4
  <2> HIDE DEF mem
  <2> QED BY <2>1, <1>8, <1>9, <1>12 DEF Database
<1>14. pc' \in {"build", "replay"} BY <1>1
<1>15. MemoryType' BY <1>1, <1>3, <1>13, <1>14 DEF MemoryType, Pc, countVars
<1>16. RunningInv'
  <2>1. LastGiven' = last /\ LastGiven = db.last BY <1>1, <1>3, <1>13 DEF LastGiven
  <2>2. db.manifest < db.next BY <1>3 DEF RunningInv
  <2>3. \A e \in db'.mem \cup db'.imm :
                \/ e \in db.mem \cup db.imm
                \/ e.sequence <= db'.last /\ e \in Held(Directory, Latest)
    BY <1>7, <1>8, <1>13
  <2>4. db'.next >= db.next /\ db'.last >= db.last /\ db'.manifest < db'.next /\ LastGiven' \in Nat
    BY <1>4, <1>8, <1>13, <2>1, <2>2
  <2>5. \A t \in db'.version \cup db'.edit.add : t \in db.version \cup db.edit.add /\ TableStays(t)
    BY <1>4, <1>10, <1>13
  <2>6. \A n \in LiveLogs(Directory, Latest) : n \notin db'.todo =>
            n \notin db.todo /\ LastGiven' >= LastGiven
    BY <1>4, <1>8, <1>13, <2>1
  <2> QED BY <1>3, <1>10, <1>15, <2>3, <2>4, <2>5, <2>6, RunningKept
<1>17. ReplayInv'
  <2>1. Tables(db.edit.add)' = Tables(db.edit.add) BY <1>10, <1>13 DEF Tables
  <2>2. \A n \in LiveLogs(Directory, Latest)' \ db'.todo :
            LogEntries(n)' \subseteq db'.mem \cup Tables(db.edit.add)'
    BY <1>2, <1>3, <1>10, <1>13, <2>1 DEF ReplayInv
  <2>3. files'[<<"log", Smallest(db'.todo)>>].records = log
    BY <1>1, <1>13 DEF diskVars, log, number
  <2>4. \A i \in 1 .. db'.position : log[i] \in db'.mem \cup Tables(db.edit.add)
    <3>1. \A i \in 1 .. db.position + 1 : i \in 1 .. db.position \/ i = db.position + 1
      BY <1>4
    <3> QED BY <1>3, <1>13, <3>1 DEF entry
  <2>5. db'.position <= Len(log) BY <1>5, <1>13
  <2>6. /\ db.work = "replay" /\ pins = {} /\ db.imm = {} /\ db.edit.delete = {}
        /\ db.version = Latest.tables /\ db.manifest = Latest.next
        /\ db.todo \subseteq LiveLogs(Directory, Latest)
    BY <1>2, <1>3 DEF ReplayInv
  <2>7. pc' # "sync" /\ db'.todo # {} /\ db'.mem # {} BY <1>1, <1>13, <1>14
  <2> QED BY <1>1, <1>3, <1>10, <1>13, <2>1, <2>2, <2>3, <2>4, <2>5, <2>6, <2>7 DEF ReplayInv
<1>18. Replaying' BY <1>13, <1>14 DEF Replaying
<1> QED BY <1>10, <1>11, <1>15, <1>16, <1>17, <1>18, ReplayPhase DEF DiskInv

LEMMA EndLogKeeps ==
    ASSUME Inv, EndLog
    PROVE  Core'
<1> DEFINE number == Smallest(db.todo)
           log == files[<<"log", number>>].records
<1>1. /\ pc = "replay" /\ db.todo # {} /\ db.position = Len(log)
      /\ UNCHANGED <<diskVars, writer, pins, countVars, historyVars>>
      /\ \/ db.mem # {} /\ pc' = "build" /\ db' = db
         \/ /\ db.mem = {} /\ pc' = "replay"
            /\ db' = [db EXCEPT !.todo = @ \ {number}, !.position = 0, !.next = Used(@, number)]
  BY DEF EndLog, Alone
<1>2. Replaying BY <1>1 DEF Replaying
<1>3. /\ ~Opening /\ ~db.opened /\ ~db.described
      /\ Readable /\ DiskType /\ DirInv /\ ImagesInv /\ AckInv /\ ReplayInv
      /\ MemoryType /\ RunningInv /\ db \in Database
      /\ Directory \in Dirs /\ Latest \in Edit /\ writer = NoWrite
      /\ number \in db.todo /\ number \in LiveLogs(Directory, Latest) /\ number \in Nat
      /\ log \in Seq(Entry) /\ Len(log) \in Nat /\ db.position <= Len(log)
      /\ \A i \in 1 .. db.position : log[i] \in db.mem \cup Tables(db.edit.add)
      /\ \A t \in db.version \cup db.edit.add : t \in Nat /\ Table(t) \subseteq Entry
  BY <1>1, <1>2, ReplayingFacts
<1>4. db.position \in Nat /\ db.last \in Nat /\ db.next \in Nat
      /\ db.todo \subseteq Nat /\ db.version \cup db.edit.add \subseteq Nat
  BY <1>3 DEF Database
<1>5. /\ db.work = "replay" /\ pins = {} /\ db.imm = {} /\ db.edit.delete = {}
      /\ db.version = Latest.tables /\ db.manifest = Latest.next
      /\ db.todo \subseteq LiveLogs(Directory, Latest)
      /\ \A n \in LiveLogs(Directory, Latest) \ db.todo :
            LogEntries(n) \subseteq db.mem \cup Tables(db.edit.add)
  BY <1>2, <1>3 DEF ReplayInv
<1>6. /\ DiskType' /\ DirInv' /\ ImagesInv' /\ View({}) /\ Directory' = Directory
      /\ Latest' = Latest /\ LiveLogs(Directory, Latest)' = LiveLogs(Directory, Latest)
      /\ \A n : Table(n)' = Table(n) /\ LogEntries(n)' = LogEntries(n)
      /\ \A t \in Nat : TableStays(t)
  BY <1>1, <1>3, DiskStill, Still DEF historyVars
<1>7. AckInv' BY <1>1, <1>3, <1>6, AckKept DEF historyVars, countVars
<1>8. db.manifest < db.next BY <1>3 DEF RunningInv
<1> HIDE DEF number, log
<1>9. CASE db.mem # {} /\ pc' = "build" /\ db' = db
  <2>1. MemoryType' BY <1>1, <1>3, <1>9 DEF MemoryType, Pc, countVars
  <2>2. LastGiven' = db.last /\ LastGiven = db.last BY <1>1, <1>3, <1>9 DEF LastGiven
  <2>3. RunningInv' BY <1>3, <1>4, <1>6, <1>8, <1>9, <2>1, <2>2, RunningKept
  <2>4. ReplayInv'
    <3>1. Tables(db.edit.add)' = Tables(db.edit.add) BY <1>6, <1>9 DEF Tables
    <3>2. files'[<<"log", Smallest(db'.todo)>>].records = log
      BY <1>1, <1>9 DEF diskVars, log, number
    <3> QED BY <1>1, <1>3, <1>5, <1>6, <1>9, <3>1, <3>2 DEF ReplayInv
  <2>5. Replaying' BY <1>3, <1>9 DEF Replaying
  <2> QED BY <1>6, <1>7, <2>1, <2>3, <2>4, <2>5, ReplayPhase DEF DiskInv
<1>10. CASE /\ db.mem = {} /\ pc' = "replay"
            /\ db' = [db EXCEPT !.todo = @ \ {number}, !.position = 0, !.next = Used(@, number)]
  <2>1. PICK next : /\ next = Used(db.next, number) /\ next \in Nat
                    /\ db.next <= next /\ number < next
    <3>1. number + 1 \in Nat BY <1>3
    <3> QED BY <1>3, <1>4, <3>1, LargestOfTwo DEF Used
  <2>2. PICK todo : todo = db.todo \ {number} /\ todo \in SUBSET Nat BY <1>4
  <2>3. /\ db' = [db EXCEPT !.todo = todo, !.position = 0, !.next = next]
    BY <1>10, <2>1, <2>2
  <2>4. /\ db' \in Database /\ db'.mem = {} /\ db'.position = 0 /\ db'.last = db.last
        /\ db'.next = next /\ db'.manifest = db.manifest /\ db'.version = db.version
        /\ db'.edit = db.edit /\ db'.imm = db.imm /\ db'.todo = todo
        /\ ~db'.opened /\ ~db'.described /\ db'.work = db.work
    <3>1. db \in Database /\ ~db.opened /\ ~db.described /\ db.mem = {} BY <1>3, <1>10
    <3> QED BY <3>1, <2>1, <2>2, <2>3 DEF Database
  <2>5. MemoryType' BY <1>1, <1>3, <1>10, <2>4 DEF MemoryType, Pc, countVars
  <2>6. LastGiven' = db.last /\ LastGiven = db.last BY <1>1, <1>3, <2>4 DEF LastGiven
  <2>7. LogEntries(number) \subseteq Tables(db.edit.add)
    <3>1. \A i \in 1 .. Len(log) : log[i] \in Tables(db.edit.add) BY <1>1, <1>3, <1>10
    <3> QED BY <3>1 DEF LogEntries, log
  <2>8. \A e \in LogEntries(number) : e.sequence <= db.last
    BY <1>3, <2>7 DEF RunningInv, Tables
  <2>9. RunningInv'
    <3>1. \A n \in LiveLogs(Directory, Latest) : n \notin db'.todo =>
                \/ n \notin db.todo /\ LastGiven' >= LastGiven
                \/ n < db'.next /\ \A e \in LogEntries(n) : e.sequence <= LastGiven'
      BY <1>4, <2>1, <2>2, <2>4, <2>6, <2>8
    <3>2. db'.manifest < db'.next
      BY <1>3, <1>4, <1>8, <2>1, <2>4 DEF Database
    <3> QED BY <1>3, <1>4, <1>6, <2>1, <2>4, <2>5, <2>6, <3>1, <3>2, RunningKept
  <2>10. ReplayInv'
    <3>1. Tables(db.edit.add)' = Tables(db.edit.add) BY <1>6, <2>4 DEF Tables
    <3>2. db'.todo # {} => 0 <= Len(files'[<<"log", Smallest(db'.todo)>>].records)
      <4> SUFFICES ASSUME todo # {}
                   PROVE  0 <= Len(files'[<<"log", Smallest(todo)>>].records)
        BY <2>4
      <4>1. Smallest(todo) \in todo BY <2>2, LeastNumber
      <4>2. PICK n \in LiveLogs(Directory, Latest) : n = Smallest(todo)
        BY <1>5, <2>2, <4>1
      <4>3. files[<<"log", n>>].records \in Seq(Entry) BY <1>3, LogShape
      <4> QED BY <1>1, <4>2, <4>3 DEF diskVars
    <3>3. \A n \in LiveLogs(Directory, Latest)' \ db'.todo :
            LogEntries(n)' \subseteq db'.mem \cup Tables(db.edit.add)'
      BY <1>5, <1>6, <1>10, <2>2, <2>4, <2>7, <3>1
    <3>4. db'.todo \subseteq LiveLogs(Directory, Latest)' BY <1>5, <1>6, <2>2, <2>4
    <3>5. db'.todo # {} =>
            LET records == files'[<<"log", Smallest(db'.todo)>>].records
            IN  /\ db'.position <= Len(records)
                /\ \A i \in 1 .. db'.position : records[i] \in db'.mem \cup Tables(db.edit.add)'
      BY <2>4, <3>2
    <3> QED BY <1>1, <1>3, <1>5, <1>6, <1>10, <2>4, <3>3, <3>4, <3>5 DEF ReplayInv
  <2>11. Replaying' BY <1>10 DEF Replaying
  <2> QED BY <1>6, <1>7, <2>5, <2>9, <2>10, <2>11, ReplayPhase DEF DiskInv
<1> QED BY <1>1, <1>9, <1>10

LEMMA NewLogKeeps ==
    ASSUME Inv, NewLog
    PROVE  Core'
<1>1. /\ pc = "replay" /\ db.todo = {} /\ Create(<<"log", db.next>>, <<>>) /\ pc' = "apply"
      /\ db' = [db EXCEPT !.log = db.next, !.edit.log = db.next, !.next = @ + 1]
      /\ UNCHANGED <<writer, pins, countVars, historyVars>>
  BY DEF NewLog, Alone
<1>2. Replaying BY <1>1 DEF Replaying
<1>3. /\ ~Opening /\ ~db.opened /\ ~db.described
      /\ Readable /\ DiskType /\ DirInv /\ ImagesInv /\ AckInv /\ ReplayInv
      /\ MemoryType /\ RunningInv /\ db \in Database
      /\ Directory \in Dirs /\ Latest \in Edit /\ Latest \in Possible(Directory)
      /\ writer = NoWrite /\ pins = {} /\ db.imm = {} /\ db.edit.delete = {}
      /\ \A t \in db.version \cup db.edit.add : t \in Nat
  BY <1>1, <1>2, ReplayingFacts
<1>4. /\ db.mem = {} /\ db.version = Latest.tables /\ db.manifest = Latest.next
      /\ \A n \in LiveLogs(Directory, Latest) : LogEntries(n) \subseteq Tables(db.edit.add)
  BY <1>1, <1>2, <1>3 DEF ReplayInv
<1>5. /\ db.next \in Nat /\ db.last \in Nat /\ db.manifest \in Nat /\ Latest.next \in Nat
      /\ Latest.log \in Nat
  BY <1>3 DEF Database, Edit
<1>6. Latest.next <= db.next /\ Latest.log < Latest.next /\ db.manifest < db.next
  BY <1>3 DEF RunningInv, ImagesInv, ImageInv, Readable
<1>7. PICK next \in Nat : next = db.next /\ next > 0 /\ Latest.log <= next BY <1>5, <1>6
<1> DEFINE name == <<"log", next>>
<1>8. /\ name \in Name /\ name # <<"log", 0>> /\ name[1] = "log" /\ name[2] = next
      /\ <<>> \in Seq(Content(name[1])) /\ Create(name, <<>>) /\ Unused(name)
  BY <1>1, <1>3, <1>7, FreeNumbers DEF Name
<1> HIDE DEF name
<1>9. UNCHANGED <<synced, unborn>> BY <1>1 DEF historyVars
<1>10. /\ DiskType' /\ DirInv' /\ ImagesInv' /\ View({next}) /\ \A t \in Nat : TableStays(t)
  <2>1. \A t \in Nat : name # <<"table", t>> BY <1>8
  <2>2. /\ DiskType' /\ DirInv' /\ ImagesInv'
        /\ View(IF name[1] = "log" THEN {name[2]} ELSE {})
        /\ \A t \in Nat : name # <<"table", t>> => TableStays(t)
    BY <1>3, <1>7, <1>8, <1>9, CreateKeeps
  <2> QED BY <1>8, <2>1, <2>2
<1>11. /\ Directory'.names = Directory.names \cup {name}
       /\ files'[name].records = <<>>
  <2>1. /\ Directory'.names = Directory.names \cup {name}
        /\ files'[name] = [records |-> <<>>, durable |-> 0]
    BY <1>3, <1>8, Creates
  <2> QED BY <2>1
<1>12. AckInv' BY <1>1, <1>3, <1>10, AckKept DEF historyVars, countVars
<1>13. /\ db' \in Database /\ db'.log = next /\ db'.next = next + 1 /\ db'.last = db.last
       /\ db'.manifest = db.manifest /\ db'.version = db.version
       /\ db'.edit.add = db.edit.add /\ db'.edit.delete = {} /\ db'.edit.log = next
       /\ db'.mem = {} /\ db'.imm = {} /\ db'.todo = {}
       /\ ~db'.opened /\ ~db'.described
  <2>1. /\ db \in Database /\ ~db.opened /\ ~db.described /\ db.mem = {} /\ db.imm = {} /\ db.todo = {}
        /\ db.edit.delete = {}
    BY <1>1, <1>3, <1>4
  <2>2. PICK old : old = db.edit OBVIOUS
  <2>3. old \in [add : SUBSET Nat, delete : SUBSET Nat, log : Nat] BY <2>1, <2>2 DEF Database
  <2>4. PICK edit : edit = [old EXCEPT !.log = next] OBVIOUS
  <2>5. /\ edit \in [add : SUBSET Nat, delete : SUBSET Nat, log : Nat]
        /\ edit.add = db.edit.add /\ edit.delete = {} /\ edit.log = next
    BY <2>1, <2>2, <2>3, <2>4
  <2>6. db' = [db EXCEPT !.log = next, !.edit = edit, !.next = next + 1]
    BY <1>1, <1>7, <2>1, <2>2, <2>4 DEF Database
  <2>7. next \in Nat /\ next + 1 \in Nat OBVIOUS
  <2> QED BY <2>1, <2>5, <2>6, <2>7 DEF Database
<1>14. MemoryType' BY <1>1, <1>3, <1>13 DEF MemoryType, Pc, countVars
<1>15. LastGiven' = db.last /\ LastGiven = db.last BY <1>1, <1>3, <1>13 DEF LastGiven
<1>16. RunningInv'
  <2>1. /\ db'.next >= db.next /\ db'.last >= db.last /\ db'.manifest < db'.next
        /\ LastGiven' \in Nat /\ LastGiven' >= LastGiven
    BY <1>5, <1>6, <1>7, <1>13, <1>15
  <2>2. \A t \in db'.version \cup db'.edit.add : t \in db.version \cup db.edit.add /\ TableStays(t)
    BY <1>3, <1>10, <1>13
  <2>3. \A n \in {next} : n < db'.next BY <1>13
  <2> QED BY <1>1, <1>3, <1>10, <1>13, <1>14, <2>1, <2>2, <2>3, RunningKept
<1>17. acked' \subseteq Writes(Tables(NewTables))'
  <2>1. acked \subseteq Writes(Held(Directory, Latest)) BY <1>3 DEF AckInv
  <2>2. Held(Directory, Latest) \subseteq Tables(db.version) \cup Tables(db.edit.add)
    BY <1>4 DEF Held
  <2>3. NewTables' = db.version \cup db.edit.add BY <1>13 DEF NewTables
  <2>4. \A t \in db.version \cup db.edit.add : Table(t)' = Table(t)
    BY <1>3, <1>10 DEF RunningInv, Whole, TableStays
  <2>5. Tables(NewTables)' = Tables(db.version) \cup Tables(db.edit.add)
    BY <2>3, <2>4 DEF Tables
  <2>6. Writes(Held(Directory, Latest)) \subseteq Writes(Tables(NewTables)')
    BY <2>2, <2>5, WritesGrow
  <2>7. Writes(Tables(NewTables))' = Writes(Tables(NewTables)') BY DEF Writes
  <2> QED BY <1>1, <2>1, <2>6, <2>7 DEF historyVars
<1>18. RecoveringInv'
  <2>1. Latest' = Latest BY <1>3, <1>10 DEF View
  <2>2. files'[<<"log", db'.log>>].records = <<>> /\ <<"log", db'.log>> \in Directory'.names
    BY <1>11, <1>13 DEF name
  <2> QED BY <1>1, <1>3, <1>4, <1>13, <1>17, <2>1, <2>2 DEF RecoveringInv
<1>19. Recovering' BY <1>1, <1>13 DEF Recovering
<1> QED BY <1>10, <1>12, <1>14, <1>16, <1>18, <1>19, RecoveringPhase DEF DiskInv

-----------------------------------------------------------------------------
(* The work that DB::Open and the background thread share.                  *)

\* An open database.
LEMMA OpenedPhase ==
    ASSUME db'.opened, DiskInv', MemoryType', RunningInv', OpenInv', WorkInv'
    PROVE  Core'
<1>1. /\ db'.described
      /\ pc' \in {"idle", "merge", "build", "sync", "apply", "syncManifest", "install", "clean"}
  BY DEF OpenInv
<1>2. OpeningInv' /\ ReplayInv' /\ RecoveringInv' BY <1>1, OpenPhase
<1> QED BY <1>2 DEF Inv, Core

\* There is one latest image, where there was one.
LEMMA LatestNext ==
    DiskType' /\ DirInv' /\ Readable' => Latest' \in Possible(Directory)'
<1>1. DiskType /\ DirInv /\ Readable => Latest \in Possible(Directory) BY LatestShape
<1>2. (DiskType /\ DirInv /\ Readable => Latest \in Possible(Directory))' BY <1>1, PTL
<1> QED BY <1>2

LEMMA OneImage ==
    ASSUME DiskType, DiskType', DirInv', Readable, View({}), Possible(Directory) = {Latest}
    PROVE  Possible(Directory)' = {Latest'} /\ Latest' = Latest
<1>1. Readable' /\ Latest' = Latest /\ Possible(Directory)' \subseteq {Latest} BY DEF View
<1>2. Latest' \in Possible(Directory)' BY <1>1, LatestNext
<1> QED BY <1>1, <1>2

\* The files that DeleteObsoleteFiles spares, and those of a merge among them.
LEMMA LiveNumbers ==
    ASSUME Inv, db.opened
    PROVE  \A t \in Live : t \in Nat /\ 0 < t /\ t < db.next
<1>1. OpenInv /\ RunningInv /\ MemoryType /\ ~Opening /\ db \in Database BY OpenFacts
<1>2. \A p \in pins : p[2] \subseteq Nat BY <1>1 DEF MemoryType
<1>3. \A t \in Pinned : t \in Nat /\ 0 < t /\ t < db.next BY <1>1, <1>2 DEF OpenInv, Pinned
<1>4. \A t \in db.version : t \in Nat /\ 0 < t /\ t < db.next
  BY <1>1 DEF RunningInv, Database
<1>5. \A t \in db.pending : t \in Nat /\ 0 < t /\ t < db.next
  BY <1>1 DEF Inv, MergeInv, Database
<1> QED BY <1>3, <1>4, <1>5 DEF Live

LEMMA MergeFacts ==
    ASSUME Inv, db.inputs # {}
    PROVE  /\ db.opened /\ MergingInv /\ db.inputs \cup Produced \subseteq Live
           /\ \A t \in db.inputs \cup Produced : t \in Nat /\ 0 < t /\ t < db.next
<1>1. db.opened /\ MergingInv BY DEF Inv, MergeInv
<1>2. db.inputs \cup Produced \subseteq Live BY <1>1 DEF MergingInv, Live
<1> QED BY <1>1, <1>2, LiveNumbers

\* A step that leaves the merge alone.
LEMMA MergeKept ==
    ASSUME Inv, db \in Database, db' \in Database,
           db'.inputs = db.inputs, db'.outputs = db.outputs, db'.left = db.left,
           db'.builder = db.builder, db.opened => db'.opened, db'.next >= db.next,
           \A t \in db'.pending : t \in db.pending \/ (0 < t /\ t < db'.next),
           pc' = "merge" => db.inputs # {},
           db.inputs # {} =>
                /\ db.inputs \subseteq db'.version /\ Produced \subseteq db'.pending
                /\ db'.manifest = db.manifest
                /\ \A t \in Live : TableStays(t)
                /\ \A D \in Dirs' : \E E \in Dirs :
                        /\ E.current = D.current
                        /\ \A t \in db.outputs : <<"table", t>> \in E.names =>
                                                    <<"table", t>> \in D.names
                /\ pc' = "sync" => db'.output \notin Produced
    PROVE  MergeInv'
<1>1. \A t \in db'.pending : 0 < t /\ t < db'.next
  <2>1. \A t \in db.pending : t \in Nat /\ 0 < t /\ t < db.next
    BY DEF Inv, MergeInv, Database
  <2>2. db.next \in Nat /\ db'.next \in Nat BY DEF Database
  <2> QED BY <2>1, <2>2
<1>2. ~db'.opened => db'.inputs = {} BY DEF Inv, MergeInv
<1>3. CASE db.inputs = {} BY <1>1, <1>2, <1>3 DEF MergeInv
<1>4. CASE db.inputs # {}
  <2>1. /\ db.opened /\ MergingInv /\ db.inputs \cup Produced \subseteq Live
        /\ \A t \in db.inputs \cup Produced : TableStays(t)
    BY <1>4, MergeFacts
  <2>2. OpenInv /\ RunningInv /\ ~Opening /\ DiskType /\ Directory \in Dirs BY <2>1, OpenFacts
  <2>3. Produced' = Produced BY DEF Produced
  <2>4. \A t \in db.inputs : Whole(t, Directory.names)
    BY <2>1, <2>2 DEF MergingInv, RunningInv
  <2>5. \A t \in db.outputs : Whole(t, Directory.names)
    BY <2>1, <2>2 DEF MergingInv
  <2>6. \A t \in db.inputs \cup Produced : <<"table", t>> \in Directory.names
    BY <2>1, <2>4, <2>5 DEF Produced, Whole, MergingInv
  <2>7. \A t \in db.inputs \cup Produced :
            /\ <<"table", t>> \in Directory'.names /\ Table(t)' = Table(t)
            /\ files'[<<"table", t>>].records = files[<<"table", t>>].records
            /\ Whole(t, Directory.names) => Whole(t, Directory.names)'
    BY <2>1, <2>6 DEF TableStays
  <2>8. Tables(db.inputs)' = Tables(db.inputs) /\ Tables(Produced)' = Tables(Produced)
    <3>1. \A t \in db.inputs : Table(t)' = Table(t) BY <2>7
    <3>2. \A t \in Produced : Table(t)' = Table(t) BY <2>7
    <3>3. Tables(db.inputs)' = UNION {Table(t)' : t \in db.inputs} BY DEF Tables
    <3>4. Tables(Produced)' = UNION {Table(t)' : t \in Produced} BY <2>3 DEF Tables
    <3>5. Tables(db.inputs)' = Tables(db.inputs) BY <3>1, <3>3 DEF Tables
    <3>6. Tables(Produced)' = Tables(Produced) BY <3>2, <3>4 DEF Tables
    <3> QED BY <3>5, <3>6
  <2>9. db.builder # 0 =>
            /\ <<"table", db.builder>> \in Directory'.names
            /\ Len(files'[<<"table", db.builder>>].records) = 1 /\ Table(db.builder)' # {}
    <3> SUFFICES ASSUME db.builder # 0
                 PROVE  /\ <<"table", db.builder>> \in Directory'.names
                        /\ Len(files'[<<"table", db.builder>>].records) = 1
                        /\ Table(db.builder)' # {}
      OBVIOUS
    <3>1. PICK t \in Produced : t = db.builder BY DEF Produced
    <3>2. Len(files[<<"table", t>>].records) = 1 /\ Table(t) # {} BY <2>1, <3>1 DEF MergingInv
    <3>3. Table(db.builder)' = Table(t)' BY <3>1 DEF Table
    <3> QED BY <2>7, <3>1, <3>2, <3>3
  <2>10. ASSUME NEW t \in db.outputs, NEW D \in Dirs'
         PROVE  D.current = db'.manifest /\ Whole(t, D.names)'
    <3>1. PICK E \in Dirs :
            /\ E.current = D.current
            /\ \A u \in db.outputs : <<"table", u>> \in E.names => <<"table", u>> \in D.names
      BY <1>4
    <3>2. E.current = db.manifest /\ Whole(t, E.names) BY <2>1 DEF MergingInv
    <3>3. <<"table", t>> \in D.names BY <3>1, <3>2 DEF Whole
    <3>4. Whole(t, Directory.names)' BY <2>5, <2>7 DEF Produced
    <3> QED BY <1>4, <3>1, <3>2, <3>3, <3>4 DEF Whole
  <2>11. MergingInv'
    <3>1. /\ db'.inputs \subseteq db'.version /\ Produced' \subseteq db'.pending
          /\ Produced' \cap db'.inputs = {}
          /\ pc' = "sync" => db'.output \notin Produced'
      BY <1>4, <2>1, <2>3 DEF MergingInv
    <3>2. Tables(Produced)' \cup db'.left = Tables(db.inputs)' BY <2>1, <2>8 DEF MergingInv
    <3> QED BY <2>9, <2>10, <3>1, <3>2 DEF MergingInv
  <2> QED BY <1>1, <1>2, <1>4, <2>11 DEF MergeInv
<1> QED BY <1>3, <1>4

\* Most steps: no table goes, and the numbers of the merge's are not touched.
LEMMA MergeStill ==
    ASSUME Inv, db \in Database, db' \in Database, db.opened => db'.opened,
           db'.pending = db.pending, db'.inputs = db.inputs, db'.left = db.left,
           db'.outputs = db.outputs, db'.builder = db.builder, db'.version = db.version,
           db'.manifest = db.manifest, db'.output = db.output, db'.next >= db.next,
           \A t \in Nat : TableStays(t),
           \A D \in Dirs' : \E E \in Dirs : E.current = D.current /\ E.names \subseteq D.names,
           pc' = pc \/ pc' \notin {"merge", "sync"}
    PROVE  MergeInv'
<1>1. pc' = "merge" => db.inputs # {} BY DEF Inv, MergeInv
<1>2. db.inputs # {} =>
        /\ db.inputs \subseteq db'.version /\ Produced \subseteq db'.pending
        /\ \A t \in Live : TableStays(t)
        /\ pc' = "sync" => db'.output \notin Produced
  BY MergeFacts, LiveNumbers DEF MergingInv
<1>3. \A D \in Dirs' : \E E \in Dirs :
        /\ E.current = D.current
        /\ \A t \in db.outputs : <<"table", t>> \in E.names => <<"table", t>> \in D.names
  OBVIOUS
<1> QED BY <1>1, <1>2, <1>3, MergeKept

\* The new table is no file that the latest image, the version or an iterator reads.
LEMMA NewTable ==
    ASSUME Inv, ~Opening, MemoryType', NEW content \in SUBSET Entry,
           Create(<<"table", db.next>>, <<content>>),
           UNCHANGED <<writer, pins, countVars, historyVars>>,
           db'.next = db.next + 1, db'.last = db.last, db'.mem = db.mem, db'.imm = db.imm,
           db'.manifest = db.manifest, db'.version = db.version, db'.edit = db.edit,
           db'.todo = db.todo
    PROVE  /\ DiskInv' /\ View({})
           /\ \A t \in Nat : t # db.next => TableStays(t)
           /\ <<"table", db.next>> \in Directory'.names
           /\ files'[<<"table", db.next>>].records = <<content>>
           /\ \A n \in Directory.names : n # <<"table", db.next>> =>
                n \in Directory'.names /\ files'[n] = files[n]
           /\ \A D \in Dirs' : \E E \in Dirs :
                D.current = E.current /\ E.names \subseteq D.names
           /\ db.next \in Nat \ {0} /\ RunningInv'
<1>1. UNCHANGED <<writer, pins, countVars, historyVars>> OBVIOUS
<1>2. ~Opening OBVIOUS
<1>3. /\ Readable /\ DiskType /\ DirInv /\ ImagesInv /\ AckInv /\ MemoryType /\ RunningInv
      /\ db \in Database /\ Directory \in Dirs /\ Latest \in Edit /\ Latest \in Possible(Directory)
      /\ Directory.current # 0
  BY <1>2, Given DEF Inv, Core, DiskInv
<1>4. db.next \in Nat \ {0} /\ db.last \in Nat
  <2>1. db.next \in Nat /\ db.last \in Nat /\ Latest.next \in Nat /\ Latest.log \in Nat
    BY <1>3 DEF Database, Edit
  <2>2. Latest.log < Latest.next /\ Latest.next <= db.next
    BY <1>2, <1>3 DEF ImagesInv, ImageInv, RunningInv
  <2> QED BY <2>1, <2>2
<1>5. PICK next \in Nat \ {0} : next = db.next BY <1>4
<1> DEFINE name == <<"table", next>>
<1>6. /\ name \in Name /\ name # <<"log", 0>> /\ name[1] = "table" /\ name[2] = next
      /\ <<content>> \in Seq(Content(name[1])) /\ Create(name, <<content>>) /\ Unused(name)
  <2>1. Content("table") = SUBSET Entry BY DEF Content
  <2>2. <<content>> \in Seq(SUBSET Entry) OBVIOUS
  <2>3. Unused(name) BY <1>2, <1>5, FreeNumbers
  <2>4. Create(name, <<content>>) BY <1>5
  <2>5. name \in Name BY DEF Name
  <2> QED BY <2>1, <2>2, <2>3, <2>4, <2>5
<1>7. \A t \in Nat : t # next => name # <<"table", t>> OBVIOUS
<1> HIDE DEF name
<1>8. UNCHANGED <<synced, unborn>> BY <1>1 DEF historyVars
<1>9. /\ DiskType' /\ DirInv' /\ ImagesInv' /\ View({})
      /\ \A t \in Nat : name # <<"table", t>> => TableStays(t)
  <2>1. View(IF name[1] = "log" THEN {name[2]} ELSE {}) = View({}) BY <1>6
  <2> QED BY <1>3, <1>6, <1>8, <2>1, CreateKeeps
<1>10. /\ Directory'.names = Directory.names \cup {name}
       /\ Directory'.current = Directory.current
       /\ Dirs' = Dirs \cup {Directory'}
       /\ DOMAIN files' = DOMAIN files \cup {name}
       /\ \A n \in DOMAIN files \ {name} : files'[n] = files[n]
       /\ files'[name] = [records |-> <<content>>, durable |-> 0]
  BY <1>3, <1>6, Creates
<1>11. AckInv' BY <1>1, <1>3, <1>9, AckKept DEF historyVars, countVars
<1>12. db'.next = next + 1 BY <1>5
<1>14. LastGiven' = LastGiven BY <1>1 DEF LastGiven
<1>15. LastGiven \in Nat BY <1>3, <1>4 DEF LastGiven, MemoryType, Entry
<1>16. RunningInv'
  <2>1. /\ db'.next >= db.next /\ db'.last >= db.last /\ db'.manifest < db'.next
        /\ LastGiven' \in Nat /\ LastGiven' >= LastGiven
    BY <1>2, <1>3, <1>4, <1>5, <1>12, <1>14, <1>15 DEF RunningInv, Database
  <2>2. \A t \in db'.version \cup db'.edit.add : t \in db.version \cup db.edit.add /\ TableStays(t)
    <3>1. \A t \in db.version \cup db.edit.add : t \in Nat /\ t < db.next
      BY <1>2, <1>3 DEF RunningInv, Database
    <3> QED BY <1>4, <1>5, <1>7, <1>9, <3>1
  <2> QED BY <1>2, <1>9, <1>15, <2>1, <2>2, RunningKept
<1>17. \A n \in Directory.names : n # name => n \in Directory'.names /\ files'[n] = files[n]
  BY <1>3, <1>10, DirectoryShape
<1>18. files'[name].records = <<content>> /\ name \in Directory'.names BY <1>10
<1>19. \A D \in Dirs' : \E E \in Dirs : D.current = E.current /\ E.names \subseteq D.names
  BY <1>3, <1>10
<1> QED BY <1>4, <1>5, <1>7, <1>9, <1>11, <1>16, <1>17, <1>18, <1>19 DEF DiskInv, name

\* The clients see nothing of the new table.
LEMMA NewTableOpen ==
    ASSUME Inv, db.opened, MemoryType', NEW content \in SUBSET Entry,
           Create(<<"table", db.next>>, <<content>>),
           UNCHANGED <<writer, pins, countVars, historyVars>>,
           db'.next = db.next + 1, db'.last = db.last, db'.mem = db.mem, db'.imm = db.imm,
           db'.manifest = db.manifest, db'.version = db.version, db'.edit = db.edit,
           db'.todo = db.todo, db'.log = db.log, db'.logNumber = db.logNumber,
           db'.opened, db'.described, Possible(Directory) = {Latest},
           pc' \in {"idle", "merge", "build", "sync", "apply", "syncManifest", "install", "clean"}
    PROVE  /\ DiskInv' /\ View({}) /\ RunningInv' /\ OpenInv'
           /\ \A t \in Nat : t # db.next => TableStays(t)
           /\ <<"table", db.next>> \in Directory'.names
           /\ files'[<<"table", db.next>>].records = <<content>>
           /\ \A n \in Directory.names : n # <<"table", db.next>> =>
                n \in Directory'.names /\ files'[n] = files[n]
           /\ \A D \in Dirs' : \E E \in Dirs :
                D.current = E.current /\ E.names \subseteq D.names
           /\ db.next \in Nat \ {0} /\ Possible(Directory)' = {Latest'} /\ Latest' = Latest
<1>1. /\ Readable /\ DiskType /\ db \in Database /\ MemoryType /\ OpenInv /\ RunningInv
      /\ Directory \in Dirs /\ db.todo = {} /\ ~Opening
  BY OpenFacts
<1>2. /\ DiskInv' /\ View({}) /\ RunningInv'
      /\ \A t \in Nat : t # db.next => TableStays(t)
      /\ <<"table", db.next>> \in Directory'.names
      /\ files'[<<"table", db.next>>].records = <<content>>
      /\ \A n \in Directory.names : n # <<"table", db.next>> =>
            n \in Directory'.names /\ files'[n] = files[n]
      /\ \A D \in Dirs' : \E E \in Dirs : D.current = E.current /\ E.names \subseteq D.names
      /\ db.next \in Nat \ {0}
  BY <1>1, NewTable
<1>3. \A t \in db.version : TableStays(t) /\ Table(t)' = Table(t)
  <2>1. \A t \in db.version : t \in Nat /\ t < db.next /\ Whole(t, Directory.names)
    BY <1>1 DEF RunningInv, Database
  <2>2. \A t \in db.version : TableStays(t) BY <1>2, <2>1
  <2> QED BY <2>1, <2>2 DEF TableStays, Whole
<1>4. Tables(db.version)' = Tables(db.version) BY <1>3 DEF Tables
<1>5. OpenInv'
  <2>1. Contents' = Contents BY <1>4 DEF Contents, Tables
  <2>2. <<"log", db.log>> \in Directory'.names /\ files'[<<"log", db.log>>] = files[<<"log", db.log>>]
    <3>1. <<"log", db.log>> \in Directory.names BY <1>1 DEF OpenInv
    <3>2. <<"log", db.log>> # <<"table", db.next>> OBVIOUS
    <3> QED BY <1>2, <3>1, <3>2
  <2>3. SyncedEntries(db.log)' = SyncedEntries(db.log) BY <2>2 DEF SyncedEntries
  <2>4. \A t \in Pinned' : (t \in Pinned \/ t \in db.version) /\ TableStays(t)
    <3>1. Pinned' = Pinned BY DEF Pinned
    <3>2. \A t \in Pinned : t \in Nat /\ t < db.next
      <4>1. \A p \in pins : p[2] \subseteq Nat BY <1>1 DEF MemoryType
      <4>2. \A t \in Pinned : t \in Nat BY <4>1 DEF Pinned
      <4> QED BY <1>1, <4>2 DEF OpenInv
    <3> QED BY <1>2, <3>1, <3>2
  <2>5. db.logNumber <= db.log BY <1>1 DEF OpenInv
  <2>6. db'.next \in Nat /\ db'.next >= db.next BY <1>2
  <2>7. Tables(db.version) \cup db.imm \subseteq (Tables(db.version) \cup db.imm)' BY <1>4
  <2> QED BY <1>1, <1>2, <2>1, <2>2, <2>3, <2>4, <2>5, <2>6, <2>7, OpenKept
             DEF countVars, historyVars
<1>6. Possible(Directory)' = {Latest'} /\ Latest' = Latest
  BY <1>1, <1>2, OneImage DEF DiskInv
<1> QED BY <1>2, <1>5, <1>6

\* What BuildTable does to the memory.
LEMMA BuildTableMemory ==
    ASSUME db \in Database, BuildTable
    PROVE  /\ db' \in Database /\ db'.opened = db.opened /\ db'.described = db.described
           /\ db'.next = db.next + 1 /\ db'.last = db.last /\ db'.mem = db.mem
           /\ db'.imm = db.imm /\ db'.manifest = db.manifest /\ db'.version = db.version
           /\ db'.edit = db.edit /\ db'.todo = db.todo /\ db'.position = db.position
           /\ db'.log = db.log /\ db'.logNumber = db.logNumber /\ db'.work = db.work
           /\ db'.output = db.next /\ db'.pending = db.pending \cup {db.next}
           /\ db'.inputs = db.inputs /\ db'.left = db.left /\ db'.outputs = db.outputs
           /\ db'.builder = db.builder
<1>1. PICK next \in Nat : next = db.next BY DEF Database
<1>2. PICK pending \in SUBSET Nat : pending = db.pending \cup {next} BY <1>1 DEF Database
<1>3. db' = [db EXCEPT !.output = next, !.pending = pending, !.next = next + 1]
  BY <1>1, <1>2 DEF BuildTable, Database
<1>4. next + 1 \in Nat OBVIOUS
<1> QED BY <1>1, <1>2, <1>3, <1>4 DEF Database

LEMMA BuildTableReplaying ==
    ASSUME Inv, BuildTable, ~db.opened
    PROVE  Core'
<1>1. pc = "build" /\ pc' = "sync" /\ UNCHANGED <<writer, pins, countVars, historyVars>>
  BY DEF BuildTable, Alone
<1>2. Replaying BY <1>1 DEF Replaying
<1>3. /\ ReplayInv /\ RunningInv /\ Readable /\ DiskType /\ db \in Database /\ MemoryType
      /\ writer = NoWrite /\ pins = {} /\ ~Opening /\ Directory \in Dirs
      /\ \A t \in db.version \cup db.edit.add : t \in Nat
  BY <1>2, ReplayingFacts
<1>4. /\ ~db.opened /\ ~db.described /\ db.work = "replay" /\ db.imm = {} /\ db.edit.delete = {}
      /\ db.version = Latest.tables /\ db.manifest = Latest.next
      /\ db.todo \subseteq LiveLogs(Directory, Latest) /\ db.todo # {} /\ db.mem # {}
      /\ \A n \in LiveLogs(Directory, Latest) \ db.todo :
                LogEntries(n) \subseteq db.mem \cup Tables(db.edit.add)
  BY <1>1, <1>2, <1>3 DEF ReplayInv
<1>5. PICK content \in SUBSET Entry : content = db.mem BY <1>3 DEF Database
<1>7. /\ db' \in Database /\ db'.opened = db.opened /\ db'.described = db.described
      /\ db'.work = "replay" /\ db'.imm = {} /\ db'.last = db.last
      /\ db'.edit = db.edit /\ db'.version = db.version /\ db'.manifest = db.manifest
      /\ db'.todo = db.todo /\ db'.mem = db.mem /\ db'.position = db.position
      /\ db'.output = db.next /\ db'.next = db.next + 1
  BY <1>3, <1>4, BuildTableMemory
<1>14. MemoryType' BY <1>1, <1>3, <1>7 DEF MemoryType, Pc, countVars
<1>6. /\ DiskInv' /\ View({})
      /\ \A t \in Nat : t # db.next => TableStays(t)
      /\ <<"table", db.next>> \in Directory'.names
      /\ files'[<<"table", db.next>>].records = <<content>>
      /\ \A n \in Directory.names : n # <<"table", db.next>> =>
            n \in Directory'.names /\ files'[n] = files[n]
      /\ db.next \in Nat \ {0} /\ RunningInv'
  <2>1. Create(<<"table", db.next>>, <<content>>) BY <1>4, <1>5 DEF BuildTable
  <2>2. db'.imm = db.imm BY <1>4, <1>7
  <2> QED BY <1>1, <1>3, <1>7, <1>14, <2>1, <2>2, NewTable
<1>8. \A t \in db.version \cup db.edit.add : Table(t)' = Table(t)
  <2>1. \A t \in db.version \cup db.edit.add : t < db.next /\ Whole(t, Directory.names)
    BY <1>3 DEF RunningInv
  <2>2. \A t \in db.version \cup db.edit.add : TableStays(t) BY <1>3, <1>6, <2>1
  <2> QED BY <2>1, <2>2 DEF TableStays, Whole
<1>9. Tables(db.edit.add)' = Tables(db.edit.add) BY <1>7, <1>8 DEF Tables
<1>10. /\ Latest' = Latest /\ LiveLogs(Directory, Latest)' = LiveLogs(Directory, Latest)
       /\ \A n \in LiveLogs(Directory, Latest) : LogEntries(n)' = LogEntries(n)
  BY <1>3, <1>6 DEF View
<1>11. LET log == files'[<<"log", Smallest(db'.todo)>>].records
       IN  /\ db'.position <= Len(log)
           /\ \A i \in 1 .. db'.position : log[i] \in db'.mem \cup Tables(db.edit.add)
  <2>1. db.todo \subseteq Nat BY <1>3 DEF Database
  <2>2. PICK n \in LiveLogs(Directory, Latest) : n = Smallest(db.todo)
    BY <1>4, <2>1, LeastNumber
  <2>3. <<"log", n>> \in Directory.names BY <1>3, LogShape
  <2>4. files'[<<"log", n>>] = files[<<"log", n>>]
    <3>1. <<"log", n>> # <<"table", db.next>> OBVIOUS
    <3> QED BY <1>6, <2>3, <3>1
  <2>5. /\ db.position <= Len(files[<<"log", n>>].records)
        /\ \A i \in 1 .. db.position :
                files[<<"log", n>>].records[i] \in db.mem \cup Tables(db.edit.add)
    BY <1>2, <1>3, <1>4, <2>2 DEF ReplayInv
  <2> QED BY <1>7, <2>2, <2>4, <2>5
<1>12. ReplayInv'
  <2>1. /\ <<"table", db'.output>> \in Directory'.names
        /\ files'[<<"table", db'.output>>].records = <<db'.mem>>
        /\ 0 < db'.output /\ db'.output < db'.next
    BY <1>5, <1>6, <1>7
  <2>2. \A n \in LiveLogs(Directory, Latest)' \ db'.todo :
                LogEntries(n)' \subseteq db'.mem \cup Tables(db.edit.add)'
    BY <1>4, <1>7, <1>9, <1>10
  <2> QED BY <1>1, <1>3, <1>4, <1>7, <1>9, <1>10, <1>11, <2>1, <2>2 DEF ReplayInv
<1>13. Replaying' BY <1>1, <1>7 DEF Replaying
<1> QED BY <1>6, <1>14, <1>12, <1>13, ReplayPhase

LEMMA BuildTableOpen ==
    ASSUME Inv, BuildTable, db.opened
    PROVE  Inv'
<1>1. pc = "build" /\ pc' = "sync" /\ UNCHANGED <<writer, pins, countVars, historyVars>>
  BY DEF BuildTable, Alone
<1>2. db \in Database /\ MemoryType /\ WorkInv /\ db.described BY OpenFacts
<1>3. /\ db.work = "flush" /\ db.edit = NoEdit /\ db.imm # {} /\ db.edit.delete = {}
      /\ Possible(Directory) = {Latest}
      /\ Latest.tables = db.version /\ Latest.log = db.logNumber
  BY <1>1, <1>2 DEF WorkInv
<1>4. PICK content \in SUBSET Entry : content = db.imm BY <1>2 DEF Database
<1>5. /\ db' \in Database /\ db'.opened = db.opened /\ db'.described = db.described
      /\ db'.next = db.next + 1 /\ db'.last = db.last /\ db'.mem = db.mem
      /\ db'.imm = db.imm /\ db'.manifest = db.manifest /\ db'.version = db.version
      /\ db'.edit = db.edit /\ db'.todo = db.todo /\ db'.work = db.work
      /\ db'.log = db.log /\ db'.logNumber = db.logNumber /\ db'.output = db.next
      /\ db'.pending = db.pending \cup {db.next} /\ db'.inputs = db.inputs
      /\ db'.left = db.left /\ db'.outputs = db.outputs /\ db'.builder = db.builder
  BY <1>2, BuildTableMemory
<1>6. MemoryType' BY <1>1, <1>2, <1>5 DEF MemoryType, Pc, countVars
<1>7. /\ DiskInv' /\ View({}) /\ RunningInv' /\ OpenInv'
      /\ <<"table", db.next>> \in Directory'.names
      /\ files'[<<"table", db.next>>].records = <<content>>
      /\ db.next \in Nat \ {0} /\ Possible(Directory)' = {Latest'} /\ Latest' = Latest
      /\ \A t \in Nat : t # db.next => TableStays(t)
      /\ \A D \in Dirs' : \E E \in Dirs : D.current = E.current /\ E.names \subseteq D.names
  <2>1. Create(<<"table", db.next>>, <<content>>) BY <1>3, <1>4 DEF BuildTable
  <2>2. db'.opened /\ db'.described BY <1>2, <1>5
  <2> QED BY <1>1, <1>3, <1>5, <1>6, <2>1, <2>2, NewTableOpen
<1>8. WorkInv'
  <2>1. /\ <<"table", db'.output>> \in Directory'.names
        /\ files'[<<"table", db'.output>>].records = <<db'.imm>>
        /\ 0 < db'.output /\ db'.output < db'.next
    BY <1>4, <1>5, <1>7
  <2>2. /\ db'.work = "flush" /\ db'.edit = NoEdit /\ db'.imm # {} /\ db'.edit.delete = {}
        /\ Latest'.tables = db'.version /\ Latest'.log = db'.logNumber
    BY <1>3, <1>5, <1>7
  <2> QED BY <1>1, <1>7, <2>1, <2>2 DEF WorkInv
<1>9. MergeInv'
  <2>1. \A t \in db'.pending : t \in db.pending \/ (0 < t /\ t < db'.next) BY <1>5, <1>7
  <2>2. \A t \in Live : TableStays(t)
    <3>1. \A t \in Live : t \in Nat /\ t < db.next BY <1>2, LiveNumbers
    <3> QED BY <1>7, <3>1
  <2>3. db.inputs # {} =>
            /\ db.inputs \subseteq db'.version /\ Produced \subseteq db'.pending
            /\ pc' = "sync" => db'.output \notin Produced
    <3>1. db.inputs # {} => MergingInv /\ \A t \in Produced : t \in Nat /\ t < db.next
      BY MergeFacts
    <3> QED BY <1>5, <1>7, <3>1 DEF MergingInv
  <2>4. pc' # "merge" /\ db'.next >= db.next BY <1>1, <1>5, <1>7
  <2> QED BY <1>2, <1>5, <1>7, <2>1, <2>2, <2>3, <2>4, MergeKept
<1> QED BY <1>5, <1>6, <1>7, <1>8, <1>9, OpenedPhase DEF Inv

\* The table is whole, and may be one of the edit.
LEMMA WholeTable ==
    ASSUME Inv, ~Opening, MemoryType', NEW output \in Nat, NEW content \in SUBSET Entry,
           content # {}, Sync(files, <<"table", output>>, Directory),
           <<"table", output>> \in Directory.names,
           files[<<"table", output>>].records = <<content>>,
           UNCHANGED <<writer, pins, countVars, historyVars>>,
           db'.next = db.next, db'.last = db.last, db'.manifest = db.manifest,
           db'.version = db.version, db'.imm = db.imm, db'.todo = db.todo,
           db'.mem \subseteq db.mem, db'.edit.add \subseteq db.edit.add \cup {output},
           output \in db'.edit.add => content \subseteq Contents /\ 0 < output /\ output < db.next
    PROVE  /\ DiskInv' /\ RunningInv' /\ View({})
           /\ Directory' = Directory /\ Dirs' = {Directory} /\ \A t \in Nat : TableStays(t)
           /\ Table(output)' = content /\ Whole(output, Directory.names)'
           /\ \A n \in Nat : <<"log", n>> \in Directory.names =>
                files'[<<"log", n>>] = files[<<"log", n>>]
           /\ \A n \in Directory.names : n[1] # "temp" => files'[n].records = files[n].records
<1>1. UNCHANGED <<writer, pins, countVars, historyVars>> OBVIOUS
<1>2. ~Opening OBVIOUS
<1>3. /\ Readable /\ DiskType /\ DirInv /\ ImagesInv /\ AckInv /\ MemoryType /\ RunningInv
      /\ db \in Database /\ Directory \in Dirs /\ Latest \in Edit
      /\ Directory.current # 0
  BY <1>2, Given DEF Inv, Core, DiskInv
<1> DEFINE name == <<"table", output>>
<1>5. name \in Directory.names /\ Sync(files, name, Directory) /\ name[1] = "table"
      /\ \A n \in Nat : <<"log", n>> # name
  OBVIOUS
<1> HIDE DEF name
<1>6. UNCHANGED <<synced, unborn>> BY <1>1 DEF historyVars
<1>7. /\ DiskType' /\ DirInv' /\ ImageInv' /\ UniqueInv' /\ LatestInv' /\ SyncedInv'
      /\ View({}) /\ Directory' = Directory /\ Dirs' = {Directory}
      /\ \A t \in Nat : TableStays(t)
      /\ \A n \in Directory.names : n[1] # "temp" =>
            /\ n \in DOMAIN files' /\ files'[n].records = files[n].records
            /\ n # name => files'[n] = files[n]
      /\ files'[name].durable = Len(files'[name].records)
  BY <1>3, <1>5, <1>6, SyncOnlyKeeps
<1>8. DiskInv'
  <2>1. AckInv' BY <1>1, <1>3, <1>7, AckKept DEF historyVars, countVars
  <2> QED BY <1>7, <2>1 DEF DiskInv, ImagesInv
<1>9. Table(output)' = content /\ Whole(output, Directory.names)'
  <2>1. files'[name].records = <<content>> /\ files'[name].durable = 1
    <3>1. files[name].records = <<content>> BY DEF name
    <3>2. name[1] # "temp" BY <1>5
    <3>3. files'[name].records = <<content>> BY <1>5, <1>7, <3>1, <3>2
    <3>4. Len(<<content>>) = 1 OBVIOUS
    <3> QED BY <1>7, <3>3, <3>4
  <2>3. Table(output)' = content BY <2>1 DEF Table, name
  <2> QED BY <1>5, <1>7, <2>1, <2>3 DEF Whole, name
<1>14. LastGiven' = LastGiven BY <1>1 DEF LastGiven
<1>15. RunningInv'
  <2>1. LastGiven \in Nat BY <1>3 DEF LastGiven, MemoryType, Entry, Database
  <2>2. /\ db'.next >= db.next /\ db'.last >= db.last /\ db'.manifest < db'.next
        /\ LastGiven' \in Nat /\ LastGiven' >= LastGiven
    BY <1>2, <1>3, <1>14, <2>1 DEF RunningInv, Database
  <2>3. ASSUME NEW t \in db'.version \cup db'.edit.add
        PROVE  \/ t \in db.version \cup db.edit.add /\ TableStays(t)
               \/ /\ Whole(t, Directory.names)' /\ 0 < t /\ t < db'.next
                  /\ Table(t)' \subseteq Contents
    <3>1. CASE t \in db.version \cup db.edit.add
      <4>1. t \in Nat BY <1>3, <3>1 DEF Database
      <4> QED BY <1>7, <3>1, <4>1
    <3>2. CASE t \notin db.version \cup db.edit.add
      <4>1. t = output /\ t \in db'.edit.add BY <3>2
      <4> QED BY <1>9, <4>1
    <3> QED BY <3>1, <3>2
  <2>4. \A e \in db'.mem \cup db'.imm : e \in db.mem \cup db.imm OBVIOUS
  <2> QED BY <1>2, <1>7, <2>2, <2>3, <2>4, RunningKept
<1>16. \A n \in Nat : <<"log", n>> \in Directory.names => files'[<<"log", n>>] = files[<<"log", n>>]
  <2> SUFFICES ASSUME NEW n \in Nat, <<"log", n>> \in Directory.names
               PROVE  files'[<<"log", n>>] = files[<<"log", n>>]
    OBVIOUS
  <2>1. <<"log", n>>[1] # "temp" /\ <<"log", n>> # name BY <1>5
  <2> QED BY <1>7, <2>1
<1> QED BY <1>7, <1>8, <1>9, <1>15, <1>16

\* The clients see nothing of it.
LEMMA WholeTableOpen ==
    ASSUME Inv, db.opened, MemoryType', NEW output \in Nat, NEW content \in SUBSET Entry,
           content # {}, Sync(files, <<"table", output>>, Directory),
           <<"table", output>> \in Directory.names,
           files[<<"table", output>>].records = <<content>>,
           UNCHANGED <<writer, pins, countVars, historyVars>>,
           db'.next = db.next, db'.last = db.last, db'.manifest = db.manifest,
           db'.version = db.version, db'.imm = db.imm, db'.todo = db.todo,
           db'.mem = db.mem, db'.log = db.log, db'.logNumber = db.logNumber,
           db'.edit.add \subseteq db.edit.add \cup {output},
           output \in db'.edit.add => content \subseteq Contents /\ 0 < output /\ output < db.next,
           db'.opened, db'.described, Possible(Directory) = {Latest},
           pc' \in {"idle", "merge", "build", "sync", "apply", "syncManifest", "install", "clean"}
    PROVE  /\ DiskInv' /\ RunningInv' /\ OpenInv' /\ View({})
           /\ Directory' = Directory /\ Dirs' = {Directory} /\ \A t \in Nat : TableStays(t)
           /\ Table(output)' = content /\ Whole(output, Directory.names)'
           /\ \A n \in Directory.names : n[1] # "temp" => files'[n].records = files[n].records
           /\ Directory'.current = db.manifest /\ <<"log", db.log>> \in Directory'.names
           /\ Possible(Directory)' = {Latest'} /\ Latest' = Latest
<1>1. /\ Readable /\ DiskType /\ db \in Database /\ MemoryType /\ OpenInv /\ RunningInv
      /\ Directory \in Dirs /\ db.todo = {} /\ ~Opening
  BY OpenFacts
<1>2. /\ DiskInv' /\ RunningInv' /\ View({})
      /\ Directory' = Directory /\ Dirs' = {Directory} /\ \A t \in Nat : TableStays(t)
      /\ Table(output)' = content /\ Whole(output, Directory.names)'
      /\ \A n \in Nat : <<"log", n>> \in Directory.names =>
            files'[<<"log", n>>] = files[<<"log", n>>]
      /\ \A n \in Directory.names : n[1] # "temp" => files'[n].records = files[n].records
  BY <1>1, WholeTable
<1>3. Tables(db.version)' = Tables(db.version)
  <2>1. \A t \in db.version : t \in Nat /\ Whole(t, Directory.names)
    BY <1>1 DEF RunningInv, Database
  <2>2. \A t \in db.version : Table(t)' = Table(t) BY <1>2, <2>1 DEF TableStays, Whole
  <2> QED BY <2>2 DEF Tables
<1>4. <<"log", db.log>> \in Directory'.names /\ files'[<<"log", db.log>>] = files[<<"log", db.log>>]
  <2>1. <<"log", db.log>> \in Directory.names /\ db.log \in Nat BY <1>1 DEF OpenInv, Database
  <2> QED BY <1>2, <2>1
<1>5. OpenInv'
  <2>1. Contents' = Contents BY <1>3 DEF Contents, Tables
  <2>2. SyncedEntries(db.log)' = SyncedEntries(db.log) BY <1>4 DEF SyncedEntries
  <2>3. \A t \in Pinned' : (t \in Pinned \/ t \in db.version) /\ TableStays(t)
    <3>1. Pinned' = Pinned BY DEF Pinned
    <3>2. \A p \in pins : p[2] \subseteq Nat BY <1>1 DEF MemoryType
    <3>3. \A t \in Pinned : t \in Nat BY <3>2 DEF Pinned
    <3> QED BY <1>2, <3>1, <3>3
  <2>4. db'.logNumber <= db.log BY <1>1 DEF OpenInv
  <2>5. db'.next \in Nat /\ db'.next >= db.next BY <1>1 DEF Database
  <2>6. UNCHANGED <<writer, calls, acked, synced>> BY DEF countVars, historyVars
  <2>7. Tables(db.version) \cup db.imm \subseteq (Tables(db.version) \cup db.imm)' BY <1>3
  <2>8. View({}) /\ db'.todo = {} BY <1>1, <1>2
  <2> QED BY <1>4, <2>1, <2>2, <2>3, <2>4, <2>5, <2>6, <2>7, <2>8, OpenKept
<1>6. Possible(Directory)' = {Latest'} /\ Latest' = Latest
  BY <1>1, <1>2, OneImage DEF DiskInv
<1>7. Directory'.current = db.manifest BY <1>1, <1>2 DEF OpenInv
<1> QED BY <1>2, <1>4, <1>5, <1>6, <1>7

\* What SyncTable does to the memory.
LEMMA SyncTableMemory ==
    ASSUME db \in Database, SyncTable
    PROVE  /\ db' \in Database /\ db'.opened = db.opened /\ db'.described = db.described
           /\ db'.next = db.next /\ db'.log = db.log /\ db'.logNumber = db.logNumber
           /\ db'.manifest = db.manifest /\ db'.last = db.last /\ db'.version = db.version
           /\ db'.imm = db.imm /\ db'.todo = db.todo /\ db'.position = db.position
           /\ db'.work = db.work /\ db'.output = db.output
           /\ db'.edit.add = db.edit.add \cup {db.output}
           /\ db'.edit.delete = db.edit.delete
           /\ db'.edit.log = (IF db.work = "replay" THEN db.edit.log ELSE db.log)
           /\ db'.mem = (IF db.work = "replay" THEN {} ELSE db.mem)
           /\ db'.pending = db.pending \ {db.output}
           /\ db'.inputs = db.inputs /\ db'.left = db.left /\ db'.outputs = db.outputs
           /\ db'.builder = db.builder
<1>1. PICK mem \in SUBSET Entry : mem = IF db.work = "replay" THEN {} ELSE db.mem
  BY DEF Database
<1>2. PICK log \in Nat : log = IF db.work = "replay" THEN db.edit.log ELSE db.log
  BY DEF Database
<1>3. PICK pending \in SUBSET Nat : pending = db.pending \ {db.output} BY DEF Database
<1>4. PICK output \in Nat : output = db.output BY DEF Database
<1>5. PICK old : old = db.edit OBVIOUS
<1>6. old \in [add : SUBSET Nat, delete : SUBSET Nat, log : Nat] BY <1>5 DEF Database
<1>7. PICK edit : edit = [old EXCEPT !.add = old.add \cup {output}, !.log = log] OBVIOUS
<1>8. /\ edit \in [add : SUBSET Nat, delete : SUBSET Nat, log : Nat]
      /\ edit.add = db.edit.add \cup {output} /\ edit.delete = db.edit.delete /\ edit.log = log
  BY <1>5, <1>6, <1>7
<1>9. db' = [db EXCEPT !.edit.add = @ \cup {db.output},
                       !.edit.log = IF db.work = "replay" THEN @ ELSE db.log,
                       !.pending = @ \ {db.output},
                       !.mem = IF db.work = "replay" THEN {} ELSE @]
  BY DEF SyncTable
<1>10. db' = [db EXCEPT !.edit = edit, !.pending = pending, !.mem = mem]
  BY <1>1, <1>2, <1>3, <1>4, <1>5, <1>7, <1>9 DEF Database
<1> QED BY <1>1, <1>2, <1>3, <1>4, <1>8, <1>10 DEF Database

LEMMA SyncTableReplaying ==
    ASSUME Inv, SyncTable, ~db.opened
    PROVE  Core'
<1>1. pc = "sync" /\ UNCHANGED <<writer, pins, countVars, historyVars>>
  BY DEF SyncTable, Alone
<1>2. Replaying BY <1>1 DEF Replaying
<1>3. /\ ReplayInv /\ RunningInv /\ Readable /\ DiskType /\ db \in Database /\ MemoryType
      /\ writer = NoWrite /\ pins = {} /\ ~Opening /\ Directory \in Dirs
      /\ \A t \in db.version \cup db.edit.add : t \in Nat
  BY <1>2, ReplayingFacts
<1>4. /\ ~db.opened /\ ~db.described /\ db.work = "replay" /\ db.imm = {} /\ db.edit.delete = {}
      /\ db.version = Latest.tables /\ db.manifest = Latest.next
      /\ db.todo \subseteq LiveLogs(Directory, Latest) /\ db.todo # {} /\ db.mem # {}
      /\ \A n \in LiveLogs(Directory, Latest) \ db.todo :
                LogEntries(n) \subseteq db.mem \cup Tables(db.edit.add)
      /\ <<"table", db.output>> \in Directory.names
      /\ files[<<"table", db.output>>].records = <<db.mem>>
      /\ 0 < db.output /\ db.output < db.next
  BY <1>1, <1>2, <1>3 DEF ReplayInv
<1>5. PICK content \in SUBSET Entry : content = db.mem BY <1>3 DEF Database
<1>13. PICK output \in Nat : output = db.output BY <1>3 DEF Database
<1>7. pc' = "replay" BY <1>4 DEF SyncTable
<1>14. /\ db' \in Database /\ db'.next = db.next /\ db'.last = db.last
       /\ db'.opened = db.opened /\ db'.described = db.described
       /\ db'.manifest = db.manifest /\ db'.version = db.version /\ db'.imm = db.imm
       /\ db'.todo = db.todo /\ db'.position = db.position /\ db'.work = db.work
       /\ db'.output = db.output /\ db'.edit.add = db.edit.add \cup {output}
       /\ db'.edit.delete = db.edit.delete
       /\ db'.mem = {}
  BY <1>3, <1>4, <1>13, SyncTableMemory
<1>15. MemoryType' BY <1>1, <1>3, <1>7, <1>14 DEF MemoryType, Pc, countVars
<1>6. /\ DiskInv' /\ RunningInv' /\ View({})
      /\ Directory' = Directory /\ \A t \in Nat : TableStays(t)
      /\ Table(output)' = content
      /\ \A n \in Nat : <<"log", n>> \in Directory.names =>
            files'[<<"log", n>>] = files[<<"log", n>>]
  <2>1. content # {} /\ content \subseteq Contents BY <1>4, <1>5 DEF Contents
  <2>2. /\ files[<<"table", output>>].records = <<content>> /\ 0 < output /\ output < db.next
        /\ <<"table", output>> \in Directory.names
    BY <1>4, <1>5, <1>13
  <2>3. Sync(files, <<"table", output>>, Directory) BY <1>13 DEF SyncTable
  <2>4. db'.mem \subseteq db.mem /\ db'.edit.add \subseteq db.edit.add \cup {output} BY <1>14
  <2> QED BY <1>1, <1>3, <1>14, <1>15, <2>1, <2>2, <2>3, <2>4, WholeTable
<1>8. Tables(db.edit.add)' = Tables(db.edit.add) \cup db.mem
  <2>1. \A t \in db.edit.add : Table(t)' = Table(t) BY <1>3, <1>6 DEF RunningInv, Whole, TableStays
  <2>2. Tables(db.edit.add)' = UNION {Table(t)' : t \in db'.edit.add} BY DEF Tables
  <2>4. Table(output)' = db.mem BY <1>5, <1>6
  <2>6. UNION {Table(t)' : t \in db'.edit.add} = (UNION {Table(t)' : t \in db.edit.add}) \cup Table(output)'
    BY <1>14
  <2>7. UNION {Table(t)' : t \in db.edit.add} = Tables(db.edit.add)
    BY <2>1 DEF Tables
  <2> QED BY <2>2, <2>4, <2>6, <2>7
<1>9. /\ Latest' = Latest /\ LiveLogs(Directory, Latest)' = LiveLogs(Directory, Latest)
      /\ \A n \in LiveLogs(Directory, Latest) : LogEntries(n)' = LogEntries(n)
  BY <1>3, <1>6 DEF View
<1>10. LET log == files'[<<"log", Smallest(db'.todo)>>].records
       IN  /\ db'.position <= Len(log)
           /\ \A i \in 1 .. db'.position : log[i] \in Tables(db.edit.add)'
  <2>1. db.todo \subseteq Nat BY <1>3 DEF Database
  <2>2. PICK n \in LiveLogs(Directory, Latest) : n = Smallest(db.todo)
    BY <1>4, <2>1, LeastNumber
  <2>3. <<"log", n>> \in Directory.names /\ n \in Nat BY <1>3, LogShape
  <2>4. files'[<<"log", n>>] = files[<<"log", n>>] BY <1>6, <2>3
  <2>5. /\ db.position <= Len(files[<<"log", n>>].records)
        /\ \A i \in 1 .. db.position :
                files[<<"log", n>>].records[i] \in db.mem \cup Tables(db.edit.add)
    BY <1>2, <1>3, <1>4, <2>2 DEF ReplayInv
  <2> QED BY <1>6, <1>14, <1>8, <2>2, <2>4, <2>5
<1>11. ReplayInv'
  <2>1. \A n \in LiveLogs(Directory, Latest)' \ db'.todo :
                LogEntries(n)' \subseteq db'.mem \cup Tables(db.edit.add)'
    <3> DEFINE new == db'.mem \cup Tables(db.edit.add)'
    <3>1. db.mem \cup Tables(db.edit.add) \subseteq new BY <1>8
    <3> HIDE DEF new
    <3>2. \A n \in LiveLogs(Directory, Latest) : n \notin db.todo => LogEntries(n)' \subseteq new
      BY <1>4, <1>9, <3>1
    <3>3. \A n \in LiveLogs(Directory, Latest)' \ db'.todo : LogEntries(n)' \subseteq new
      BY <1>6, <1>14, <1>9, <3>2
    <3> QED BY <3>3 DEF new
  <2> QED BY <1>1, <1>3, <1>4, <1>6, <1>14, <1>7, <1>9, <1>10, <2>1 DEF ReplayInv
<1>12. Replaying' BY <1>7 DEF Replaying
<1> QED BY <1>6, <1>15, <1>11, <1>12, ReplayPhase

LEMMA SyncTableOpen ==
    ASSUME Inv, SyncTable, db.opened
    PROVE  Inv'
<1>1. pc = "sync" /\ UNCHANGED <<writer, pins, countVars, historyVars>>
  BY DEF SyncTable, Alone
<1>2. db \in Database /\ MemoryType /\ WorkInv /\ db.described BY OpenFacts
<1>3. /\ db.work = "flush" /\ db.edit = NoEdit /\ db.imm # {}
      /\ Possible(Directory) = {Latest}
      /\ Latest.tables = db.version /\ Latest.log = db.logNumber
      /\ <<"table", db.output>> \in Directory.names
      /\ files[<<"table", db.output>>].records = <<db.imm>>
      /\ 0 < db.output /\ db.output < db.next
  BY <1>1, <1>2 DEF WorkInv
<1>4. PICK content \in SUBSET Entry : content = db.imm BY <1>2 DEF Database
<1>5. PICK output \in Nat : output = db.output BY <1>2 DEF Database
<1>6. pc' = "apply" BY <1>3 DEF SyncTable
<1>7. /\ db' \in Database /\ db'.opened = db.opened /\ db'.described = db.described
      /\ db'.next = db.next /\ db'.log = db.log /\ db'.logNumber = db.logNumber
      /\ db'.manifest = db.manifest /\ db'.last = db.last /\ db'.version = db.version
      /\ db'.imm = db.imm /\ db'.todo = db.todo /\ db'.work = db.work
      /\ db'.edit.add = {output} /\ db'.edit.delete = {} /\ db'.edit.log = db.log
      /\ db'.mem = db.mem /\ db'.pending = db.pending \ {output} /\ db'.inputs = db.inputs
      /\ db'.left = db.left /\ db'.outputs = db.outputs /\ db'.builder = db.builder
  <2>1. db.edit.add = {} /\ db.edit.delete = {} BY <1>3 DEF NoEdit
  <2> QED BY <1>2, <1>3, <1>5, <2>1, SyncTableMemory
<1>8. MemoryType' BY <1>1, <1>2, <1>6, <1>7 DEF MemoryType, Pc, countVars
<1>9. /\ DiskInv' /\ RunningInv' /\ OpenInv' /\ Dirs' = {Directory} /\ Directory' = Directory
      /\ Table(output)' = content /\ Whole(output, Directory.names)'
      /\ Directory'.current = db.manifest /\ <<"log", db.log>> \in Directory'.names
      /\ Possible(Directory)' = {Latest'} /\ Latest' = Latest /\ \A t \in Nat : TableStays(t)
  <2>1. /\ files[<<"table", output>>].records = <<content>> /\ content # {}
        /\ 0 < output /\ output < db.next /\ <<"table", output>> \in Directory.names
    BY <1>3, <1>4, <1>5
  <2>2. Sync(files, <<"table", output>>, Directory) BY <1>5 DEF SyncTable
  <2>3. content \subseteq Contents BY <1>4 DEF Contents
  <2>4. db'.edit.add \subseteq db.edit.add \cup {output} /\ db'.opened /\ db'.described
    BY <1>2, <1>7
  <2> QED BY <1>1, <1>3, <1>6, <1>7, <1>8, <2>1, <2>2, <2>3, <2>4, WholeTableOpen
<1>10. WorkInv'
  <2>1. Tables(db.edit.add)' = db'.imm
    <3>1. Tables(db.edit.add)' = UNION {Table(t)' : t \in db'.edit.add} BY DEF Tables
    <3> QED BY <1>4, <1>7, <1>9, <3>1
  <2>2. Tables(db.edit.delete)' = {} BY <1>7 DEF Tables
  <2>3. \A D \in Dirs' :
            /\ D.current = db'.manifest /\ \A t \in db'.edit.add : Whole(t, D.names)'
            /\ <<"log", db'.log>> \in D.names
    BY <1>7, <1>9
  <2>4. /\ db'.work = "flush" /\ db'.imm # {}
        /\ Latest'.tables = db'.version /\ Latest'.log = db'.logNumber
    BY <1>3, <1>7, <1>9
  <2> QED BY <1>6, <1>7, <1>9, <2>1, <2>2, <2>3, <2>4 DEF WorkInv
<1>11. MergeInv'
  <2>1. \A t \in Live : TableStays(t) BY <1>2, <1>9, LiveNumbers
  <2>2. db.inputs # {} => db.inputs \subseteq db'.version /\ Produced \subseteq db'.pending
    <3>1. db.inputs # {} => MergingInv BY MergeFacts
    <3> QED BY <1>1, <1>5, <1>7, <3>1 DEF MergingInv
  <2>3. \A D \in Dirs' : \E E \in Dirs : E.current = D.current /\ E.names \subseteq D.names
    <3>1. Directory \in Dirs BY <1>2, OpenFacts
    <3> QED BY <1>9, <3>1
  <2>4. pc' # "merge" /\ pc' # "sync" /\ db'.next >= db.next BY <1>2, <1>6, <1>7 DEF Database
  <2>5. \A t \in db'.pending : t \in db.pending BY <1>7
  <2> QED BY <1>2, <1>7, <2>1, <2>2, <2>3, <2>4, <2>5, MergeKept
<1> QED BY <1>7, <1>8, <1>9, <1>10, <1>11, OpenedPhase DEF Inv

\* The record that the manifest gets.
LEMMA NewEditShape ==
    ASSUME db \in Database
    PROVE  NewEdit \in Edit /\ NewTables \subseteq db.version \cup db.edit.add
BY DEF Database, NewEdit, NewTables, Edit

LEMMA WriteManifestRecovering ==
    ASSUME Inv, WriteManifest, ~db.opened
    PROVE  Core'
<1>1. /\ pc = "apply" /\ pc' = "syncManifest"
      /\ UNCHANGED <<db, writer, pins, countVars, historyVars>>
  BY DEF WriteManifest, Alone
<1>2. Recovering BY <1>1 DEF Recovering
<1>3. /\ ~Opening /\ Readable /\ DiskType /\ DirInv /\ ImagesInv /\ AckInv
      /\ MemoryType /\ RecoveringInv /\ RunningInv /\ db \in Database
      /\ Directory \in Dirs /\ Latest \in Edit
      /\ writer = NoWrite /\ pins = {} /\ db.todo = {} /\ db.mem = {} /\ db.imm = {}
      /\ db.edit.delete = {} /\ NewTables = db.version \cup db.edit.add
  BY <1>2, RecoveringFacts
<1>4. /\ db.manifest = Latest.next /\ ~db.described /\ db.edit.log = db.log
      /\ <<"log", db.log>> \in Directory.names
  BY <1>1, <1>2, <1>3 DEF RecoveringInv
<1>5. PICK r \in Edit : r = NewEdit BY <1>3, NewEditShape
<1>6. PICK manifest \in Nat : manifest = db.manifest BY <1>3 DEF Database
<1> DEFINE name == <<"manifest", manifest>>
<1>7. /\ name \in Name /\ name # <<"log", 0>> /\ name[1] = "manifest"
      /\ <<r>> \in Seq(Content(name[1])) /\ Create(name, <<r>>) /\ Unused(name)
      /\ \A t \in Nat : name # <<"table", t>>
  <2>1. Content("manifest") = Edit BY DEF Content
  <2>2. <<r>> \in Seq(Edit) OBVIOUS
  <2>3. Unused(name) BY <1>3, <1>4, <1>6, FreeNumbers
  <2>4. Create(name, <<r>>) BY <1>4, <1>5, <1>6 DEF WriteManifest, NewEdit, NewTables
  <2>5. name \in Name BY DEF Name
  <2> QED BY <2>1, <2>2, <2>3, <2>4, <2>5
<1> HIDE DEF name
<1>8. UNCHANGED <<synced, unborn>> BY <1>1 DEF historyVars
<1>9. /\ DiskType' /\ DirInv' /\ ImagesInv' /\ View({}) /\ \A t \in Nat : TableStays(t)
  <2>1. View(IF name[1] = "log" THEN {name[2]} ELSE {}) = View({}) BY <1>7
  <2> QED BY <1>3, <1>7, <1>8, <2>1, CreateKeeps
<1>10. /\ Directory'.names = Directory.names \cup {name}
       /\ \A n \in DOMAIN files \ {name} : files'[n] = files[n]
       /\ files'[name] = [records |-> <<r>>, durable |-> 0]
  BY <1>3, <1>7, Creates
<1>11. DiskInv'
  <2>1. AckInv' BY <1>1, <1>3, <1>9, AckKept DEF historyVars, countVars
  <2> QED BY <1>9, <2>1 DEF DiskInv
<1>12. MemoryType' BY <1>1, <1>3 DEF MemoryType, Pc, countVars
<1>13. LastGiven' = LastGiven /\ LastGiven \in Nat BY <1>1, <1>3 DEF LastGiven, Database
<1>14. RunningInv'
  <2>1. /\ db'.next >= db.next /\ db'.last >= db.last /\ db'.manifest < db'.next
        /\ LastGiven' \in Nat /\ LastGiven' >= LastGiven
    BY <1>1, <1>3, <1>13 DEF RunningInv, Database
  <2>2. \A t \in db'.version \cup db'.edit.add : t \in db.version \cup db.edit.add /\ TableStays(t)
    <3>1. \A t \in db.version \cup db.edit.add : t \in Nat BY <1>3 DEF Database
    <3> QED BY <1>1, <1>9, <3>1
  <2>3. \A e \in db'.mem \cup db'.imm : e \in db.mem \cup db.imm BY <1>1
  <2> QED BY <1>1, <1>3, <1>9, <1>12, <2>1, <2>2, <2>3, RunningKept
<1>15. <<"log", db.log>> \in Directory'.names /\ files'[<<"log", db.log>>] = files[<<"log", db.log>>]
  <2>1. <<"log", db.log>> # name BY <1>7
  <2> QED BY <1>3, <1>4, <1>10, <2>1, DirectoryShape
<1>16. /\ db'.next = db'.log + 1 /\ writer' = NoWrite /\ pins' = {}
       /\ files'[<<"log", db'.log>>].records = <<>> /\ <<"log", db'.log>> \in Directory'.names
       /\ acked' \subseteq Writes(Tables(NewTables))'
       /\ NewTables' = NewTables /\ NewEdit' = NewEdit /\ Latest' = Latest
  <2>1. /\ UNCHANGED <<writer, pins, acked>> /\ ~db'.opened
        /\ \A t \in Nat : t \in NewTables => TableStays(t)
        /\ files'[<<"log", db.log>>].records = files[<<"log", db.log>>].records
        /\ db'.todo = {} /\ db'.mem = {} /\ db'.imm = {} /\ db'.edit.delete = {}
        /\ db'.log = db.log /\ db'.next = db.next /\ db'.last = db.last
        /\ db'.version = db.version /\ db'.edit = db.edit
    BY <1>1, <1>3, <1>9, <1>15 DEF historyVars
  <2> QED BY <1>2, <1>9, <1>15, <2>1, RecoveringKept
<1>17. <<"manifest", db'.manifest>> \in Directory'.names
       /\ files'[<<"manifest", db'.manifest>>].records = <<NewEdit'>>
  BY <1>1, <1>5, <1>6, <1>10, <1>16 DEF name
<1>18. RecoveringInv'
  BY <1>1, <1>3, <1>4, <1>16, <1>17 DEF RecoveringInv
<1>19. Recovering' BY <1>1 DEF Recovering
<1> QED BY <1>11, <1>12, <1>14, <1>18, <1>19, RecoveringPhase

\* What the background thread has done, when its edit is complete.
LEMMA ApplyFacts ==
    ASSUME Inv, db.opened, pc \in {"apply", "syncManifest", "install"}
    PROVE  /\ db.work \in {"flush", "merge"}
           /\ db.work = "flush" => db.edit.delete = {}
           /\ db.edit.log = IF db.work = "merge" THEN db.logNumber ELSE db.log
           /\ NewTables \subseteq db.version \cup db.edit.add
           /\ db.version \ db.edit.delete \subseteq NewTables /\ db.edit.add \subseteq NewTables
           /\ Tables(db.edit.add) \subseteq Tables(db.version) \cup db.imm
           /\ Tables(NewTables)
                = IF db.work = "flush" THEN Tables(db.version) \cup db.imm ELSE Tables(db.version)
           /\ db.logNumber <= db.edit.log /\ db.edit.log <= db.log /\ db.edit.log < db.next
           /\ Latest.log \in {db.logNumber, db.edit.log}
<1>1. /\ OpenInv /\ WorkInv /\ db \in Database BY OpenFacts
<1>2. /\ db.work \in {"flush", "merge"}
      /\ db.work = "flush" => db.edit.delete = {}
      /\ db.edit.delete \subseteq db.version /\ db.edit.add \cap db.edit.delete = {}
      /\ db.edit.log = IF db.work = "merge" THEN db.logNumber ELSE db.log
      /\ Tables(db.edit.add) = IF db.work = "merge" THEN Tables(db.edit.delete) ELSE db.imm
      /\ Latest.log \in {db.logNumber, db.edit.log}
  BY <1>1 DEF WorkInv
<1>3. /\ NewTables = (db.version \ db.edit.delete) \cup db.edit.add
      /\ NewTables \subseteq db.version \cup db.edit.add
  BY <1>2 DEF NewTables
<1>4. /\ Tables(NewTables) = Tables(db.version \ db.edit.delete) \cup Tables(db.edit.add)
      /\ Tables(db.version) = Tables(db.version \ db.edit.delete) \cup Tables(db.edit.delete)
  <2>1. db.version = (db.version \ db.edit.delete) \cup db.edit.delete BY <1>2
  <2>2. \A S, T : Tables(S \cup T) = Tables(S) \cup Tables(T) BY DEF Tables
  <2> QED BY <1>3, <2>1, <2>2
<1>5. Tables(NewTables)
            = IF db.work = "flush" THEN Tables(db.version) \cup db.imm ELSE Tables(db.version)
  <2>1. CASE db.work = "flush"
    <3>1. db.version \ db.edit.delete = db.version BY <1>2, <2>1
    <3>2. Tables(NewTables) = Tables(db.version) \cup Tables(db.edit.add) BY <1>4, <3>1
    <3> QED BY <1>2, <2>1, <3>2
  <2>2. CASE db.work = "merge" BY <1>2, <1>4, <2>2
  <2> QED BY <1>2, <2>1, <2>2
<1>6. Tables(db.edit.add) \subseteq Tables(db.version) \cup db.imm BY <1>2, <1>4
<1>7. db.logNumber <= db.edit.log /\ db.edit.log <= db.log /\ db.edit.log < db.next
  <2>1. db.logNumber <= db.log /\ db.log < db.next BY <1>1 DEF OpenInv
  <2>2. db.logNumber \in Nat /\ db.log \in Nat /\ db.next \in Nat BY <1>1 DEF Database
  <2> QED BY <1>2, <2>1, <2>2
<1> QED BY <1>2, <1>3, <1>5, <1>6, <1>7

\* The edit describes every directory that may be left.
LEMMA EditDescribes ==
    ASSUME Inv, db.opened, pc = "apply", NEW D \in Dirs
    PROVE  D.current = Directory.current /\ Describes(D, NewEdit)
<1>1. /\ OpenInv /\ WorkInv /\ RunningInv /\ db \in Database /\ DiskType /\ DirInv /\ ImagesInv
      /\ Readable /\ ~Opening /\ Directory \in Dirs /\ Directory.current # 0 /\ Latest \in Edit
  BY OpenFacts
<1>2. /\ db.work \in {"flush", "merge"}
      /\ db.edit.log = IF db.work = "merge" THEN db.logNumber ELSE db.log
      /\ NewTables \subseteq db.version \cup db.edit.add
      /\ Tables(NewTables)
            = IF db.work = "flush" THEN Tables(db.version) \cup db.imm ELSE Tables(db.version)
      /\ db.edit.log < db.next
  BY ApplyFacts
<1>3. /\ D.current = db.manifest /\ \A t \in db.edit.add : Whole(t, D.names)
      /\ db.work = "flush" => <<"log", db.log>> \in D.names
      /\ Possible(Directory) = {Latest} /\ Latest.tables = db.version /\ Latest.log = db.logNumber
  BY <1>1 DEF WorkInv
<1>4. D.current = Directory.current /\ D.current < db.next /\ D.current # 0
  BY <1>1, <1>3 DEF OpenInv, RunningInv
<1>5. Possible(D) = {Latest} BY <1>3, <1>4 DEF Possible, Edits, Manifest
<1>6. ASSUME NEW t \in NewTables
      PROVE  /\ Whole(t, D.names) /\ 0 < t /\ t < db.next
             /\ \A e \in Table(t) : e.sequence <= db.last
  <2>1. t \in db.version \cup db.edit.add BY <1>2, <1>6
  <2>2. 0 < t /\ t < db.next /\ \A e \in Table(t) : e.sequence <= db.last
    BY <1>1, <2>1 DEF RunningInv
  <2>3. CASE t \in db.edit.add BY <1>3, <2>2, <2>3
  <2>4. CASE t \in db.version
    <3>1. Whole(t, D.names) BY <1>1, <1>3, <1>4, <1>5, <2>4 DEF ImagesInv, ImageInv
    <3> QED BY <2>2, <3>1
  <2> QED BY <2>1, <2>3, <2>4
<1>7. PICK r \in Edit : r = NewEdit BY <1>1, NewEditShape
<1>8. r.log = db.edit.log /\ r.next = db.next /\ r.last = db.last /\ r.tables = NewTables
  BY <1>7 DEF NewEdit
<1>9. synced \subseteq Writes(KeptBy(D, r))
  <2>1. CASE db.work = "flush"
    <3>1. <<"log", db.log>> \in D.names /\ db.log \in Nat BY <1>1, <1>3, <2>1 DEF Database
    <3>2. db.log \in LiveLogs(D, r) BY <1>1, <1>2, <1>8, <2>1, <3>1, LiveLog
    <3>3. Tables(db.version) \cup db.imm \cup SyncedEntries(db.log) \subseteq KeptBy(D, r)
      BY <1>2, <1>8, <2>1, <3>2 DEF KeptBy
    <3>4. synced \subseteq Writes(Tables(db.version) \cup db.imm \cup SyncedEntries(db.log))
      BY <1>1 DEF OpenInv
    <3> QED BY <3>3, <3>4, WritesGrow
  <2>2. CASE db.work = "merge"
    <3>1. LiveLogs(D, r) = LiveLogs(D, Latest) BY <1>2, <1>3, <1>8, <2>2 DEF LiveLogs
    <3>2. Tables(r.tables) = Tables(Latest.tables) BY <1>2, <1>3, <1>8, <2>2
    <3>3. KeptBy(D, r) = KeptBy(D, Latest) BY <3>1, <3>2 DEF KeptBy
    <3>4. synced \subseteq Writes(KeptBy(D, Latest)) BY <1>1, <1>4, <1>5 DEF ImagesInv, SyncedInv
    <3> QED BY <3>3, <3>4
  <2> QED BY <1>2, <2>1, <2>2
<1>10. Describes(D, r) BY <1>2, <1>4, <1>6, <1>8, <1>9 DEF Describes
<1> QED BY <1>4, <1>7, <1>10

\* Nothing that the database holds in memory is lost with the edit.
LEMMA EditHolds ==
    ASSUME Inv, db.opened, pc = "apply"
    PROVE  /\ Contents \cup Tables(db.edit.add) \subseteq Held(Directory, NewEdit)
           /\ Tables(NewTables) \subseteq Held(Directory, Latest)
           /\ LiveLogs(Directory, NewEdit) \subseteq LiveLogs(Directory, Latest)
           /\ \A n \in LiveLogs(Directory, Latest) : n < db.edit.log =>
                n < db.next /\ \A e \in LogEntries(n) : e.sequence <= db.last
<1>1. /\ OpenInv /\ WorkInv /\ RunningInv /\ db \in Database /\ DiskType
      /\ Readable /\ ~Opening /\ Directory \in Dirs /\ Latest \in Edit /\ db.todo = {}
      /\ <<"log", db.log>> \in Directory.names
  BY OpenFacts DEF OpenInv
<1>2. /\ db.work \in {"flush", "merge"}
      /\ db.edit.log = IF db.work = "merge" THEN db.logNumber ELSE db.log
      /\ NewTables \subseteq db.version \cup db.edit.add
      /\ Tables(NewTables)
            = IF db.work = "flush" THEN Tables(db.version) \cup db.imm ELSE Tables(db.version)
      /\ db.edit.log <= db.log /\ db.logNumber <= db.edit.log
      /\ Tables(db.edit.add) \subseteq Tables(db.version) \cup db.imm
  BY <1>1, ApplyFacts, NewEditShape
<1>3. Latest.tables = db.version /\ Latest.log = db.logNumber BY <1>1 DEF WorkInv
<1>4. Contents \cup Tables(db.edit.add) \subseteq Held(Directory, Latest)
  BY <1>1 DEF RunningInv
<1>5. Tables(NewTables) \subseteq Held(Directory, Latest)
  <2>1. Contents = db.mem \cup db.imm \cup Tables(db.version) BY DEF Contents, Tables
  <2> QED BY <1>2, <1>4, <2>1
<1>6. PICK r \in Edit : r = NewEdit BY <1>1, NewEditShape
<1>7. r.log = db.edit.log /\ r.tables = NewTables BY <1>6 DEF NewEdit
<1>8. /\ db.log \in Nat /\ db.edit.log \in Nat /\ db.logNumber \in Nat BY <1>1 DEF Database
<1>9. db.log \in LiveLogs(Directory, r) BY <1>1, <1>2, <1>7, <1>8, LiveLog
<1>10. LiveLogs(Directory, r) \subseteq LiveLogs(Directory, Latest)
  <2> SUFFICES ASSUME NEW n \in LiveLogs(Directory, r)
               PROVE  n \in LiveLogs(Directory, Latest)
    OBVIOUS
  <2>1. n \in Nat /\ <<"log", n>> \in Directory.names /\ r.log <= n BY <1>1, LiveLog
  <2>2. Latest.log <= n BY <1>2, <1>3, <1>7, <1>8, <2>1
  <2> QED BY <1>1, <2>1, <2>2, LiveLog
<1>11. Contents \cup Tables(db.edit.add) \subseteq Held(Directory, r)
  <2>1. Contents = db.mem \cup db.imm \cup Tables(db.version) BY DEF Contents, Tables
  <2>3. CASE db.work = "flush"
    <3>1. db.mem \subseteq LogEntries(db.log) BY <1>1 DEF OpenInv
    <3>2. LogEntries(db.log) \subseteq Held(Directory, r) BY <1>9 DEF Held
    <3>3. Tables(db.version) \cup db.imm \subseteq Held(Directory, r) BY <1>2, <1>7, <2>3 DEF Held
    <3> QED BY <1>2, <2>1, <3>1, <3>2, <3>3
  <2>4. CASE db.work = "merge"
    <3>1. LiveLogs(Directory, r) = LiveLogs(Directory, Latest)
      BY <1>2, <1>3, <1>7, <2>4 DEF LiveLogs
    <3>2. Tables(r.tables) = Tables(Latest.tables) BY <1>2, <1>3, <1>7, <2>4
    <3>3. Held(Directory, r) = Held(Directory, Latest) BY <3>1, <3>2 DEF Held
    <3> QED BY <1>4, <3>3
  <2> QED BY <1>2, <2>3, <2>4
<1>12. ASSUME NEW n \in LiveLogs(Directory, Latest), n < db.edit.log
       PROVE  n < db.next /\ \A e \in LogEntries(n) : e.sequence <= db.last
  <2>1. n \in Nat BY <1>1, <1>12, LogShape
  <2>2. n # db.log BY <1>2, <1>8, <1>12, <2>1
  <2> QED BY <1>1, <2>2 DEF OpenInv, RunningInv
<1> QED BY <1>5, <1>6, <1>10, <1>11, <1>12

LEMMA WriteManifestOpen ==
    ASSUME Inv, WriteManifest, db.opened
    PROVE  Inv'
<1>1. /\ pc = "apply" /\ pc' = "syncManifest"
      /\ UNCHANGED <<db, writer, pins, countVars, historyVars>>
  BY DEF WriteManifest, Alone
<1>2. /\ Readable /\ DiskType /\ DirInv /\ ImagesInv /\ AckInv /\ db \in Database /\ MemoryType
      /\ OpenInv /\ WorkInv /\ RunningInv /\ Latest \in Edit /\ Directory.current # 0
      /\ Directory \in Dirs /\ db.todo = {} /\ db.described /\ ~Opening
      /\ db.log \in LiveLogs(Directory, Latest)
  BY OpenFacts
<1>3. PICK r \in Edit : r = NewEdit BY <1>2, NewEditShape
<1>4. /\ r.log = db.edit.log /\ r.next = db.next /\ r.last = db.last /\ r.tables = NewTables
  BY <1>3 DEF NewEdit
<1>5. /\ Contents \cup Tables(db.edit.add) \subseteq Held(Directory, r)
      /\ Tables(r.tables) \subseteq Held(Directory, Latest)
      /\ LiveLogs(Directory, r) \subseteq LiveLogs(Directory, Latest)
      /\ \A n \in LiveLogs(Directory, Latest) : n < r.log =>
                n < r.next /\ \A e \in LogEntries(n) : e.sequence <= r.last
  BY <1>1, <1>3, <1>4, EditHolds
<1>6. \A D \in Dirs : D.current = Directory.current /\ Describes(D, r)
  BY <1>1, <1>3, EditDescribes
<1>7. /\ Possible(Directory) = {Latest} /\ Latest.log = db.logNumber /\ Latest.tables = db.version
  BY <1>1, <1>2 DEF WorkInv
<1>8. /\ Latest.next <= r.next /\ Latest.last <= r.last /\ Latest.log <= r.log /\ r.log <= db.log
  BY <1>1, <1>2, <1>4, <1>7, ApplyFacts DEF RunningInv
<1>9. AppendTo(Manifest(Directory), r) /\ UNCHANGED <<directories, synced, unborn>>
  <2>1. Directory.current = db.manifest BY <1>2 DEF OpenInv
  <2> QED BY <1>1, <1>2, <1>3, <2>1 DEF WriteManifest, Manifest, NewEdit, NewTables, historyVars
<1>10. /\ DiskType' /\ DirInv' /\ ImagesInv' /\ Directory' = Directory /\ Dirs' = Dirs
       /\ Readable' /\ Latest' = r /\ Possible(Directory)' = {Latest, r}
       /\ \A n \in Nat : <<"log", n>> \in Directory.names =>
            LogEntries(n)' = LogEntries(n) /\ SyncedEntries(n)' = SyncedEntries(n)
       /\ \A t \in Nat : TableStays(t)
  BY <1>2, <1>5, <1>6, <1>7, <1>8, <1>9, ManifestGrows
<1>11. LiveLogs(Directory, Latest)' = LiveLogs(Directory, r)
  BY <1>10 DEF LiveLogs
<1>12. \A n \in LiveLogs(Directory, r) :
            /\ n \in LiveLogs(Directory, Latest) /\ n \in Nat /\ <<"log", n>> \in Directory.names
            /\ LogEntries(n)' = LogEntries(n)
  BY <1>2, <1>5, <1>10, LogShape
<1>13. \A t \in db.version \cup db.edit.add :
            t \in Nat /\ Table(t)' = Table(t) /\ Whole(t, Directory.names)'
  BY <1>2, <1>10 DEF RunningInv, Whole, TableStays, Database
<1>14. /\ Tables(db.version)' = Tables(db.version) /\ Tables(db.edit.add)' = Tables(db.edit.add)
       /\ Tables(NewTables)' = Tables(NewTables) /\ NewTables' = NewTables
  <2>1. NewTables \subseteq db.version \cup db.edit.add BY <1>2, NewEditShape
  <2>2. NewTables' = NewTables BY <1>1 DEF NewTables
  <2> QED BY <1>1, <1>13, <2>1, <2>2 DEF Tables
<1>15. Contents' = Contents BY <1>1, <1>14 DEF Contents, Tables
<1>16. Held(Directory, Latest)' = Held(Directory, r)
  <2>1. Held(Directory, Latest)'
            = Tables(Latest.tables)' \cup UNION {LogEntries(n)' : n \in LiveLogs(Directory, Latest)'}
    BY DEF Held
  <2>2. Tables(Latest.tables)' = Tables(NewTables)' BY <1>4, <1>10, <1>14 DEF Tables
  <2> QED BY <1>4, <1>11, <1>12, <1>14, <2>1, <2>2 DEF Held
<1>17. acked' \subseteq Writes(Contents)'
  <2>1. Writes(Contents)' = Writes(Contents) BY <1>15 DEF Writes
  <2> QED BY <1>1, <1>2, <2>1 DEF OpenInv, historyVars
<1>18. AckInv'
  <2>1. acked \subseteq Writes(Contents) BY <1>2 DEF OpenInv
  <2>2. Writes(Contents) \subseteq Writes(Held(Directory, r)) BY <1>5, WritesGrow
  <2>3. Writes(Held(Directory, Latest))' = Writes(Held(Directory, r)) BY <1>16 DEF Writes
  <2> QED BY <1>1, <1>2, <1>10, <2>1, <2>2, <2>3 DEF AckInv, historyVars, countVars
<1>19. MemoryType' BY <1>1, <1>2 DEF MemoryType, Pc, countVars
<1>20. RunningInv'
  <2>1. LastGiven' = LastGiven BY <1>1 DEF LastGiven
  <2>2. /\ (Latest.next)' <= db'.next /\ (Latest.last)' <= db'.last /\ db'.manifest < db'.next
    BY <1>1, <1>2, <1>4, <1>10 DEF RunningInv, Database
  <2>3. \A t \in db'.version \cup db'.edit.add :
            /\ Whole(t, Directory.names)' /\ 0 < t /\ t < db'.next
            /\ \A e \in Table(t)' : e.sequence <= db'.last
    BY <1>1, <1>2, <1>13 DEF RunningInv
  <2>4. \A e \in db'.mem \cup db'.imm : e.sequence <= db'.last BY <1>1, <1>2 DEF RunningInv
  <2>5. (Contents \cup Tables(db.edit.add))' \subseteq Held(Directory, Latest)'
    BY <1>5, <1>14, <1>15, <1>16
  <2>6. \A n \in LiveLogs(Directory, Latest)' \ db'.todo :
            n < db'.next /\ \A e \in LogEntries(n)' : e.sequence <= LastGiven'
    BY <1>1, <1>2, <1>11, <1>12, <2>1 DEF RunningInv
  <2> QED BY <1>10, <2>2, <2>3, <2>4, <2>5, <2>6 DEF RunningInv
<1>21. OpenInv'
  <2>1. \A r1 \in Possible(Directory)' : r1.log <= db'.log
    BY <1>1, <1>2, <1>7, <1>8, <1>10 DEF OpenInv
  <2>2. <<"log", db.log>> \in Directory.names /\ db.log \in Nat BY <1>2 DEF OpenInv, Database
  <2>3. LogEntries(db.log)' = LogEntries(db.log) /\ SyncedEntries(db.log)' = SyncedEntries(db.log)
    <3>1. PICK log \in Nat : log = db.log BY <2>2
    <3>2. LogEntries(log)' = LogEntries(log) /\ SyncedEntries(log)' = SyncedEntries(log)
      BY <1>10, <2>2, <3>1
    <3>3. LogEntries(db.log)' = LogEntries(log)' /\ SyncedEntries(db.log)' = SyncedEntries(log)'
      BY <1>1, <3>1 DEF LogEntries, SyncedEntries
    <3> QED BY <3>1, <3>2, <3>3
  <2>4. synced' \subseteq Writes(Tables(db.version) \cup db.imm \cup SyncedEntries(db.log))'
    <3>1. Writes(Tables(db.version) \cup db.imm \cup SyncedEntries(db.log))'
            = Writes(Tables(db.version) \cup db.imm \cup SyncedEntries(db.log))
      BY <1>1, <1>14, <2>3 DEF Writes
    <3> QED BY <1>1, <1>2, <3>1 DEF OpenInv, historyVars
  <2>5. \A t \in Pinned' : /\ <<"table", t>> \in Directory'.names /\ Table(t)' # {}
                           /\ 0 < t /\ t < db'.next
    <3>1. Pinned' = Pinned BY <1>1 DEF Pinned
    <3>2. \A p \in pins : p[2] \subseteq Nat BY <1>2 DEF MemoryType
    <3>3. \A t \in Pinned : t \in Nat BY <3>2 DEF Pinned
    <3> QED BY <1>1, <1>2, <1>10, <3>1, <3>3 DEF OpenInv, TableStays
  <2>6. /\ \A n \in LiveLogs(Directory, Latest)' : n <= db'.log
        /\ \A n \in LiveLogs(Directory, Latest)' \ {db'.log} :
                \A e \in LogEntries(n)' : e.sequence <= db'.last
    BY <1>1, <1>2, <1>11, <1>12 DEF OpenInv
  <2>7. /\ db'.mem \subseteq LogEntries(db.log)'
        /\ IF writer' = NoWrite THEN LogEntries(db.log)' \subseteq db'.mem
           ELSE /\ LogEntries(db.log)' \subseteq db'.mem \cup {writer'.entry}
                /\ writer'.entry \in LogEntries(db.log)'
                /\ writer'.entry.sequence = db'.last + 1 /\ writer'.entry.write <= calls'
    BY <1>1, <1>2, <2>3 DEF OpenInv, countVars
  <2>8. /\ db'.described /\ Directory'.current = db'.manifest /\ db'.todo = {}
        /\ <<"log", db'.log>> \in Directory'.names /\ db'.log < db'.next
        /\ db'.logNumber <= db'.log
    BY <1>1, <1>2, <1>10 DEF OpenInv
  <2> QED BY <1>1, <1>17, <2>1, <2>4, <2>5, <2>6, <2>7, <2>8 DEF OpenInv
<1>22. WorkInv'
  <2>1. Tables(db.edit.delete)' = Tables(db.edit.delete)
    <3>1. db.edit.delete \subseteq db.version BY <1>1, <1>2 DEF WorkInv
    <3> QED BY <1>1, <1>13, <3>1 DEF Tables
  <2>2. (Latest.tables)' = NewTables' /\ (Latest.log)' = db'.edit.log
    BY <1>1, <1>4, <1>10, <1>14
  <2> QED BY <1>1, <1>2, <1>14, <2>1, <2>2 DEF WorkInv
<1>23. MergeInv'
  <2>1. db'.next >= db.next BY <1>1, <1>2 DEF Database
  <2> QED BY <1>1, <1>2, <1>10, <2>1, MergeStill
<1> QED BY <1>1, <1>2, <1>10, <1>18, <1>19, <1>20, <1>21, <1>22, <1>23, OpenedPhase
       DEF DiskInv, Inv

\* The manifest is on the disk.
LEMMA SyncManifestDisk ==
    ASSUME Inv, SyncManifest, <<"manifest", db.manifest>> \in Directory.names
    PROVE  /\ DiskInv' /\ MemoryType' /\ RunningInv' /\ View({}) /\ ~Opening
           /\ Directory' = Directory /\ Dirs' = {Directory} /\ \A t \in Nat : TableStays(t)
           /\ files'[<<"manifest", db.manifest>>].records = files[<<"manifest", db.manifest>>].records
           /\ files'[<<"manifest", db.manifest>>].durable
                = Len(files'[<<"manifest", db.manifest>>].records)
           /\ \A n \in Nat : <<"log", n>> \in Directory.names =>
                files'[<<"log", n>>] = files[<<"log", n>>]
           /\ db'.opened = db.opened /\ db'.described = TRUE /\ db'.next = db.next
           /\ db'.log = db.log /\ db'.logNumber = db.logNumber /\ db'.manifest = db.manifest
           /\ db'.last = db.last /\ db'.version = db.version /\ db'.imm = db.imm
           /\ db'.mem = db.mem /\ db'.todo = db.todo /\ db'.work = db.work
           /\ db'.output = db.output /\ db'.edit = db.edit /\ db' \in Database
           /\ db'.pending = db.pending /\ db'.inputs = db.inputs /\ db'.left = db.left
           /\ db'.outputs = db.outputs /\ db'.builder = db.builder
<1>1. /\ pc = "syncManifest" /\ Sync(files, <<"manifest", db.manifest>>, Directory)
      /\ db' = [db EXCEPT !.described = TRUE]
      /\ pc' = IF db.described THEN "install" ELSE "current"
      /\ UNCHANGED <<writer, pins, countVars, historyVars>>
  BY DEF SyncManifest, Alone
<1>2. ~Opening BY <1>1 DEF Opening
<1>3. /\ Readable /\ DiskType /\ DirInv /\ ImagesInv /\ AckInv /\ MemoryType /\ RunningInv
      /\ db \in Database /\ Directory \in Dirs /\ Directory.current # 0
  BY <1>2, Given DEF Inv, Core, DiskInv
<1>4. PICK name : name = <<"manifest", db.manifest>> OBVIOUS
<1>5. name \in Directory.names /\ name[1] = "manifest" /\ \A n \in Nat : <<"log", n>> # name
  BY <1>4
<1>6. UNCHANGED <<synced, unborn>> BY <1>1 DEF historyVars
<1>7. /\ DiskType' /\ DirInv' /\ ImageInv' /\ UniqueInv' /\ LatestInv' /\ SyncedInv'
      /\ View({}) /\ Directory' = Directory /\ Dirs' = {Directory}
      /\ \A t \in Nat : TableStays(t)
      /\ \A n \in Directory.names : n[1] # "temp" =>
            /\ n \in DOMAIN files' /\ files'[n].records = files[n].records
            /\ n # name => files'[n] = files[n]
      /\ files'[name].durable = Len(files'[name].records)
  BY <1>1, <1>3, <1>4, <1>5, <1>6, SyncOnlyKeeps
<1>8. DiskInv'
  <2>1. AckInv' BY <1>1, <1>3, <1>7, AckKept DEF historyVars, countVars
  <2> QED BY <1>7, <2>1 DEF DiskInv, ImagesInv
<1>9. /\ db' \in Database
      /\ db'.opened = db.opened /\ db'.described = TRUE /\ db'.next = db.next
      /\ db'.log = db.log /\ db'.logNumber = db.logNumber /\ db'.manifest = db.manifest
      /\ db'.last = db.last /\ db'.version = db.version /\ db'.imm = db.imm
      /\ db'.mem = db.mem /\ db'.todo = db.todo /\ db'.work = db.work
      /\ db'.output = db.output /\ db'.edit = db.edit
      /\ db'.pending = db.pending /\ db'.inputs = db.inputs /\ db'.left = db.left
      /\ db'.outputs = db.outputs /\ db'.builder = db.builder
  <2>1. db \in Database BY <1>3
  <2> QED BY <1>1, <2>1 DEF Database
<1>10. MemoryType' BY <1>1, <1>3, <1>9 DEF MemoryType, Pc, countVars
<1>11. LastGiven' = LastGiven BY <1>1, <1>9 DEF LastGiven
<1>12. RunningInv'
  <2>1. LastGiven \in Nat BY <1>3 DEF LastGiven, MemoryType, Entry, Database
  <2>2. /\ db'.next >= db.next /\ db'.last >= db.last /\ db'.manifest < db'.next
        /\ LastGiven' \in Nat /\ LastGiven' >= LastGiven
    BY <1>2, <1>3, <1>9, <1>11, <2>1 DEF RunningInv, Database
  <2>3. \A t \in db'.version \cup db'.edit.add : t \in db.version \cup db.edit.add /\ TableStays(t)
    <3>1. \A t \in db.version \cup db.edit.add : t \in Nat BY <1>3 DEF Database
    <3> QED BY <1>7, <1>9, <3>1
  <2>4. \A e \in db'.mem \cup db'.imm : e \in db.mem \cup db.imm BY <1>9
  <2> QED BY <1>2, <1>7, <1>9, <1>10, <2>2, <2>3, <2>4, RunningKept
<1>13. \A n \in Nat : <<"log", n>> \in Directory.names => files'[<<"log", n>>] = files[<<"log", n>>]
  <2> SUFFICES ASSUME NEW n \in Nat, <<"log", n>> \in Directory.names
               PROVE  files'[<<"log", n>>] = files[<<"log", n>>]
    OBVIOUS
  <2>1. <<"log", n>>[1] # "temp" /\ <<"log", n>> # name BY <1>5
  <2> QED BY <1>7, <2>1
<1>14. files'[name].records = files[name].records
  <2>1. name[1] # "temp" BY <1>5
  <2> QED BY <1>5, <1>7, <2>1
<1> QED BY <1>2, <1>4, <1>7, <1>8, <1>9, <1>10, <1>12, <1>13, <1>14

LEMMA SyncManifestRecovering ==
    ASSUME Inv, SyncManifest, ~db.opened
    PROVE  Core'
<1>1. pc = "syncManifest" /\ UNCHANGED <<writer, pins, countVars, historyVars>>
  BY DEF SyncManifest, Alone
<1>2. Recovering BY <1>1 DEF Recovering
<1>3. /\ ~Opening /\ Readable /\ DiskType /\ RecoveringInv /\ db \in Database
      /\ Directory \in Dirs
      /\ writer = NoWrite /\ pins = {} /\ db.todo = {} /\ db.mem = {} /\ db.imm = {}
      /\ db.edit.delete = {}
  BY <1>2, RecoveringFacts
<1>4. /\ db.manifest = Latest.next /\ ~db.described /\ db.edit.log = db.log
      /\ <<"log", db.log>> \in Directory.names
      /\ <<"manifest", db.manifest>> \in Directory.names
      /\ files[<<"manifest", db.manifest>>].records = <<NewEdit>>
  BY <1>1, <1>2, <1>3 DEF RecoveringInv
<1>5. pc' = "current" BY <1>4 DEF SyncManifest
<1>6. /\ DiskInv' /\ MemoryType' /\ RunningInv' /\ View({})
      /\ Directory' = Directory /\ \A t \in Nat : TableStays(t)
      /\ files'[<<"manifest", db.manifest>>].records = files[<<"manifest", db.manifest>>].records
      /\ files'[<<"manifest", db.manifest>>].durable
            = Len(files'[<<"manifest", db.manifest>>].records)
      /\ \A n \in Nat : <<"log", n>> \in Directory.names =>
            files'[<<"log", n>>] = files[<<"log", n>>]
      /\ db'.opened = db.opened /\ db'.described = TRUE /\ db'.next = db.next
      /\ db'.log = db.log /\ db'.logNumber = db.logNumber /\ db'.manifest = db.manifest
      /\ db'.last = db.last /\ db'.version = db.version /\ db'.imm = db.imm
      /\ db'.mem = db.mem /\ db'.todo = db.todo /\ db'.edit = db.edit
  BY <1>4, SyncManifestDisk
<1>7. files'[<<"log", db.log>>].records = files[<<"log", db.log>>].records
  <2>1. db.log \in Nat BY <1>3 DEF Database
  <2> QED BY <1>4, <1>6, <2>1
<1>8. /\ db'.next = db'.log + 1 /\ writer' = NoWrite /\ pins' = {}
      /\ files'[<<"log", db'.log>>].records = <<>> /\ <<"log", db'.log>> \in Directory'.names
      /\ acked' \subseteq Writes(Tables(NewTables))'
      /\ NewTables' = NewTables /\ NewEdit' = NewEdit /\ Latest' = Latest
  <2>1. /\ UNCHANGED <<writer, pins, acked>> /\ ~db'.opened
        /\ \A t \in Nat : t \in NewTables => TableStays(t)
        /\ <<"log", db.log>> \in Directory'.names
        /\ db'.todo = {} /\ db'.mem = {} /\ db'.imm = {} /\ db'.edit.delete = {}
        /\ db'.log = db.log /\ db'.next = db.next /\ db'.last = db.last
        /\ db'.version = db.version /\ db'.edit = db.edit
    BY <1>1, <1>3, <1>4, <1>6 DEF historyVars
  <2> QED BY <1>2, <1>6, <1>7, <2>1, RecoveringKept
<1>9. /\ <<"manifest", db'.manifest>> \in Directory'.names
      /\ files'[<<"manifest", db'.manifest>>].records = <<NewEdit'>>
      /\ files'[<<"manifest", db'.manifest>>].durable = 1
  <2>1. Len(<<NewEdit>>) = 1 OBVIOUS
  <2> QED BY <1>4, <1>6, <1>8, <2>1
<1>10. RecoveringInv'
  BY <1>3, <1>4, <1>5, <1>6, <1>8, <1>9 DEF RecoveringInv
<1>11. Recovering' BY <1>5, <1>6 DEF Recovering
<1> QED BY <1>6, <1>10, <1>11, RecoveringPhase

LEMMA SyncManifestOpen ==
    ASSUME Inv, SyncManifest, db.opened
    PROVE  Inv'
<1>1. pc = "syncManifest" /\ UNCHANGED <<writer, pins, countVars, historyVars>>
  BY DEF SyncManifest, Alone
<1>2. /\ Readable /\ DiskType /\ DirInv /\ db \in Database /\ MemoryType /\ OpenInv /\ WorkInv
      /\ RunningInv /\ Directory \in Dirs /\ db.todo = {} /\ db.described /\ ~Opening
      /\ Directory.current # 0 /\ Directory.current = db.manifest
      /\ <<"log", db.log>> \in Directory.names
  BY OpenFacts DEF OpenInv
<1>3. <<"manifest", db.manifest>> \in Directory.names BY <1>2, ManifestShape DEF Manifest
<1>4. pc' = "install" BY <1>2 DEF SyncManifest
<1>5. /\ DiskInv' /\ MemoryType' /\ RunningInv' /\ View({})
      /\ Directory' = Directory /\ \A t \in Nat : TableStays(t)
      /\ files'[<<"manifest", db.manifest>>].durable
            = Len(files'[<<"manifest", db.manifest>>].records)
      /\ \A n \in Nat : <<"log", n>> \in Directory.names =>
            files'[<<"log", n>>] = files[<<"log", n>>]
      /\ db'.opened = db.opened /\ db'.described = TRUE /\ db'.next = db.next
      /\ db'.log = db.log /\ db'.logNumber = db.logNumber /\ db'.manifest = db.manifest
      /\ db'.last = db.last /\ db'.version = db.version /\ db'.imm = db.imm
      /\ db'.mem = db.mem /\ db'.todo = db.todo /\ db'.work = db.work
      /\ db'.output = db.output /\ db'.edit = db.edit
  BY <1>3, SyncManifestDisk
<1>6. \A t \in db.version \cup db.edit.add : t \in Nat /\ Table(t)' = Table(t)
  BY <1>2, <1>5 DEF RunningInv, Whole, TableStays, Database
<1>7. Tables(db.version)' = Tables(db.version) BY <1>5, <1>6 DEF Tables
<1>8. OpenInv'
  <2>1. Contents' = Contents BY <1>5, <1>7 DEF Contents, Tables
  <2>2. files'[<<"log", db.log>>] = files[<<"log", db.log>>]
    <3>1. db.log \in Nat BY <1>2 DEF Database
    <3> QED BY <1>2, <1>5, <3>1
  <2>3. SyncedEntries(db.log)' = SyncedEntries(db.log) BY <1>5, <2>2 DEF SyncedEntries
  <2>4. \A t \in Pinned' : (t \in Pinned \/ t \in db.version) /\ TableStays(t)
    <3>1. Pinned' = Pinned BY <1>1 DEF Pinned
    <3>2. \A p \in pins : p[2] \subseteq Nat BY <1>2 DEF MemoryType
    <3>3. \A t \in Pinned : t \in Nat BY <3>2 DEF Pinned
    <3> QED BY <1>5, <3>1, <3>3
  <2>5. db'.next \in Nat /\ db'.next >= db.next BY <1>2, <1>5 DEF Database
  <2>6. db'.opened /\ db'.described /\ db'.todo = {} BY <1>2, <1>5
  <2>7. UNCHANGED <<writer, calls, acked, synced>> BY <1>1 DEF countVars, historyVars
  <2>8. /\ db'.manifest = db.manifest /\ db'.log = db.log /\ db'.mem = db.mem /\ db'.last = db.last
        /\ db'.logNumber <= db.log /\ db'.imm = db.imm
    BY <1>2, <1>5 DEF OpenInv
  <2>9. Tables(db.version) \cup db.imm \subseteq (Tables(db.version) \cup db.imm)' BY <1>7, <2>8
  <2>10. <<"log", db.log>> \in Directory'.names /\ View({}) BY <1>2, <1>5
  <2> QED BY <1>4, <2>1, <2>3, <2>4, <2>5, <2>6, <2>7, <2>8, <2>9, <2>10, OpenKept
<1>9. Possible(Directory)' = {Latest'} /\ Latest' = Latest
  <2>1. Latest' = Latest /\ Readable' BY <1>2, <1>5 DEF View
  <2>2. Latest' \in Possible(Directory)' BY <1>5, <2>1, LatestNext DEF DiskInv
  <2>3. files'[Manifest(Directory)'].durable = Len(Edits(Directory)') /\ Len(Edits(Directory)') \in Nat
    <3>1. Manifest(Directory)' = <<"manifest", db.manifest>> BY <1>2, <1>5 DEF Manifest
    <3>2. Edits(Directory)' = files'[<<"manifest", db.manifest>>].records
      BY <3>1 DEF Edits
    <3>3. Directory \in Dirs /\ Directory.current # 0 => Len(Edits(Directory)) \in Nat
      BY <1>2, ManifestShape
    <3>4. files'[<<"manifest", db.manifest>>].records = files[<<"manifest", db.manifest>>].records
      BY <1>3, SyncManifestDisk
    <3>5. Edits(Directory)' = Edits(Directory) BY <1>2, <3>2, <3>4 DEF Edits, Manifest
    <3> QED BY <1>2, <1>5, <3>1, <3>2, <3>3, <3>5
  <2>4. \A r \in Possible(Directory)' : r = Latest'
    <3>1. PICK edits, d : edits = Edits(Directory)' /\ d = files'[Manifest(Directory)'].durable OBVIOUS
    <3>2. Possible(Directory)' = {edits[p] : p \in {p \in 1 .. Len(edits) : d <= p}}
      BY <3>1 DEF Possible
    <3>3. d = Len(edits) /\ Len(edits) \in Nat BY <2>3, <3>1
    <3>4. Latest' = edits[Len(edits)] BY <3>1 DEF Latest
    <3> QED BY <3>2, <3>3, <3>4
  <2> QED BY <2>1, <2>2, <2>4
<1>10. WorkInv'
  <2>1. Tables(db.edit.add)' = Tables(db.edit.add) /\ Tables(db.edit.delete)' = Tables(db.edit.delete)
    <3>1. db.edit.delete \subseteq db.version BY <1>1, <1>2 DEF WorkInv
    <3> QED BY <1>5, <1>6, <3>1 DEF Tables
  <2>2. NewTables' = NewTables BY <1>5 DEF NewTables
  <2> QED BY <1>1, <1>2, <1>4, <1>5, <1>9, <2>1, <2>2 DEF WorkInv
<1>11. db'.opened BY <1>5
<1>12. MergeInv'
  <2>1. /\ db'.pending = db.pending /\ db'.inputs = db.inputs /\ db'.left = db.left
        /\ db'.outputs = db.outputs /\ db'.builder = db.builder
        /\ db' \in Database /\ Dirs' = {Directory}
    BY <1>3, SyncManifestDisk
  <2>2. db'.next >= db.next BY <1>2, <1>5 DEF Database
  <2>3. \A D \in Dirs' : \E E \in Dirs : E.current = D.current /\ E.names \subseteq D.names
    BY <1>2, <2>1
  <2> QED BY <1>2, <1>4, <1>5, <2>1, <2>2, <2>3, MergeStill
<1> QED BY <1>5, <1>8, <1>10, <1>11, <1>12, OpenedPhase DEF Inv

\* What Install does to the memory.
LEMMA InstallFields ==
    ASSUME db \in Database, Install
    PROVE  /\ db' \in Database
           /\ db'.version = NewTables /\ db'.logNumber = db.edit.log /\ db'.edit = NoEdit
           /\ db'.imm = (IF db.work = "flush" THEN {} ELSE db.imm)
           /\ db'.opened = db.opened /\ db'.described = db.described /\ db'.next = db.next
           /\ db'.log = db.log /\ db'.manifest = db.manifest /\ db'.last = db.last
           /\ db'.mem = db.mem /\ db'.todo = db.todo
           /\ db'.pending = (IF db.work = "merge" THEN {} ELSE db.pending)
           /\ db'.inputs = (IF db.work = "merge" THEN {} ELSE db.inputs)
           /\ db'.left = db.left /\ db'.outputs = db.outputs /\ db'.builder = db.builder
<1> DEFINE installed == [db EXCEPT !.version = (@ \cup db.edit.add) \ db.edit.delete,
                                   !.logNumber = db.edit.log, !.edit = NoEdit]
<1>1. db' = CASE db.work = "flush" -> [installed EXCEPT !.imm = {}]
              [] db.work = "merge" -> [installed EXCEPT !.pending = {}, !.inputs = {}]
              [] db.work = "replay" -> installed
  BY DEF Install
<1>2. PICK tables \in SUBSET Nat : tables = NewTables BY DEF Database, NewTables
<1>3. PICK log \in Nat : log = db.edit.log BY DEF Database
<1>4. installed = [db EXCEPT !.version = tables, !.logNumber = log, !.edit = NoEdit]
  BY <1>2, <1>3 DEF NewTables, Database
<1>5. NoEdit \in [add : SUBSET Nat, delete : SUBSET Nat, log : Nat] BY DEF NoEdit
<1>6. /\ installed \in Database
      /\ installed.version = tables /\ installed.logNumber = log /\ installed.edit = NoEdit
      /\ installed.imm = db.imm /\ installed.pending = db.pending
      /\ installed.inputs = db.inputs /\ installed.left = db.left
      /\ installed.outputs = db.outputs /\ installed.builder = db.builder
      /\ installed.opened = db.opened /\ installed.described = db.described
      /\ installed.next = db.next /\ installed.log = db.log /\ installed.manifest = db.manifest
      /\ installed.last = db.last /\ installed.mem = db.mem /\ installed.todo = db.todo
  BY <1>4, <1>5 DEF Database
<1> HIDE DEF installed
<1>7. CASE db.work = "flush"
  <2>1. db' = [installed EXCEPT !.imm = {}] BY <1>1, <1>7
  <2> QED BY <1>2, <1>3, <1>6, <1>7, <2>1 DEF Database
<1>8. CASE db.work = "merge"
  <2>1. db' = [installed EXCEPT !.pending = {}, !.inputs = {}] BY <1>1, <1>8
  <2> QED BY <1>2, <1>3, <1>6, <1>8, <2>1 DEF Database
<1>9. CASE db.work = "replay"
  <2>1. db' = installed BY <1>1, <1>9
  <2> QED BY <1>2, <1>3, <1>6, <1>9, <2>1
<1> QED BY <1>7, <1>8, <1>9 DEF Database

\* The version that the manifest tells of becomes the current one.
LEMMA InstallMemory ==
    ASSUME Inv, Install, db.opened \/ Recovering
    PROVE  /\ DiskInv' /\ MemoryType' /\ RunningInv' /\ View({}) /\ ~Opening
           /\ Readable' /\ Latest' = Latest /\ Directory' = Directory /\ Dirs' = Dirs
           /\ Possible(Directory)' = Possible(Directory)
           /\ UNCHANGED <<files, directories>>
           /\ db'.version = NewTables /\ db'.logNumber = db.edit.log /\ db'.edit = NoEdit
           /\ db'.imm = (IF db.work = "flush" THEN {} ELSE db.imm)
           /\ db'.opened = db.opened /\ db'.described = db.described /\ db'.next = db.next
           /\ db'.log = db.log /\ db'.manifest = db.manifest /\ db'.last = db.last
           /\ db'.mem = db.mem /\ db'.todo = db.todo
<1>1. /\ pc = "install" /\ pc' = "clean"
      /\ UNCHANGED <<diskVars, writer, pins, countVars, historyVars>>
  BY DEF Install, Alone
<1>2. ~Opening BY <1>1 DEF Opening
<1>3. /\ Readable /\ DiskType /\ DirInv /\ ImagesInv /\ AckInv /\ MemoryType /\ RunningInv
      /\ db \in Database /\ Directory \in Dirs /\ db.todo = {}
  BY <1>1, <1>2, Given, OpenFacts, RecoveringFacts DEF Inv, Core, DiskInv
<1>4. /\ Directory' = Directory /\ Dirs' = Dirs /\ (Readable' <=> Readable) /\ Latest' = Latest
      /\ Possible(Directory)' = Possible(Directory) /\ View({}) /\ \A t \in Nat : TableStays(t)
  BY <1>1, Still
<1>5. DiskInv'
  <2>1. UNCHANGED <<diskVars, synced, unborn>> BY <1>1 DEF historyVars
  <2>2. AckInv' BY <1>1, <1>3, <1>4, AckKept DEF historyVars, countVars
  <2> QED BY <1>3, <2>1, <2>2, DiskStill DEF DiskInv
<1>9. /\ db' \in Database
      /\ db'.version = NewTables /\ db'.logNumber = db.edit.log /\ db'.edit = NoEdit
      /\ db'.imm = (IF db.work = "flush" THEN {} ELSE db.imm)
      /\ db'.opened = db.opened /\ db'.described = db.described /\ db'.next = db.next
      /\ db'.log = db.log /\ db'.manifest = db.manifest /\ db'.last = db.last
      /\ db'.mem = db.mem /\ db'.todo = db.todo
  BY <1>3, InstallFields
<1>10. MemoryType' BY <1>1, <1>3, <1>9 DEF MemoryType, Pc, countVars
<1>11. LastGiven' = LastGiven BY <1>1, <1>9 DEF LastGiven
<1>12. RunningInv'
  <2>1. LastGiven \in Nat BY <1>3 DEF LastGiven, MemoryType, Entry, Database
  <2>2. /\ db'.next >= db.next /\ db'.last >= db.last /\ db'.manifest < db'.next
        /\ LastGiven' \in Nat /\ LastGiven' >= LastGiven
    BY <1>2, <1>3, <1>9, <1>11, <2>1 DEF RunningInv, Database
  <2>3. \A t \in db'.version \cup db'.edit.add : t \in db.version \cup db.edit.add /\ TableStays(t)
    <3>1. db'.edit.add = {} BY <1>9 DEF NoEdit
    <3>2. NewTables \subseteq db.version \cup db.edit.add BY DEF NewTables
    <3>3. \A t \in db.version \cup db.edit.add : t \in Nat BY <1>3 DEF Database
    <3> QED BY <1>4, <1>9, <3>1, <3>2, <3>3
  <2>4. \A e \in db'.mem \cup db'.imm : e \in db.mem \cup db.imm BY <1>9
  <2> QED BY <1>2, <1>4, <1>9, <1>10, <2>2, <2>3, <2>4, RunningKept
<1> QED BY <1>1, <1>2, <1>3, <1>4, <1>5, <1>9, <1>10, <1>12 DEF diskVars

LEMMA InstallRecovering ==
    ASSUME Inv, Install, ~db.opened
    PROVE  Core'
<1>1. /\ pc = "install" /\ pc' = "clean" /\ UNCHANGED <<writer, pins, countVars, historyVars>>
  BY DEF Install, Alone
<1>2. Recovering BY <1>1 DEF Recovering
<1>3. /\ RecoveringInv /\ db \in Database
      /\ writer = NoWrite /\ pins = {} /\ db.todo = {} /\ db.mem = {} /\ db.imm = {}
  BY <1>2, RecoveringFacts
<1>4. /\ db.edit.log = db.log /\ db.described /\ Directory.current = db.manifest
      /\ Possible(Directory) = {Latest} /\ Latest.tables = NewTables /\ Latest.log = db.log
      /\ <<"log", db.log>> \in Directory.names
      /\ files[<<"log", db.log>>].records = <<>> /\ db.next = db.log + 1
      /\ acked \subseteq Writes(Tables(NewTables))
  BY <1>1, <1>2, <1>3 DEF RecoveringInv
<1>5. /\ DiskInv' /\ MemoryType' /\ RunningInv'
      /\ Latest' = Latest /\ Directory' = Directory
      /\ Possible(Directory)' = Possible(Directory)
      /\ UNCHANGED <<files, directories>>
      /\ db'.version = NewTables /\ db'.logNumber = db.edit.log /\ db'.edit = NoEdit
      /\ db'.imm = (IF db.work = "flush" THEN {} ELSE db.imm)
      /\ db'.opened = db.opened /\ db'.described = db.described /\ db'.next = db.next
      /\ db'.log = db.log /\ db'.manifest = db.manifest
      /\ db'.mem = db.mem /\ db'.todo = db.todo
  BY <1>2, InstallMemory
<1>6. NewTables' = NewTables BY <1>5 DEF NewTables, NoEdit
<1>7. acked' \subseteq Writes(Tables(NewTables))'
  <2>1. Tables(NewTables)' = Tables(NewTables) BY <1>5, <1>6 DEF Tables, Table
  <2>2. Writes(Tables(NewTables))' = Writes(Tables(NewTables)) BY <2>1 DEF Writes
  <2> QED BY <1>1, <1>4, <2>2 DEF historyVars
<1>8. db'.edit.delete = {} BY <1>5 DEF NoEdit
<1>9. RecoveringInv' BY <1>1, <1>3, <1>4, <1>5, <1>6, <1>7, <1>8 DEF RecoveringInv
<1>10. Recovering' BY <1>1, <1>2, <1>5 DEF Recovering
<1> QED BY <1>5, <1>9, <1>10, RecoveringPhase

LEMMA InstallOpen ==
    ASSUME Inv, Install, db.opened
    PROVE  Inv'
<1>1. /\ pc = "install" /\ pc' = "clean" /\ UNCHANGED <<writer, pins, countVars, historyVars>>
  BY DEF Install, Alone
<1>2. /\ db \in Database /\ MemoryType /\ OpenInv /\ WorkInv /\ db.todo = {} /\ db.described
  BY OpenFacts
<1>3. /\ DiskInv' /\ MemoryType' /\ RunningInv' /\ View({})
      /\ Latest' = Latest /\ Directory' = Directory
      /\ Possible(Directory)' = Possible(Directory)
      /\ UNCHANGED <<files, directories>>
      /\ db'.version = NewTables /\ db'.logNumber = db.edit.log /\ db'.edit = NoEdit
      /\ db'.imm = (IF db.work = "flush" THEN {} ELSE db.imm)
      /\ db'.opened = db.opened /\ db'.described = db.described /\ db'.next = db.next
      /\ db'.log = db.log /\ db'.manifest = db.manifest /\ db'.last = db.last
      /\ db'.mem = db.mem /\ db'.todo = db.todo
  BY InstallMemory
<1>4. /\ db.work \in {"flush", "merge"} /\ db.edit.log <= db.log
      /\ Tables(NewTables)
            = IF db.work = "flush" THEN Tables(db.version) \cup db.imm ELSE Tables(db.version)
  BY <1>1, ApplyFacts
<1>5. Tables(db.version)' = Tables(NewTables) BY <1>3 DEF Tables, Table
<1>6. (Tables(db.version) \cup db.imm)' = Tables(db.version) \cup db.imm
  BY <1>3, <1>4, <1>5
<1>7. Contents' = Contents
  <2>1. Contents = db.mem \cup (Tables(db.version) \cup db.imm) BY DEF Contents, Tables
  <2>2. Contents' = db'.mem \cup (Tables(db.version) \cup db.imm)' BY DEF Contents, Tables
  <2> QED BY <1>3, <1>6, <2>1, <2>2
<1>8. OpenInv'
  <2>1. SyncedEntries(db.log)' = SyncedEntries(db.log) BY <1>3 DEF SyncedEntries
  <2>2. \A t \in Pinned' : (t \in Pinned \/ t \in db.version) /\ TableStays(t)
    <3>1. Pinned' = Pinned BY <1>1 DEF Pinned
    <3>2. \A p \in pins : p[2] \subseteq Nat BY <1>2 DEF MemoryType
    <3>3. \A t \in Pinned : t \in Nat BY <3>2 DEF Pinned
    <3>4. \A t \in Nat : TableStays(t) BY <1>3, Still DEF diskVars
    <3> QED BY <3>1, <3>3, <3>4
  <2>3. db'.next \in Nat /\ db'.next >= db.next BY <1>2, <1>3 DEF Database
  <2>4. db'.opened /\ db'.described /\ db'.todo = {} BY <1>2, <1>3
  <2>5. UNCHANGED <<writer, calls, acked, synced>> BY <1>1 DEF countVars, historyVars
  <2>6. db'.logNumber <= db.log BY <1>3, <1>4
  <2>7. <<"log", db.log>> \in Directory'.names BY <1>2, <1>3 DEF OpenInv
  <2>8. /\ db'.manifest = db.manifest /\ db'.log = db.log /\ db'.mem = db.mem /\ db'.last = db.last
    BY <1>3
  <2> QED BY <1>1, <1>3, <1>6, <1>7, <2>1, <2>2, <2>3, <2>4, <2>5, <2>6, <2>7, <2>8, OpenKept
<1>9. WorkInv'
  <2>1. Possible(Directory) = {Latest} /\ Latest.tables = NewTables /\ Latest.log = db.edit.log
    BY <1>1, <1>2 DEF WorkInv
  <2> QED BY <1>1, <1>3, <2>1 DEF WorkInv
<1>10. db'.opened BY <1>3
<1>11. MergeInv'
  <2>1. /\ db' \in Database /\ db'.pending = (IF db.work = "merge" THEN {} ELSE db.pending)
        /\ db'.inputs = (IF db.work = "merge" THEN {} ELSE db.inputs)
        /\ db'.left = db.left /\ db'.outputs = db.outputs /\ db'.builder = db.builder
    BY <1>2, InstallFields
  <2>2. CASE db.work = "merge" BY <1>1, <2>1, <2>2 DEF MergeInv
  <2>3. CASE db.work = "flush"
    <3>1. /\ db'.pending = db.pending /\ db'.inputs = db.inputs BY <2>1, <2>3
    <3>2. db.version \subseteq db'.version BY <1>1, <1>2, <1>3, <2>3, ApplyFacts
    <3>3. \A t \in Live : TableStays(t)
      <4>1. \A t \in Nat : TableStays(t) BY <1>3, Still DEF diskVars
      <4> QED BY <4>1, LiveNumbers
    <3>4. db.inputs # {} => db.inputs \subseteq db'.version /\ Produced \subseteq db'.pending
      <4>1. db.inputs # {} => MergingInv BY MergeFacts
      <4> QED BY <3>1, <3>2, <4>1 DEF MergingInv
    <3>5. Dirs' = Dirs BY <1>3, Still DEF diskVars
    <3>6. db'.next >= db.next BY <1>2, <1>3 DEF Database
    <3> QED BY <1>1, <1>2, <1>3, <2>1, <3>1, <3>3, <3>4, <3>5, <3>6, MergeKept
  <2> QED BY <1>4, <2>2, <2>3
<1> QED BY <1>3, <1>8, <1>9, <1>10, <1>11, OpenedPhase DEF Inv

-----------------------------------------------------------------------------
(* Steps that leave the disk alone, and crashes.                            *)

\* The disk and what running means, when the memory changes a little.
LEMMA StillKept ==
    ASSUME Inv, db.opened,
           UNCHANGED <<diskVars, writer, calls, crashes, historyVars>>, MemoryType', db'.opened,
           db'.described, db'.next = db.next, db'.log = db.log, db'.manifest = db.manifest,
           db'.logNumber = db.logNumber, db'.last = db.last, db'.version = db.version,
           db'.mem = db.mem, db'.imm = db.imm, db'.todo = db.todo, db'.edit.add = db.edit.add,
           pc' \in {"idle", "merge", "build", "sync", "apply", "syncManifest", "install", "clean"},
           \A t \in Pinned' : t \in Pinned \/ t \in db.version
    PROVE  DiskInv' /\ RunningInv' /\ OpenInv'
<1>1. /\ DiskType /\ DirInv /\ ImagesInv /\ AckInv /\ db \in Database /\ ~Opening /\ db.todo = {}
      /\ OpenInv /\ RunningInv /\ MemoryType
  BY OpenFacts
<1>2. /\ Directory' = Directory /\ View({}) /\ \A t \in Nat : TableStays(t)
      /\ \A n : Table(n)' = Table(n) /\ SyncedEntries(n)' = SyncedEntries(n)
  BY Still
<1>3. DiskInv'
  <2>1. UNCHANGED <<diskVars, synced, unborn>> BY DEF historyVars
  <2>2. AckInv' BY <1>1, <1>2, AckKept DEF historyVars
  <2> QED BY <1>1, <2>1, <2>2, DiskStill DEF DiskInv
<1>4. LastGiven' = LastGiven BY DEF LastGiven
<1>5. RunningInv'
  <2>1. LastGiven \in Nat BY <1>1 DEF LastGiven, MemoryType, Entry, Database
  <2>2. /\ db'.next >= db.next /\ db'.last >= db.last /\ db'.manifest < db'.next
        /\ LastGiven' \in Nat /\ LastGiven' >= LastGiven
    BY <1>1, <1>4, <2>1 DEF RunningInv, Database
  <2>3. \A t \in db'.version \cup db'.edit.add : t \in db.version \cup db.edit.add /\ TableStays(t)
    <3>1. \A t \in db.version \cup db.edit.add : t \in Nat BY <1>1 DEF Database
    <3> QED BY <1>2, <3>1
  <2>4. \A e \in db'.mem \cup db'.imm : e \in db.mem \cup db.imm OBVIOUS
  <2> QED BY <1>1, <1>2, <2>2, <2>3, <2>4, RunningKept
<1>6. Tables(db.version)' = Tables(db.version) BY <1>2 DEF Tables
<1>7. OpenInv'
  <2>1. Contents' = Contents BY <1>6 DEF Contents, Tables
  <2>2. SyncedEntries(db.log)' = SyncedEntries(db.log)
    <3>1. PICK log : log = db.log OBVIOUS
    <3>2. SyncedEntries(db.log)' = SyncedEntries(log)' BY <3>1 DEF SyncedEntries
    <3> QED BY <1>2, <3>1, <3>2
  <2>3. \A t \in Pinned' : (t \in Pinned \/ t \in db.version) /\ TableStays(t)
    <3>1. \A p \in pins : p[2] \subseteq Nat BY <1>1 DEF MemoryType
    <3>2. \A t \in Pinned : t \in Nat BY <3>1 DEF Pinned
    <3>3. \A t \in db.version : t \in Nat BY <1>1 DEF Database
    <3> QED BY <1>2, <3>2, <3>3
  <2>4. /\ db'.logNumber <= db.log /\ <<"log", db.log>> \in Directory'.names
        /\ db'.next \in Nat /\ db'.next >= db.next
    BY <1>1, <1>2 DEF OpenInv, Database
  <2>5. UNCHANGED <<writer, calls, acked, synced>> BY DEF historyVars
  <2>6. Tables(db.version) \cup db.imm \subseteq (Tables(db.version) \cup db.imm)' BY <1>6
  <2>7. db'.todo = {} BY <1>1
  <2> QED BY <1>2, <2>1, <2>2, <2>3, <2>4, <2>5, <2>6, <2>7, OpenKept
<1> QED BY <1>3, <1>5, <1>7



LEMMA StartFlushKeeps ==
    ASSUME Inv, StartFlush
    PROVE  Inv'
<1>1. /\ pc \in {"idle", "merge"} /\ pc' = "build" /\ db.imm # {}
      /\ db' = [db EXCEPT !.work = "flush"]
      /\ UNCHANGED <<diskVars, writer, pins, countVars, historyVars>>
  BY DEF StartFlush, Alone
<1>2. db.opened BY <1>1 DEF Inv, Core, MemoryType
<1>3. db \in Database /\ MemoryType /\ WorkInv /\ db.todo = {} /\ db.described BY <1>2, OpenFacts
<1>4. /\ db' \in Database /\ db'.opened /\ db'.described /\ db'.work = "flush"
      /\ db'.next = db.next /\ db'.log = db.log /\ db'.manifest = db.manifest
      /\ db'.logNumber = db.logNumber /\ db'.last = db.last /\ db'.version = db.version
      /\ db'.mem = db.mem /\ db'.imm = db.imm /\ db'.todo = db.todo /\ db'.edit = db.edit
      /\ db'.pending = db.pending /\ db'.inputs = db.inputs /\ db'.left = db.left
      /\ db'.outputs = db.outputs /\ db'.builder = db.builder /\ db'.output = db.output
  BY <1>1, <1>2, <1>3 DEF Database
<1>5. MemoryType' BY <1>1, <1>3, <1>4 DEF MemoryType, Pc, countVars
<1>6. DiskInv' /\ RunningInv' /\ OpenInv'
  <2>1. Pinned' = Pinned BY <1>1 DEF Pinned
  <2> QED BY <1>1, <1>2, <1>4, <1>5, <2>1, StillKept DEF countVars
<1>7. WorkInv'
  <2>1. Latest' = Latest /\ Possible(Directory)' = Possible(Directory) BY <1>1, Still
  <2>2. /\ db.edit = NoEdit /\ Possible(Directory) = {Latest}
        /\ Latest.tables = db.version /\ Latest.log = db.logNumber
    BY <1>1, <1>2, <1>3 DEF WorkInv
  <2> QED BY <1>1, <1>4, <2>1, <2>2 DEF WorkInv, NoEdit
<1>8. MergeInv'
  <2>1. Dirs' = Dirs /\ \A t \in Nat : TableStays(t) BY <1>1, Still
  <2>2. db'.next >= db.next BY <1>3, <1>4 DEF Database
  <2> QED BY <1>1, <1>3, <1>4, <2>1, <2>2, MergeStill
<1> QED BY <1>4, <1>5, <1>6, <1>7, <1>8, OpenedPhase DEF Inv

LEMMA StartMergeKeeps ==
    ASSUME Inv, StartMerge
    PROVE  Inv'
<1>1. /\ pc = "idle" /\ pc' = "merge" /\ Cardinality(db.version) > 1
      /\ db' = [db EXCEPT !.inputs = db.version, !.outputs = {},
                          !.left = UNION {Table(t) : t \in db.version}, !.builder = 0]
      /\ UNCHANGED <<diskVars, writer, pins, countVars, historyVars>>
  BY DEF StartMerge, Alone
<1>2. db.opened BY <1>1 DEF Inv, Core, MemoryType
<1>3. /\ db \in Database /\ MemoryType /\ WorkInv /\ db.todo = {} /\ db.described
      /\ DiskType /\ RunningInv /\ Directory \in Dirs /\ ~Opening
  BY <1>2, OpenFacts
<1>4. /\ db.edit = NoEdit /\ Possible(Directory) = {Latest}
      /\ Latest.tables = db.version /\ Latest.log = db.logNumber
  BY <1>1, <1>2, <1>3 DEF WorkInv
<1>5. PICK tables \in SUBSET Nat : tables = db.version BY <1>3 DEF Database
<1>6. PICK left \in SUBSET Entry : left = Tables(db.version)
  <2>1. \A t \in db.version : Table(t) \subseteq Entry
    <3>1. \A t \in db.version : t \in Nat /\ Whole(t, Directory.names)
      BY <1>3 DEF RunningInv, Database
    <3> QED BY <1>3, <3>1, DirectoryShape, TableShape DEF Whole
  <2>2. Tables(db.version) \subseteq Entry BY <2>1 DEF Tables
  <2> QED BY <2>2
<1>7. /\ db' \in Database /\ db'.opened /\ db'.described
      /\ db'.next = db.next /\ db'.log = db.log /\ db'.manifest = db.manifest
      /\ db'.logNumber = db.logNumber /\ db'.last = db.last /\ db'.version = db.version
      /\ db'.mem = db.mem /\ db'.imm = db.imm /\ db'.todo = db.todo /\ db'.edit = db.edit
      /\ db'.inputs = tables /\ db'.outputs = {} /\ db'.left = left /\ db'.builder = 0
      /\ db'.pending = db.pending
  <2>1. db' = [db EXCEPT !.inputs = tables, !.outputs = {}, !.left = left, !.builder = 0]
    BY <1>1, <1>5, <1>6 DEF Tables
  <2> QED BY <1>2, <1>3, <2>1 DEF Database
<1>8. MemoryType' BY <1>1, <1>3, <1>7 DEF MemoryType, Pc, countVars
<1>9. DiskInv' /\ RunningInv' /\ OpenInv'
  <2>1. Pinned' = Pinned BY <1>1 DEF Pinned
  <2> QED BY <1>1, <1>2, <1>7, <1>8, <2>1, StillKept DEF countVars
<1>10. WorkInv'
  <2>1. Latest' = Latest /\ Possible(Directory)' = Possible(Directory) BY <1>1, Still
  <2> QED BY <1>1, <1>4, <1>7, <2>1 DEF WorkInv
<1>11. MergeInv'
  <2>1. db.version # {} BY <1>1, FS_EmptySet
  <2>2. Produced' = {} BY <1>7 DEF Produced
  <2>3. \A n : Table(n)' = Table(n) BY <1>1, Still
  <2>4. Tables(db.inputs)' = left BY <1>5, <1>6, <1>7, <2>3 DEF Tables
  <2>5. Tables(Produced)' = {} BY <2>2 DEF Tables
  <2>6. MergingInv' BY <1>1, <1>5, <1>7, <2>2, <2>4, <2>5 DEF MergingInv
  <2>7. \A t \in db'.pending : 0 < t /\ t < db'.next BY <1>7 DEF Inv, MergeInv
  <2> QED BY <1>1, <1>5, <1>7, <2>1, <2>6, <2>7 DEF MergeInv
<1> QED BY <1>7, <1>8, <1>9, <1>10, <1>11, OpenedPhase DEF Inv

\* The output is a table of no version, with some of what is left of the inputs.
LEMMA OpenOutputKeeps ==
    ASSUME Inv, OpenOutput
    PROVE  Inv'
<1>1. /\ pc = "merge" /\ pc' = "merge" /\ db.builder = 0
      /\ UNCHANGED <<writer, pins, countVars, historyVars>>
  BY DEF OpenOutput, Alone
<1>2. PICK last \in db.left :
        LET added == {e \in db.left : e.sequence <= last.sequence}
        IN  /\ Create(<<"table", db.next>>, <<added>>)
            /\ db' = [db EXCEPT !.builder = db.next, !.left = @ \ added,
                                !.pending = @ \cup {db.next}, !.next = @ + 1]
  BY DEF OpenOutput
<1>3. db.opened /\ db.inputs # {} BY <1>1 DEF Inv, Core, MemoryType, MergeInv
<1>4. /\ db \in Database /\ MemoryType /\ WorkInv /\ OpenInv /\ db.todo = {} /\ db.described
      /\ MergingInv /\ db.inputs \cup Produced \subseteq Live
      /\ \A t \in db.inputs \cup Produced : t \in Nat /\ 0 < t /\ t < db.next
  BY <1>3, OpenFacts, MergeFacts
<1>5. /\ db.edit = NoEdit /\ Possible(Directory) = {Latest}
      /\ Latest.tables = db.version /\ Latest.log = db.logNumber
  BY <1>1, <1>3, <1>4 DEF WorkInv
<1>6. PICK content \in SUBSET Entry : content = {e \in db.left : e.sequence <= last.sequence}
  BY <1>4 DEF Database
<1>7. PICK left \in SUBSET Entry : left = db.left \ content BY <1>4 DEF Database
<1>8. PICK next \in Nat : next = db.next BY <1>4 DEF Database
<1>9. content # {} /\ content \cup left = db.left
  <2>1. last.sequence \in Nat BY <1>4 DEF Database, Entry
  <2>2. last \in content BY <1>6, <2>1
  <2> QED BY <1>6, <1>7, <2>2
<1>10. PICK pending \in SUBSET Nat : pending = db.pending \cup {next} BY <1>4 DEF Database
<1>11. /\ db' \in Database /\ db'.opened /\ db'.described
       /\ db'.next = db.next + 1 /\ db'.log = db.log /\ db'.manifest = db.manifest
       /\ db'.logNumber = db.logNumber /\ db'.last = db.last /\ db'.version = db.version
       /\ db'.mem = db.mem /\ db'.imm = db.imm /\ db'.todo = db.todo /\ db'.edit = db.edit
       /\ db'.inputs = db.inputs /\ db'.outputs = db.outputs /\ db'.left = left
       /\ db'.builder = next /\ db'.pending = pending
  <2>1. db' = [db EXCEPT !.builder = next, !.left = left, !.pending = pending,
                         !.next = next + 1]
    BY <1>2, <1>4, <1>6, <1>7, <1>8, <1>10 DEF Database
  <2>2. next + 1 \in Nat OBVIOUS
  <2> QED BY <1>3, <1>4, <1>8, <2>1, <2>2 DEF Database
<1>12. MemoryType' BY <1>1, <1>4, <1>11 DEF MemoryType, Pc, countVars
<1>13. /\ DiskInv' /\ View({}) /\ RunningInv' /\ OpenInv'
       /\ \A t \in Nat : t # next => TableStays(t)
       /\ <<"table", next>> \in Directory'.names
       /\ files'[<<"table", next>>].records = <<content>>
       /\ \A D \in Dirs' : \E E \in Dirs : D.current = E.current /\ E.names \subseteq D.names
       /\ next # 0 /\ Possible(Directory)' = {Latest'} /\ Latest' = Latest
  <2>1. Create(<<"table", db.next>>, <<content>>) BY <1>2, <1>6
  <2> QED BY <1>1, <1>3, <1>5, <1>8, <1>11, <1>12, <2>1, NewTableOpen
<1>14. WorkInv'
  <2>1. /\ db'.edit = NoEdit /\ Latest'.tables = db'.version /\ Latest'.log = db'.logNumber
    BY <1>5, <1>11, <1>13
  <2> QED BY <1>1, <1>13, <2>1 DEF WorkInv
<1>15. Produced = db.outputs /\ Produced' = db.outputs \cup {next}
  BY <1>1, <1>11, <1>13 DEF Produced
<1>16. Table(next)' = content BY <1>13 DEF Table
<1>17. /\ \A t \in db.outputs : Whole(t, Directory.names) /\ TableStays(t)
       /\ \A t \in db.inputs : Whole(t, Directory.names) /\ TableStays(t)
  <2>1. Directory \in Dirs /\ RunningInv /\ ~Opening BY <1>3, OpenFacts
  <2>2. /\ \A t \in db.outputs : Whole(t, Directory.names)
        /\ \A t \in db.inputs : Whole(t, Directory.names)
    BY <1>4, <2>1 DEF MergingInv, RunningInv
  <2>3. \A t \in db.outputs \cup db.inputs : t \in Nat /\ t # next BY <1>4, <1>8, <1>15
  <2> QED BY <1>13, <2>2, <2>3
<1>18. \A t \in db.outputs \cup db.inputs : Table(t)' = Table(t)
  BY <1>17 DEF TableStays, Whole
<1>19. Tables(Produced)' \cup db'.left = Tables(db.inputs)'
  <2>1. /\ Tables(db.inputs)' = UNION {Table(t)' : t \in db.inputs}
        /\ Tables(Produced)' = (UNION {Table(t)' : t \in db.outputs}) \cup content
    <3>1. Tables(Produced)' = UNION {Table(t)' : t \in db.outputs \cup {next}}
      BY <1>15 DEF Tables
    <3> QED BY <1>11, <1>16, <3>1 DEF Tables
  <2>2. Tables(db.outputs) \cup db.left = Tables(db.inputs) BY <1>4, <1>15 DEF MergingInv
  <2>3. /\ Tables(db.inputs)' = Tables(db.inputs)
        /\ Tables(Produced)' = Tables(db.outputs) \cup content
    BY <1>18, <2>1 DEF Tables
  <2> QED BY <1>9, <1>11, <2>2, <2>3
<1>20. ASSUME NEW t \in db.outputs, NEW D \in Dirs'
       PROVE  D.current = db'.manifest /\ Whole(t, D.names)'
  <2>1. PICK E \in Dirs : D.current = E.current /\ E.names \subseteq D.names BY <1>13
  <2>2. E.current = db.manifest /\ Whole(t, E.names) BY <1>4 DEF MergingInv
  <2>3. Whole(t, Directory.names)' BY <1>17 DEF TableStays, Whole
  <2> QED BY <1>11, <2>1, <2>2, <2>3 DEF Whole
<1>21. MergingInv'
  <2>1. db'.inputs \subseteq db'.version /\ Produced' \subseteq db'.pending
    BY <1>4, <1>10, <1>11, <1>15 DEF MergingInv
  <2>2. Produced' \cap db'.inputs = {} BY <1>4, <1>8, <1>11, <1>15 DEF MergingInv
  <2>3. /\ <<"table", db'.builder>> \in Directory'.names /\ Table(next)' # {}
        /\ Len(files'[<<"table", db'.builder>>].records) = 1
    BY <1>9, <1>11, <1>13, <1>16
  <2>4. Table(db.builder)' = Table(next)' BY <1>11 DEF Table
  <2> QED BY <1>1, <1>11, <1>19, <1>20, <2>1, <2>2, <2>3, <2>4 DEF MergingInv
<1>22. MergeInv'
  <2>1. \A t \in db'.pending : 0 < t /\ t < db'.next
    <3>1. \A t \in db.pending : t \in Nat /\ 0 < t /\ t < db.next
      BY <1>4 DEF Inv, MergeInv, Database
    <3> QED BY <1>8, <1>10, <1>11, <1>13, <3>1
  <2> QED BY <1>3, <1>11, <1>21, <2>1 DEF MergeInv
<1> QED BY <1>11, <1>12, <1>13, <1>14, <1>22, OpenedPhase DEF Inv

\* The output is whole, in every directory that a crash may leave.
LEMMA FinishOutputKeeps ==
    ASSUME Inv, FinishOutput
    PROVE  Inv'
<1>1. /\ pc = "merge" /\ pc' = "merge" /\ db.builder # 0
      /\ <<"table", db.builder>> \in Directory.names
      /\ Sync(files, <<"table", db.builder>>, Directory)
      /\ db' = [db EXCEPT !.outputs = @ \cup {db.builder}, !.builder = 0]
      /\ UNCHANGED <<writer, pins, countVars, historyVars>>
  BY DEF FinishOutput, Alone
<1>2. db.opened /\ db.inputs # {} BY <1>1 DEF Inv, Core, MemoryType, MergeInv
<1>3. /\ db \in Database /\ MemoryType /\ WorkInv /\ OpenInv /\ db.todo = {} /\ db.described
      /\ DiskType /\ Directory \in Dirs /\ RunningInv /\ ~Opening
      /\ MergingInv /\ db.inputs \cup Produced \subseteq Live
      /\ \A t \in db.inputs \cup Produced : t \in Nat /\ 0 < t /\ t < db.next
  BY <1>2, OpenFacts, MergeFacts
<1>4. /\ db.edit = NoEdit /\ Possible(Directory) = {Latest}
      /\ Latest.tables = db.version /\ Latest.log = db.logNumber
  BY <1>1, <1>2, <1>3 DEF WorkInv
<1>5. PICK output \in Nat : output = db.builder BY <1>3 DEF Database
<1>6. PICK outputs \in SUBSET Nat : outputs = db.outputs \cup {output} BY <1>3 DEF Database
<1>7. /\ db' \in Database /\ db'.opened /\ db'.described
      /\ db'.next = db.next /\ db'.log = db.log /\ db'.manifest = db.manifest
      /\ db'.logNumber = db.logNumber /\ db'.last = db.last /\ db'.version = db.version
      /\ db'.mem = db.mem /\ db'.imm = db.imm /\ db'.todo = db.todo /\ db'.edit = db.edit
      /\ db'.inputs = db.inputs /\ db'.outputs = outputs /\ db'.left = db.left
      /\ db'.builder = 0 /\ db'.pending = db.pending
  <2>1. db' = [db EXCEPT !.outputs = outputs, !.builder = 0] BY <1>1, <1>3, <1>5, <1>6 DEF Database
  <2> QED BY <1>2, <1>3, <2>1 DEF Database
<1>8. MemoryType' BY <1>1, <1>3, <1>7 DEF MemoryType, Pc, countVars
<1>9. PICK content \in SUBSET Entry :
        content # {} /\ files[<<"table", output>>].records = <<content>>
  <2>1. Len(files[<<"table", output>>].records) = 1 /\ Table(output) # {}
    <3>1. Table(db.builder) = Table(output) BY <1>5
    <3> QED BY <1>1, <1>3, <1>5, <3>1 DEF MergingInv
  <2>2. files[<<"table", output>>].records \in Seq(SUBSET Entry)
    BY <1>1, <1>3, <1>5, DirectoryShape, FileShape
  <2>3. files[<<"table", output>>].records = <<files[<<"table", output>>].records[1]>>
    BY <2>1, <2>2
  <2>4. Table(output) = files[<<"table", output>>].records[1] BY <2>1 DEF Table
  <2> QED BY <2>1, <2>2, <2>3, <2>4
<1>10. /\ DiskInv' /\ RunningInv' /\ OpenInv'
       /\ Directory' = Directory /\ Dirs' = {Directory} /\ \A t \in Nat : TableStays(t)
       /\ Whole(output, Directory.names)' /\ Directory'.current = db.manifest
       /\ Possible(Directory)' = {Latest'} /\ Latest' = Latest
  <2>1. output \notin db'.edit.add /\ db'.edit.add \subseteq db.edit.add \cup {output}
    BY <1>4, <1>7 DEF NoEdit
  <2>2. <<"table", output>> \in Directory.names /\ Sync(files, <<"table", output>>, Directory)
    BY <1>1, <1>5
  <2> QED BY <1>1, <1>2, <1>4, <1>7, <1>8, <1>9, <2>1, <2>2, WholeTableOpen
<1>11. WorkInv'
  <2>1. /\ db'.edit = NoEdit /\ Latest'.tables = db'.version /\ Latest'.log = db'.logNumber
    BY <1>4, <1>7, <1>10
  <2> QED BY <1>1, <1>10, <2>1 DEF WorkInv
<1>12. Produced' = Produced BY <1>1, <1>5, <1>6, <1>7 DEF Produced
<1>13. /\ \A t \in db.outputs : Whole(t, Directory.names)
       /\ \A t \in db.inputs \cup Produced : Table(t)' = Table(t)
  <2>1. /\ \A t \in db.outputs : Whole(t, Directory.names)
        /\ \A t \in db.inputs : Whole(t, Directory.names)
    BY <1>3 DEF MergingInv, RunningInv
  <2>2. \A t \in db.inputs \cup Produced : <<"table", t>> \in Directory.names /\ t \in Nat
    BY <1>1, <1>3, <2>1 DEF Produced, Whole
  <2> QED BY <1>10, <2>1, <2>2 DEF TableStays
<1>14. MergingInv'
  <2>1. Tables(Produced)' \cup db'.left = Tables(db.inputs)'
    <3>1. /\ Tables(db.inputs)' = UNION {Table(t)' : t \in db.inputs}
          /\ Tables(Produced)' = UNION {Table(t)' : t \in Produced}
      BY <1>7, <1>12 DEF Tables
    <3>2. Tables(db.inputs)' = Tables(db.inputs) /\ Tables(Produced)' = Tables(Produced)
      BY <1>13, <3>1 DEF Tables
    <3> QED BY <1>3, <1>7, <3>2 DEF MergingInv
  <2>2. \A t \in outputs : Whole(t, Directory.names)'
    <3>1. \A t \in db.outputs : t \in Nat BY <1>3 DEF Database
    <3> QED BY <1>6, <1>10, <1>13, <3>1 DEF TableStays, Whole
  <2>3. \A t \in db'.outputs : \A D \in Dirs' : D.current = db'.manifest /\ Whole(t, D.names)'
    BY <1>7, <1>10, <2>2 DEF Whole
  <2>4. /\ db'.inputs \subseteq db'.version /\ Produced' \subseteq db'.pending
        /\ Produced' \cap db'.inputs = {}
    BY <1>3, <1>7, <1>12 DEF MergingInv
  <2> QED BY <1>1, <1>7, <2>1, <2>3, <2>4 DEF MergingInv
<1>15. MergeInv' BY <1>2, <1>7, <1>14 DEF Inv, MergeInv
<1> QED BY <1>7, <1>8, <1>10, <1>11, <1>15, OpenedPhase DEF Inv

\* All entries of the inputs are in the outputs, which take their place.
LEMMA InstallResultsKeeps ==
    ASSUME Inv, InstallResults
    PROVE  Inv'
<1>1. /\ pc = "merge" /\ pc' = "apply" /\ db.builder = 0 /\ db.left = {}
      /\ db' = [db EXCEPT !.work = "merge",
                          !.edit = [add |-> db.outputs, delete |-> db.inputs,
                                    log |-> db.logNumber]]
      /\ UNCHANGED <<diskVars, writer, pins, countVars, historyVars>>
  BY DEF InstallResults, Alone
<1>2. db.opened /\ db.inputs # {} BY <1>1 DEF Inv, Core, MemoryType, MergeInv
<1>3. /\ db \in Database /\ MemoryType /\ WorkInv /\ OpenInv /\ db.todo = {} /\ db.described
      /\ DiskType /\ DirInv /\ ImagesInv /\ AckInv /\ Directory \in Dirs /\ RunningInv
      /\ ~Opening /\ MergingInv /\ db.inputs \cup Produced \subseteq Live
      /\ \A t \in db.inputs \cup Produced : t \in Nat /\ 0 < t /\ t < db.next
  BY <1>2, OpenFacts, MergeFacts
<1>4. /\ Possible(Directory) = {Latest}
      /\ Latest.tables = db.version /\ Latest.log = db.logNumber
  BY <1>1, <1>2, <1>3 DEF WorkInv
<1>5. PICK edit : edit = [add |-> db.outputs, delete |-> db.inputs, log |-> db.logNumber] OBVIOUS
<1>6. /\ edit \in [add : SUBSET Nat, delete : SUBSET Nat, log : Nat]
      /\ edit.add = db.outputs /\ edit.delete = db.inputs /\ edit.log = db.logNumber
  BY <1>3, <1>5 DEF Database
<1>7. /\ db' \in Database /\ db'.opened /\ db'.described /\ db'.work = "merge"
      /\ db'.next = db.next /\ db'.log = db.log /\ db'.manifest = db.manifest
      /\ db'.logNumber = db.logNumber /\ db'.last = db.last /\ db'.version = db.version
      /\ db'.mem = db.mem /\ db'.imm = db.imm /\ db'.todo = db.todo /\ db'.edit = edit
      /\ db'.inputs = db.inputs /\ db'.outputs = db.outputs /\ db'.left = db.left
      /\ db'.builder = db.builder /\ db'.pending = db.pending
  <2>1. db' = [db EXCEPT !.work = "merge", !.edit = edit] BY <1>1, <1>5
  <2> QED BY <1>2, <1>3, <1>6, <2>1 DEF Database
<1>8. MemoryType' BY <1>1, <1>3, <1>7 DEF MemoryType, Pc, countVars
<1>9. /\ Directory' = Directory /\ Dirs' = Dirs /\ Latest' = Latest
      /\ Possible(Directory)' = Possible(Directory)
      /\ View({}) /\ \A t \in Nat : TableStays(t)
      /\ \A n : Table(n)' = Table(n) /\ SyncedEntries(n)' = SyncedEntries(n)
      /\ \A n, names : Whole(n, names)' <=> Whole(n, names)
  BY <1>1, Still
<1>10. DiskInv'
  <2>1. UNCHANGED <<diskVars, synced, unborn>> BY <1>1 DEF historyVars
  <2>2. AckInv' BY <1>1, <1>3, <1>9, AckKept DEF historyVars, countVars
  <2> QED BY <1>3, <2>1, <2>2, DiskStill DEF DiskInv
<1>11. Produced = db.outputs /\ Tables(db.outputs) = Tables(db.inputs)
  <2>1. Produced = db.outputs BY <1>1 DEF Produced
  <2> QED BY <1>1, <1>3, <2>1 DEF MergingInv
<1>12. RunningInv'
  <2>1. LastGiven' = LastGiven /\ LastGiven \in Nat
    BY <1>1, <1>3, <1>7 DEF LastGiven, MemoryType, Entry, Database
  <2>2. /\ db'.next >= db.next /\ db'.last >= db.last /\ db'.manifest < db'.next
        /\ LastGiven' \in Nat /\ LastGiven' >= LastGiven
    BY <1>3, <1>7, <2>1 DEF RunningInv, Database
  <2>3. ASSUME NEW t \in db'.version \cup db'.edit.add
        PROVE  \/ t \in db.version \cup db.edit.add /\ TableStays(t)
               \/ /\ Whole(t, Directory.names)' /\ 0 < t /\ t < db'.next
                  /\ Table(t)' \subseteq Contents
    <3>1. CASE t \in db.version
      <4>1. t \in Nat BY <1>3, <3>1 DEF Database
      <4> QED BY <1>9, <3>1, <4>1
    <3>2. CASE t \in db.outputs
      <4>1. Whole(t, Directory.names) BY <1>3, <3>2 DEF MergingInv
      <4>2. Table(t) \subseteq Tables(db.inputs) BY <1>11, <3>2 DEF Tables
      <4>3. Tables(db.inputs) \subseteq Tables(db.version) BY <1>3 DEF MergingInv, Tables
      <4>4. Tables(db.version) \subseteq Contents BY DEF Contents, Tables
      <4>5. 0 < t /\ t < db.next BY <1>3, <1>11, <3>2
      <4> QED BY <1>7, <1>9, <4>1, <4>2, <4>3, <4>4, <4>5 DEF Whole
    <3> QED BY <1>6, <1>7, <3>1, <3>2
  <2>4. \A e \in db'.mem \cup db'.imm : e \in db.mem \cup db.imm BY <1>7
  <2> QED BY <1>3, <1>7, <1>8, <1>9, <2>2, <2>3, <2>4, RunningKept
<1>13. OpenInv'
  <2>1. Tables(db.version)' = Tables(db.version) BY <1>7, <1>9 DEF Tables
  <2>2. Contents' = Contents BY <1>7, <2>1 DEF Contents, Tables
  <2>3. SyncedEntries(db.log)' = SyncedEntries(db.log) BY <1>1, <1>7 DEF SyncedEntries, diskVars
  <2>4. \A t \in Pinned' : (t \in Pinned \/ t \in db.version) /\ TableStays(t)
    <3>1. Pinned' = Pinned BY <1>1 DEF Pinned
    <3>2. \A p \in pins : p[2] \subseteq Nat BY <1>3 DEF MemoryType
    <3>3. \A t \in Pinned : t \in Nat BY <3>2 DEF Pinned
    <3> QED BY <1>9, <3>1, <3>3
  <2>5. /\ db'.logNumber <= db.log /\ <<"log", db.log>> \in Directory'.names
        /\ db'.next \in Nat /\ db'.next >= db.next
    BY <1>2, <1>3, <1>7, <1>9 DEF OpenInv, Database
  <2>6. UNCHANGED <<writer, calls, acked, synced>> BY <1>1 DEF historyVars, countVars
  <2>7. Tables(db.version) \cup db.imm \subseteq (Tables(db.version) \cup db.imm)'
    BY <1>7, <2>1
  <2> QED BY <1>1, <1>2, <1>3, <1>7, <1>9, <2>2, <2>3, <2>4, <2>5, <2>6, <2>7, OpenKept
<1>14. WorkInv'
  <2>1. Tables(db.edit.add)' = Tables(db.edit.delete)'
    <3>1. /\ Tables(db.edit.add)' = UNION {Table(t) : t \in db.outputs}
          /\ Tables(db.edit.delete)' = UNION {Table(t) : t \in db.inputs}
      BY <1>6, <1>7, <1>9 DEF Tables
    <3> QED BY <1>11, <3>1 DEF Tables
  <2>2. db'.edit.delete \subseteq db'.version /\ db'.edit.add \cap db'.edit.delete = {}
    BY <1>3, <1>6, <1>7, <1>11 DEF MergingInv
  <2>3. \A D \in Dirs' : /\ D.current = db'.manifest
                         /\ \A t \in db'.edit.add : Whole(t, D.names)'
    <3> SUFFICES ASSUME NEW D \in Dirs'
                 PROVE  /\ D.current = db'.manifest
                        /\ \A t \in db'.edit.add : Whole(t, D.names)'
      OBVIOUS
    <3>1. D.current = db.manifest
      <4>1. PICK t \in db.inputs : t \in db.version BY <1>2, <1>3 DEF MergingInv
      <4>2. Table(t) # {} /\ Table(t) \subseteq Tables(db.inputs)
        BY <1>3, <4>1 DEF RunningInv, Whole, Tables
      <4>3. Tables(db.outputs) # {} BY <1>11, <4>2
      <4>4. PICK u \in db.outputs : TRUE BY <4>3 DEF Tables
      <4> QED BY <1>3, <1>9, <4>4 DEF MergingInv
    <3>2. \A t \in db.outputs : Whole(t, D.names) BY <1>3, <1>9 DEF MergingInv
    <3>3. \A t : Whole(t, D.names)' <=> Whole(t, D.names) BY <1>9
    <3> QED BY <1>6, <1>7, <3>1, <3>2, <3>3
  <2>4. /\ db'.edit.log = db'.logNumber /\ Possible(Directory)' = {Latest'}
        /\ Latest'.tables = db'.version /\ Latest'.log = db'.logNumber
    BY <1>4, <1>6, <1>7, <1>9
  <2> QED BY <1>1, <1>7, <2>1, <2>2, <2>3, <2>4 DEF WorkInv
<1>15. MergeInv'
  <2>2. \A t \in Live : TableStays(t) BY <1>2, <1>9, LiveNumbers
  <2>3. db'.next >= db.next BY <1>3, <1>7 DEF Database
  <2>4. db.inputs \subseteq db'.version /\ Produced \subseteq db'.pending
    BY <1>3, <1>7 DEF MergingInv
  <2> QED BY <1>1, <1>2, <1>3, <1>7, <1>9, <2>2, <2>3, <2>4, MergeKept
<1> QED BY <1>7, <1>8, <1>10, <1>12, <1>13, <1>14, <1>15, OpenedPhase DEF Inv

\* The background thread's work, which the iterators do not see.
LEMMA WorkStill ==
    ASSUME WorkInv, UNCHANGED <<diskVars, pc, db>>
    PROVE  WorkInv'
<1>1. files' = files /\ directories' = directories /\ pc' = pc /\ db' = db BY DEF diskVars
<1>2. /\ Directory' = Directory /\ Dirs' = Dirs /\ Latest' = Latest
      /\ Possible(Directory)' = Possible(Directory)
      /\ \A n, names : Whole(n, names)' <=> Whole(n, names)
  BY Still
<1>3. NewTables' = NewTables /\ Tables(db.edit.add)' = Tables(db.edit.add)
      /\ Tables(db.edit.delete)' = Tables(db.edit.delete)
  BY <1>1 DEF NewTables, Tables, Table
<1> QED BY <1>1, <1>2, <1>3 DEF WorkInv

LEMMA IteratorsKeep ==
    ASSUME Inv, NewIterator \/ DeleteIterator
    PROVE  Inv'
<1>1. /\ db.opened
      /\ UNCHANGED <<diskVars, pc, db, writer, calls, crashes, historyVars>>
  BY DEF NewIterator, DeleteIterator, Unlocked, countVars
<1>2. db \in Database /\ MemoryType /\ WorkInv /\ OpenInv /\ db.described BY <1>1, OpenFacts
<1>3. /\ pins' \subseteq Nat \X SUBSET Nat /\ iterators' \in Nat
      /\ \A t \in Pinned' : t \in Pinned \/ t \in db.version
  <2>1. CASE NewIterator
    <3>1. pins' = pins \cup {<<iterators, db.version>>} /\ iterators' = iterators + 1
      BY <2>1 DEF NewIterator
    <3>2. iterators \in Nat /\ db.version \in SUBSET Nat /\ pins \subseteq Nat \X SUBSET Nat
      BY <1>2 DEF MemoryType, Database
    <3>3. \A p \in pins' : p \in pins \/ p[2] = db.version BY <3>1
    <3> QED BY <3>1, <3>2, <3>3 DEF Pinned
  <2>2. CASE DeleteIterator
    <3>1. pins' \subseteq pins /\ iterators' = iterators BY <2>2 DEF DeleteIterator, countVars
    <3> QED BY <1>2, <3>1 DEF MemoryType, Pinned
  <2> QED BY <2>1, <2>2
<1>4. MemoryType' BY <1>1, <1>2, <1>3 DEF MemoryType
<1>5. DiskInv' /\ RunningInv' /\ OpenInv' BY <1>1, <1>2, <1>3, <1>4, StillKept DEF OpenInv
<1>6. WorkInv' BY <1>1, <1>2, WorkStill
<1>7. MergeInv'
  <2>1. Dirs' = Dirs /\ \A t \in Nat : TableStays(t) BY <1>1, Still
  <2>2. db'.next >= db.next BY <1>1, <1>2 DEF Database
  <2> QED BY <1>1, <1>2, <2>1, <2>2, MergeStill
<1> QED BY <1>1, <1>4, <1>5, <1>6, <1>7, OpenedPhase DEF Inv

LEMMA KillKeeps ==
    ASSUME Inv, Kill
    PROVE  Core'
<1>1. /\ MemoryType /\ DiskType /\ DirInv /\ ImagesInv /\ AckInv BY DEF Inv, Core, DiskInv
<1>2. /\ MemoryLost /\ UNCHANGED <<diskVars, acked, unborn>> BY DEF Kill
<1>3. UNCHANGED <<calls, synced>> BY <1>2 DEF MemoryLost
<1>4. View({}) BY <1>2, Still
<1>5. DiskInv'
  <2>1. DiskType' /\ DirInv' /\ ImagesInv' BY <1>1, <1>2, <1>3, DiskStill
  <2>2. AckInv' BY <1>1, <1>2, <1>3, <1>4, AckKept
  <2> QED BY <2>1, <2>2 DEF DiskInv
<1> QED BY <1>1, <1>2, <1>5, Down DEF Inv, Core

LEMMA LosePowerKeeps ==
    ASSUME Inv, LosePower
    PROVE  Core'
<1>1. /\ MemoryType /\ DiskType /\ DirInv /\ ImagesInv /\ AckInv BY DEF Inv, Core, DiskInv
<1>2. MemoryLost BY DEF LosePower
<1>3. DiskInv' BY <1>1, PowerLost DEF DiskInv
<1> QED BY <1>1, <1>2, <1>3, Down DEF Inv, Core

-----------------------------------------------------------------------------
(* DeleteObsoleteFiles.                                                     *)

LEMMA CleanFacts ==
    ASSUME Inv, pc = "clean"
    PROVE  /\ ~Opening /\ (db.opened \/ Recovering) /\ (~db.opened <=> Recovering)
           /\ Readable /\ DiskType /\ DirInv /\ ImagesInv /\ AckInv /\ MemoryType
           /\ db \in Database /\ Directory \in Dirs /\ Latest \in Edit /\ Directory.current # 0
           /\ Possible(Directory) = {Latest}
           /\ Latest.tables = db.version /\ Latest.log = db.logNumber
           /\ Directory.current = db.manifest /\ db.edit = NoEdit /\ db.described /\ db.todo = {}
           /\ <<"log", db.log>> \in Directory.names /\ db.logNumber <= db.log
<1>1. ~Opening BY DEF Opening
<1>2. (db.opened \/ Recovering) /\ (~db.opened <=> Recovering) BY DEF Recovering
<1>3. CASE db.opened
  <2>1. /\ OpenInv /\ WorkInv /\ DiskType /\ DirInv /\ ImagesInv /\ AckInv /\ MemoryType
        /\ Readable /\ db \in Database /\ Directory \in Dirs /\ Latest \in Edit
        /\ Directory.current # 0 /\ db.todo = {} /\ db.described
    BY <1>3, OpenFacts
  <2>2. /\ Possible(Directory) = {Latest}
        /\ Latest.tables = db.version /\ Latest.log = db.logNumber /\ db.edit = NoEdit
    BY <1>3, <2>1 DEF WorkInv
  <2>3. /\ Directory.current = db.manifest
        /\ <<"log", db.log>> \in Directory.names /\ db.logNumber <= db.log
    BY <1>3, <2>1 DEF OpenInv
  <2> QED BY <1>1, <1>2, <2>1, <2>2, <2>3
<1>4. CASE ~db.opened
  <2>1. /\ RecoveringInv /\ DiskType /\ DirInv /\ ImagesInv /\ AckInv /\ MemoryType
        /\ Readable /\ db \in Database /\ Directory \in Dirs /\ Latest \in Edit
        /\ Directory.current # 0 /\ db.todo = {}
    BY <1>2, <1>4, RecoveringFacts
  <2>2. /\ Possible(Directory) = {Latest} /\ db.logNumber = db.log
        /\ Latest.tables = NewTables /\ Latest.log = db.log /\ db.edit = NoEdit
        /\ Directory.current = db.manifest /\ db.described
        /\ <<"log", db.log>> \in Directory.names
    BY <1>2, <1>4, <2>1 DEF RecoveringInv
  <2>3. NewTables = db.version BY <2>2 DEF NewTables, NoEdit
  <2>4. db.log \in Nat BY <2>1 DEF Database
  <2> QED BY <1>1, <1>2, <2>1, <2>2, <2>3, <2>4
<1> QED BY <1>3, <1>4

\* DB::Open returns, or the background thread has cleaned up.
LEMMA CleanedKeeps ==
    ASSUME Inv, DeleteObsoleteFiles, Obsolete = {}
    PROVE  Inv'
<1>1. /\ pc = "clean" /\ pc' \in {"idle", "merge"} /\ (pc' = "merge" => db.inputs # {})
      /\ db' = [db EXCEPT !.opened = TRUE]
      /\ UNCHANGED <<diskVars, writer, pins, countVars, historyVars>>
  BY DEF DeleteObsoleteFiles, Alone, diskVars
<1>2. /\ ~Opening /\ (db.opened \/ Recovering)
      /\ Readable /\ DiskType /\ DirInv /\ ImagesInv /\ AckInv /\ MemoryType
      /\ db \in Database /\ Directory \in Dirs
      /\ Possible(Directory) = {Latest}
      /\ Latest.tables = db.version /\ Latest.log = db.logNumber
      /\ Directory.current = db.manifest /\ db.edit = NoEdit /\ db.described /\ db.todo = {}
      /\ <<"log", db.log>> \in Directory.names /\ db.logNumber <= db.log
  BY <1>1, CleanFacts
<1>3. /\ db' \in Database /\ db'.opened = TRUE /\ db'.described
      /\ db'.next = db.next /\ db'.log = db.log /\ db'.manifest = db.manifest
      /\ db'.logNumber = db.logNumber /\ db'.last = db.last /\ db'.version = db.version
      /\ db'.mem = db.mem /\ db'.imm = db.imm /\ db'.todo = db.todo /\ db'.edit = db.edit
      /\ db'.pending = db.pending /\ db'.inputs = db.inputs /\ db'.left = db.left
      /\ db'.outputs = db.outputs /\ db'.builder = db.builder
  <2>1. db \in Database BY <1>2
  <2> QED BY <1>1, <1>2, <2>1 DEF Database
<1>4. MemoryType' BY <1>1, <1>2, <1>3 DEF MemoryType, Pc, countVars
<1>5. Latest' = Latest /\ Possible(Directory)' = Possible(Directory) /\ Directory' = Directory
  BY <1>1, Still
<1>6. WorkInv' BY <1>1, <1>2, <1>3, <1>5 DEF WorkInv
<1>7. DiskInv' /\ RunningInv' /\ OpenInv'
  <2>1. Pinned' = Pinned BY <1>1 DEF Pinned
  <2>2. CASE db.opened BY <1>1, <1>2, <1>3, <1>4, <2>1, <2>2, StillKept DEF countVars
  <2>3. CASE ~db.opened
    <3>1. /\ RecoveringInv /\ RunningInv /\ Recovering
          /\ writer = NoWrite /\ pins = {} /\ db.mem = {} /\ db.imm = {}
          /\ NewTables = db.version \cup db.edit.add
          /\ LogEntries(db.log) = {}
          /\ \A n \in LiveLogs(Directory, Latest) : n <= db.log
      BY <1>2, <2>3, RecoveringFacts
    <3>2. /\ View({}) /\ \A t \in Nat : TableStays(t)
          /\ \A n : Table(n)' = Table(n) /\ SyncedEntries(n)' = SyncedEntries(n)
                    /\ LogEntries(n)' = LogEntries(n)
          /\ LiveLogs(Directory, Latest)' = LiveLogs(Directory, Latest)
      BY <1>1, Still
    <3>3. DiskInv'
      <4>1. UNCHANGED <<diskVars, synced, unborn>> BY <1>1 DEF historyVars
      <4>2. AckInv' BY <1>1, <1>2, <3>2, AckKept DEF historyVars, countVars
      <4> QED BY <1>2, <4>1, <4>2, DiskStill DEF DiskInv
    <3>4. RunningInv'
      <4>1. LastGiven' = LastGiven /\ LastGiven \in Nat
        BY <1>1, <1>2, <1>3, <3>1 DEF LastGiven, Database
      <4>2. /\ db'.next >= db.next /\ db'.last >= db.last /\ db'.manifest < db'.next
            /\ LastGiven' \in Nat /\ LastGiven' >= LastGiven
        BY <1>2, <1>3, <3>1, <4>1 DEF RunningInv, Database
      <4>3. \A t \in db'.version \cup db'.edit.add : t \in db.version \cup db.edit.add /\ TableStays(t)
        <5>1. \A t \in db.version \cup db.edit.add : t \in Nat BY <1>2 DEF Database
        <5> QED BY <1>3, <3>2, <5>1
      <4>4. \A e \in db'.mem \cup db'.imm : e \in db.mem \cup db.imm BY <1>3
      <4> QED BY <1>2, <1>3, <1>4, <3>2, <4>2, <4>3, <4>4, RunningKept
    <3>5. /\ db.next = db.log + 1 /\ db.logNumber = db.log /\ Latest.log = db.log
          /\ acked \subseteq Writes(Tables(NewTables))
      BY <1>1, <3>1 DEF RecoveringInv
    <3>6. NewTables = db.version BY <1>2, <3>1 DEF NoEdit
    <3>7. db.log \in Nat /\ db.next \in Nat BY <1>2 DEF Database
    <3>8. Tables(db.version)' = Tables(db.version) BY <1>3, <3>2 DEF Tables
    <3>9. acked' \subseteq Writes(Contents)'
      <4>1. Contents' = Tables(db.version) BY <1>3, <3>1, <3>8 DEF Contents, Tables
      <4>2. Writes(Contents)' = Writes(Tables(db.version)) BY <4>1 DEF Writes
      <4> QED BY <1>1, <3>5, <3>6, <4>2 DEF historyVars
    <3>10. synced' \subseteq Writes(Tables(db.version) \cup db.imm \cup SyncedEntries(db.log))'
      <4> DEFINE kept == Tables(db.version) \cup db.imm \cup SyncedEntries(db.log)
      <4>1. Tables(db.version) \subseteq kept' BY <3>8
      <4>2. Writes(kept)' = Writes(kept') BY DEF Writes
      <4>3. synced \subseteq Writes(Tables(db.version)) BY <1>2, <3>5, <3>6 DEF AckInv
      <4> QED BY <1>1, <4>1, <4>2, <4>3, WritesGrow DEF historyVars
    <3>11. \A n \in LiveLogs(Directory, Latest) : n = db.log
      <4>1. \A n \in LiveLogs(Directory, Latest) : n \in Nat /\ Latest.log <= n BY <1>2, LiveLog
      <4> QED BY <3>1, <3>5, <3>7, <4>1
    <3>12. LogEntries(db.log)' = {}
      <4>1. PICK log : log = db.log OBVIOUS
      <4>2. LogEntries(db.log)' = LogEntries(log)' BY <1>3, <4>1 DEF LogEntries
      <4> QED BY <3>1, <3>2, <4>1, <4>2
    <3>13. Pinned' = {} BY <2>1, <3>1 DEF Pinned
    <3>14. \A r \in Possible(Directory)' : r.log <= db'.log BY <1>2, <1>3, <1>5, <3>5, <3>7
    <3>15. /\ \A n \in LiveLogs(Directory, Latest)' : n <= db'.log
           /\ \A n \in LiveLogs(Directory, Latest)' \ {db'.log} :
                    \A e \in LogEntries(n)' : e.sequence <= db'.last
      BY <1>3, <3>1, <3>2, <3>11
    <3>16. OpenInv'
      <4>1. /\ db'.described /\ Directory'.current = db'.manifest /\ db'.todo = {}
            /\ <<"log", db'.log>> \in Directory'.names /\ db'.log < db'.next
            /\ db'.logNumber <= db'.log
        BY <1>2, <1>3, <1>5, <3>5, <3>7
      <4>2. writer' = NoWrite /\ db'.mem = {} BY <1>1, <1>3, <3>1
      <4> QED BY <1>1, <3>9, <3>10, <3>12, <3>13, <3>14, <3>15, <4>1, <4>2 DEF OpenInv
    <3> QED BY <3>3, <3>4, <3>16
  <2> QED BY <2>2, <2>3
<1>8. MergeInv'
  <2>1. Dirs' = Dirs /\ \A t \in Nat : TableStays(t) BY <1>1, Still
  <2>2. db'.next >= db.next BY <1>2, <1>3 DEF Database
  <2>3. db.inputs # {} =>
            /\ db.inputs \subseteq db'.version /\ Produced \subseteq db'.pending
            /\ \A t \in Live : TableStays(t)
    BY <1>3, <2>1, MergeFacts, LiveNumbers DEF MergingInv
  <2> QED BY <1>1, <1>2, <1>3, <2>1, <2>2, <2>3, MergeKept
<1> QED BY <1>3, <1>4, <1>6, <1>7, <1>8, OpenedPhase DEF Inv

\* A file that is deleted is of no image and of no version in use.
LEMMA DeletedKeeps ==
    ASSUME Inv, DeleteObsoleteFiles, Obsolete # {}
    PROVE  Inv'
<1>1. /\ pc = "clean" /\ UNCHANGED <<files, pc, db, writer, pins, countVars, historyVars>>
  BY DEF DeleteObsoleteFiles, Alone
<1>2. PICK name \in Obsolete :
        directories' = Append(directories, [Directory EXCEPT !.names = @ \ {name}])
  BY DEF DeleteObsoleteFiles
<1>3. /\ ~Opening /\ (db.opened \/ Recovering)
      /\ Readable /\ DiskType /\ DirInv /\ ImagesInv /\ AckInv /\ MemoryType
      /\ db \in Database /\ Directory \in Dirs /\ Latest \in Edit /\ Directory.current # 0
      /\ Possible(Directory) = {Latest}
      /\ Latest.tables = db.version /\ Latest.log = db.logNumber
      /\ Directory.current = db.manifest /\ db.edit = NoEdit /\ db.described /\ db.todo = {}
      /\ <<"log", db.log>> \in Directory.names /\ db.logNumber <= db.log
  BY <1>1, CleanFacts
<1>4. /\ name \in Directory.names
      /\ \/ name[1] = "log" /\ name[2] < db.logNumber
         \/ name[1] = "manifest" /\ name[2] < db.manifest
         \/ name[1] \in {"table", "temp"} /\ name[2] \notin Live
  BY DEF Obsolete
<1>5. db.logNumber \in Nat /\ db.manifest \in Nat /\ db.log \in Nat BY <1>3 DEF Database
<1>6. /\ name # Manifest(Directory)
      /\ \A t \in Live : name # <<"table", t>>
      /\ \A n \in Nat : db.logNumber <= n => name # <<"log", n>>
  BY <1>3, <1>4, <1>5 DEF Manifest
<1>7. \A n \in LiveLogs(Directory, Latest) : name # <<"log", n>>
  <2>1. \A n \in LiveLogs(Directory, Latest) : n \in Nat /\ Latest.log <= n BY <1>3, LiveLog
  <2> QED BY <1>3, <1>6, <2>1
<1>8. \A t \in Latest.tables : name # <<"table", t>> BY <1>3, <1>6 DEF Live
<1>9. PICK D : D = [Directory EXCEPT !.names = @ \ {name}] OBVIOUS
<1>10. D \in Dir /\ D.names = Directory.names \ {name} /\ D.current = Directory.current
  <2>1. Directory \in Dir BY <1>3, DirectoryShape
  <2> QED BY <1>9, <2>1 DEF Dir
<1>11. /\ DiskType' /\ DirInv' /\ ImagesInv' /\ View({}) /\ Directory' = D
       /\ Possible(Directory)' = Possible(Directory)
       /\ \A t \in Nat : name # <<"table", t>> => TableStays(t)
  <2>1. directories' = Append(directories, D) /\ UNCHANGED <<files, synced, unborn>>
    BY <1>1, <1>2, <1>9 DEF historyVars
  <2> QED BY <1>3, <1>6, <1>7, <1>8, <1>10, <2>1, DeleteKeeps
<1>12. DiskInv'
  <2>1. AckInv' BY <1>1, <1>3, <1>11, AckKept DEF historyVars, countVars
  <2> QED BY <1>11, <2>1 DEF DiskInv
<1>13. MemoryType' BY <1>1, <1>3 DEF MemoryType, countVars
<1>14. \A t \in Live : t \in Nat /\ TableStays(t)
  <2>1. \A p \in pins : p[2] \subseteq Nat BY <1>3 DEF MemoryType
  <2>2. \A t \in Live : t \in Nat BY <1>3, <2>1 DEF Pinned, Live, Database
  <2> QED BY <1>6, <1>11, <2>2
<1>15. RunningInv'
  <2>1. LastGiven' = LastGiven /\ LastGiven \in Nat
    BY <1>1, <1>3 DEF LastGiven, MemoryType, Entry, Database
  <2>2. /\ db'.next >= db.next /\ db'.last >= db.last /\ db'.manifest < db'.next
        /\ LastGiven' \in Nat /\ LastGiven' >= LastGiven
    BY <1>1, <1>3, <2>1 DEF RunningInv, Database, Inv, Core
  <2>3. \A t \in db'.version \cup db'.edit.add : t \in db.version \cup db.edit.add /\ TableStays(t)
    BY <1>1, <1>3, <1>14 DEF Live, NoEdit
  <2>4. \A e \in db'.mem \cup db'.imm : e \in db.mem \cup db.imm BY <1>1
  <2> QED BY <1>1, <1>3, <1>11, <1>13, <2>2, <2>3, <2>4, RunningKept
<1>16. Latest' = Latest /\ Directory'.current = Directory.current BY <1>3, <1>11 DEF View
<1>17. <<"log", db.log>> \in Directory'.names
  BY <1>3, <1>5, <1>6, <1>10, <1>11
<1>18. ASSUME db.opened PROVE Core'
  <2>1. \A t \in db.version : Table(t)' = Table(t)
    <3>1. RunningInv BY DEF Inv, Core
    <3> QED BY <1>3, <1>14, <3>1 DEF TableStays, RunningInv, Whole, Live
  <2>2. Tables(db.version)' = Tables(db.version) BY <1>1, <2>1 DEF Tables
  <2>3. OpenInv'
    <3>1. Contents' = Contents BY <1>1, <2>2 DEF Contents, Tables
    <3>2. SyncedEntries(db.log)' = SyncedEntries(db.log) BY <1>1 DEF SyncedEntries
    <3>3. \A t \in Pinned' : (t \in Pinned \/ t \in db.version) /\ TableStays(t)
      BY <1>1, <1>14 DEF Pinned, Live
    <3>4. db'.next \in Nat /\ db'.next >= db.next BY <1>1, <1>3 DEF Database
    <3>5. UNCHANGED <<writer, calls, acked, synced>> BY <1>1 DEF countVars, historyVars
    <3>6. Tables(db.version) \cup db.imm \subseteq (Tables(db.version) \cup db.imm)'
      BY <1>1, <2>2
    <3> QED BY <1>1, <1>3, <1>11, <1>17, <1>18, <3>1, <3>2, <3>3, <3>4, <3>5, <3>6, OpenKept
  <2>4. WorkInv' BY <1>1, <1>3, <1>11, <1>16 DEF WorkInv
  <2> QED BY <1>1, <1>12, <1>13, <1>15, <1>18, <2>3, <2>4, OpenedPhase
<1>19. ASSUME ~db.opened PROVE Core'
  <2>1. /\ Recovering /\ RecoveringInv
        /\ writer = NoWrite /\ pins = {} /\ db.mem = {} /\ db.imm = {} /\ db.edit.delete = {}
        /\ NewTables = db.version \cup db.edit.add
    BY <1>3, <1>19, RecoveringFacts
  <2>2. /\ db'.next = db'.log + 1 /\ writer' = NoWrite /\ pins' = {}
        /\ files'[<<"log", db'.log>>].records = <<>> /\ <<"log", db'.log>> \in Directory'.names
        /\ acked' \subseteq Writes(Tables(NewTables))'
        /\ NewTables' = NewTables
    <3>1. \A t \in Nat : t \in NewTables => TableStays(t)
      BY <1>3, <1>14, <2>1 DEF Live, NoEdit
    <3>2. UNCHANGED <<writer, pins, acked>> BY <1>1 DEF historyVars
    <3> QED BY <1>1, <1>3, <1>11, <1>17, <1>19, <2>1, <3>1, <3>2, RecoveringKept
  <2>3. /\ db.logNumber = db.log /\ Latest.log = db.log /\ Latest.tables = NewTables
    BY <1>1, <2>1 DEF RecoveringInv
  <2>4. RecoveringInv'
    BY <1>1, <1>3, <1>11, <1>16, <2>1, <2>2, <2>3 DEF RecoveringInv
  <2>5. Recovering' BY <1>1, <2>1 DEF Recovering
  <2> QED BY <1>12, <1>13, <1>15, <2>4, <2>5, RecoveringPhase
<1>20. MergeInv'
  <2>1. db'.next >= db.next BY <1>1, <1>3 DEF Database
  <2>2. db.inputs # {} =>
            /\ db.inputs \subseteq db'.version /\ Produced \subseteq db'.pending
            /\ db.outputs \subseteq Live
    BY <1>1, MergeFacts DEF MergingInv, Produced
  <2>3. ASSUME db.inputs # {}, NEW E \in Dirs'
        PROVE  \E F \in Dirs :
                  /\ F.current = E.current
                  /\ \A t \in db.outputs : <<"table", t>> \in F.names => <<"table", t>> \in E.names
    <3>1. CASE E \in Dirs BY <3>1
    <3>2. CASE E \notin Dirs
      <4>1. E = D
        <5>1. Dirs' = Dirs \cup {D}
          <6>1. UNCHANGED files /\ directories' = Append(directories, D)
            BY <1>1, <1>2, <1>9
          <6>2. D.names \subseteq Directory.names BY <1>10
          <6>3. D \in Dir BY <1>10
          <6> QED BY <1>3, <6>1, <6>2, <6>3, Renames
        <5> QED BY <3>2, <5>1
      <4>2. \A t \in db.outputs : <<"table", t>> # name BY <1>6, <2>2, <2>3
      <4> QED BY <1>3, <1>10, <4>1, <4>2
    <3> QED BY <3>1, <3>2
  <2>4. pc' # "merge" /\ pc' # "sync" BY <1>1
  <2> QED BY <1>1, <1>3, <1>14, <2>1, <2>2, <2>3, <2>4, MergeKept
<1> QED BY <1>18, <1>19, <1>20 DEF Inv

-----------------------------------------------------------------------------
(* What the clients do, at any moment of the background thread's work.      *)

LEMMA WorkKept ==
    ASSUME Inv, db.opened, UNCHANGED pc, DiskType', DirInv', Readable', Latest' = Latest,
           Possible(Directory)' \subseteq Possible(Directory),
           Directory.names \subseteq Directory'.names,
           \A t \in Nat : <<"table", t>> \in Directory.names =>
                files'[<<"table", t>>] = files[<<"table", t>>],
           \A D \in Dirs' : \E E \in Dirs : E.current = D.current /\ E.names \subseteq D.names,
           db'.work = db.work, db'.edit = db.edit, db'.version = db.version,
           db'.output = db.output, db'.logNumber = db.logNumber, db'.manifest = db.manifest,
           db'.next >= db.next, db'.next \in Nat,
           (db'.imm = db.imm /\ db'.log = db.log) \/ db.imm = {}
    PROVE  WorkInv'
<1>1. /\ OpenInv /\ WorkInv /\ RunningInv /\ db \in Database /\ DiskType /\ Directory \in Dirs
      /\ ~Opening
  BY OpenFacts
<1>2. pc # "syncManifest" => Possible(Directory)' = {Latest'}
  <2>1. Latest' \in Possible(Directory)' BY LatestNext
  <2>2. pc # "syncManifest" => Possible(Directory) = {Latest} BY <1>1 DEF WorkInv
  <2> QED BY <2>1, <2>2
<1>3. \A t \in db.version \cup db.edit.add :
        /\ t \in Nat /\ <<"table", t>> \in Directory.names
        /\ files'[<<"table", t>>] = files[<<"table", t>>] /\ Table(t)' = Table(t)
  <2>1. \A t \in db.version \cup db.edit.add : t \in Nat /\ <<"table", t>> \in Directory.names
    BY <1>1 DEF RunningInv, Whole, Database
  <2> QED BY <2>1 DEF Table
<1>4. pc \in {"apply", "syncManifest", "install"} => db.edit.delete \subseteq db.version
  BY <1>1 DEF WorkInv
<1>5. /\ Tables(db.edit.add)' = Tables(db.edit.add)
      /\ db.edit.delete \subseteq db.version => Tables(db.edit.delete)' = Tables(db.edit.delete)
  <2>1. Tables(db.edit.add)' = UNION {Table(t)' : t \in db.edit.add} BY DEF Tables
  <2>2. Tables(db.edit.delete)' = UNION {Table(t)' : t \in db.edit.delete} BY DEF Tables
  <2>3. \A t \in db.edit.add : Table(t)' = Table(t) BY <1>3
  <2>4. db.edit.delete \subseteq db.version => \A t \in db.edit.delete : Table(t)' = Table(t)
    BY <1>3
  <2> QED BY <2>1, <2>2, <2>3, <2>4 DEF Tables
<1>6. NewTables' = NewTables BY DEF NewTables
<1>7. pc \notin {"idle", "merge", "clean"} /\ db.work = "flush" =>
            db'.imm = db.imm /\ db'.log = db.log
  BY <1>1 DEF WorkInv
<1>8. pc = "sync" =>
            /\ <<"table", db'.output>> \in Directory'.names
            /\ files'[<<"table", db'.output>>].records = <<db'.imm>>
            /\ 0 < db'.output /\ db'.output < db'.next
  <2> SUFFICES ASSUME pc = "sync"
               PROVE  /\ <<"table", db.output>> \in Directory'.names
                      /\ files'[<<"table", db.output>>].records = <<db'.imm>>
                      /\ 0 < db.output /\ db.output < db'.next
    OBVIOUS
  <2>1. /\ <<"table", db.output>> \in Directory.names
        /\ files[<<"table", db.output>>].records = <<db.imm>>
        /\ 0 < db.output /\ db.output < db.next
    BY <1>1 DEF WorkInv
  <2>2. db'.imm = db.imm BY <1>1, <1>7 DEF WorkInv
  <2>3. db.output \in Nat /\ db.next \in Nat BY <1>1 DEF Database
  <2>4. files'[<<"table", db.output>>] = files[<<"table", db.output>>] BY <2>1, <2>3
  <2>5. db.output < db'.next BY <2>1, <2>3
  <2> QED BY <2>1, <2>2, <2>4, <2>5
<1>9. pc \in {"apply", "syncManifest", "install"} =>
            /\ db.edit.delete \subseteq db.version /\ db.edit.add \cap db.edit.delete = {}
            /\ db.edit.log = IF db.work = "merge" THEN db.logNumber ELSE db'.log
            /\ Tables(db.edit.add)'
                    = IF db.work = "merge" THEN Tables(db.edit.delete)' ELSE db'.imm
  <2> SUFFICES ASSUME pc \in {"apply", "syncManifest", "install"}
               PROVE  /\ db.edit.delete \subseteq db.version
                      /\ db.edit.add \cap db.edit.delete = {}
                      /\ db.edit.log = IF db.work = "merge" THEN db.logNumber ELSE db'.log
                      /\ Tables(db.edit.add)'
                            = IF db.work = "merge" THEN Tables(db.edit.delete)' ELSE db'.imm
    OBVIOUS
  <2>1. /\ db.edit.delete \subseteq db.version /\ db.edit.add \cap db.edit.delete = {}
        /\ db.edit.log = IF db.work = "merge" THEN db.logNumber ELSE db.log
        /\ Tables(db.edit.add) = IF db.work = "merge" THEN Tables(db.edit.delete) ELSE db.imm
        /\ db.work \in {"flush", "merge"}
    BY <1>1 DEF WorkInv
  <2>2. db.work = "flush" => db'.imm = db.imm /\ db'.log = db.log BY <1>7
  <2> QED BY <1>5, <2>1, <2>2
<1>10. pc = "apply" => \A D \in Dirs' :
            /\ D.current = db'.manifest /\ \A t \in db.edit.add : Whole(t, D.names)'
            /\ db'.work = "flush" => <<"log", db'.log>> \in D.names
  <2> SUFFICES ASSUME pc = "apply", NEW D \in Dirs'
               PROVE  /\ D.current = db'.manifest /\ \A t \in db.edit.add : Whole(t, D.names)'
                      /\ db'.work = "flush" => <<"log", db'.log>> \in D.names
    OBVIOUS
  <2>1. PICK E \in Dirs : E.current = D.current /\ E.names \subseteq D.names OBVIOUS
  <2>2. /\ E.current = db.manifest /\ \A t \in db.edit.add : Whole(t, E.names)
        /\ db.work = "flush" => <<"log", db.log>> \in E.names
    BY <1>1 DEF WorkInv
  <2>3. \A t \in db.edit.add : Whole(t, D.names)' BY <1>3, <2>1, <2>2 DEF Whole
  <2> QED BY <1>7, <2>1, <2>2, <2>3
<1>11. /\ pc \in {"idle", "merge", "clean"} => db'.edit = NoEdit
       /\ pc \in {"build", "sync"} => db'.work = "flush" /\ db'.edit = NoEdit
       /\ pc \notin {"idle", "merge", "clean"} =>
            /\ db'.work \in {"flush", "merge"}
            /\ db'.work = "flush" => db'.imm # {} /\ db'.edit.delete = {}
       /\ pc \notin {"syncManifest", "install"} =>
                (Latest').tables = db'.version /\ (Latest').log = db'.logNumber
       /\ pc \in {"syncManifest", "install"} =>
                (Latest').tables = NewTables' /\ (Latest').log = db'.edit.log
  BY <1>1, <1>6, <1>7 DEF WorkInv
<1> QED BY <1>2, <1>8, <1>9, <1>10, <1>11 DEF WorkInv

\* The memtable becomes the immutable one, and its log an old one.
LEMMA SwitchMemTableKeeps ==
    ASSUME Inv, SwitchMemTable
    PROVE  Inv'
<1>1. /\ db.opened /\ pc # "clean" /\ writer = NoWrite /\ db.imm = {}
      /\ Create(<<"log", db.next>>, <<>>)
      /\ db' = [db EXCEPT !.log = db.next, !.next = @ + 1, !.imm = db.mem, !.mem = {}]
      /\ UNCHANGED <<pc, writer, pins, countVars, historyVars>>
  BY DEF SwitchMemTable, Unlocked
<1>2. /\ Readable /\ DiskType /\ DirInv /\ ImagesInv /\ AckInv /\ db \in Database /\ MemoryType
      /\ OpenInv /\ RunningInv /\ Latest \in Edit /\ Latest \in Possible(Directory)
      /\ Directory \in Dirs /\ db.todo = {} /\ db.described /\ ~Opening
      /\ db.log \in LiveLogs(Directory, Latest) /\ Latest.log <= db.log
  BY <1>1, OpenFacts
<1>3. /\ db.log \in Nat /\ db.next \in Nat /\ db.log < db.next /\ db.logNumber \in Nat
      /\ db.logNumber <= db.log /\ Latest.log \in Nat
  BY <1>1, <1>2 DEF OpenInv, Database, Edit
<1>4. PICK next \in Nat : next = db.next /\ next > 0 /\ Latest.log <= next BY <1>2, <1>3
<1> DEFINE name == <<"log", next>>
<1>5. /\ name \in Name /\ name # <<"log", 0>> /\ name[1] = "log" /\ name[2] = next
      /\ <<>> \in Seq(Content(name[1])) /\ Create(name, <<>>) /\ Unused(name)
      /\ \A t \in Nat : name # <<"table", t>>
  BY <1>1, <1>2, <1>4, FreeNumbers DEF Name
<1> HIDE DEF name
<1>6. UNCHANGED <<synced, unborn>> BY <1>1 DEF historyVars
<1>7. /\ DiskType' /\ DirInv' /\ ImagesInv' /\ View({next}) /\ \A t \in Nat : TableStays(t)
  BY <1>2, <1>4, <1>5, <1>6, CreateKeeps
<1>8. /\ Directory'.names = Directory.names \cup {name}
      /\ Directory'.current = Directory.current /\ Dirs' = Dirs \cup {Directory'}
      /\ \A n \in DOMAIN files \ {name} : files'[n] = files[n]
      /\ files'[name] = [records |-> <<>>, durable |-> 0]
  BY <1>2, <1>5, Creates
<1>9. AckInv' BY <1>1, <1>2, <1>7, AckKept DEF historyVars, countVars
<1>10. PICK mem \in SUBSET Entry : mem = db.mem BY <1>2 DEF Database
<1>11. /\ db' \in Database /\ db'.log = next /\ db'.next = next + 1 /\ db'.imm = mem
       /\ db'.mem = {} /\ db'.opened /\ db'.described /\ db'.last = db.last
       /\ db'.manifest = db.manifest /\ db'.version = db.version /\ db'.edit = db.edit
       /\ db'.todo = {} /\ db'.logNumber = db.logNumber /\ db'.work = db.work
       /\ db'.output = db.output /\ db'.pending = db.pending /\ db'.inputs = db.inputs
       /\ db'.left = db.left /\ db'.outputs = db.outputs /\ db'.builder = db.builder
  <2>1. db \in Database /\ db.opened /\ db.described /\ db.todo = {} BY <1>1, <1>2
  <2>2. next \in Nat /\ next + 1 \in Nat OBVIOUS
  <2>3. db' = [db EXCEPT !.log = next, !.next = next + 1, !.imm = mem, !.mem = {}]
    BY <1>1, <1>4, <1>10, <2>1 DEF Database
  <2> QED BY <2>1, <2>2, <2>3 DEF Database
<1>12. MemoryType' BY <1>1, <1>2, <1>11 DEF MemoryType, countVars
<1>13. /\ Readable' /\ Latest' = Latest /\ Possible(Directory)' \subseteq Possible(Directory)
       /\ LiveLogs(Directory, Latest)' = LiveLogs(Directory, Latest) \cup {next}
       /\ \A n \in LiveLogs(Directory, Latest) : LogEntries(n)' = LogEntries(n)
       /\ LogEntries(next)' = {}
  BY <1>2, <1>7 DEF View
<1>14. LastGiven' = db.last /\ LastGiven = db.last BY <1>1, <1>11 DEF LastGiven
<1>15. RunningInv'
  <2>1. /\ db'.next >= db.next /\ db'.last >= db.last /\ db'.manifest < db'.next
        /\ LastGiven' \in Nat /\ LastGiven' >= LastGiven
    BY <1>2, <1>3, <1>4, <1>11, <1>14 DEF RunningInv, Database
  <2>2. \A t \in db'.version \cup db'.edit.add : t \in db.version \cup db.edit.add /\ TableStays(t)
    <3>1. \A t \in db.version \cup db.edit.add : t \in Nat BY <1>2 DEF Database
    <3> QED BY <1>7, <1>11, <3>1
  <2>3. \A n \in {next} : n < db'.next BY <1>11
  <2>4. \A e \in db'.mem \cup db'.imm : e \in db.mem \cup db.imm BY <1>10, <1>11
  <2> QED BY <1>2, <1>7, <1>11, <1>12, <2>1, <2>2, <2>3, <2>4, RunningKept
<1>16. \A t \in db.version : Table(t)' = Table(t)
  BY <1>2, <1>7 DEF RunningInv, Whole, TableStays, Database
<1>17. Tables(db.version)' = Tables(db.version) BY <1>11, <1>16 DEF Tables
<1>18. LogEntries(db.log) \subseteq db.mem BY <1>1, <1>2 DEF OpenInv
<1>19. OpenInv'
  <2>1. Contents' = Contents BY <1>1, <1>10, <1>11, <1>17 DEF Contents, Tables
  <2>2. acked' \subseteq Writes(Contents)'
    <3>1. Writes(Contents)' = Writes(Contents) BY <2>1 DEF Writes
    <3> QED BY <1>1, <1>2, <3>1 DEF OpenInv, historyVars
  <2>3. synced' \subseteq Writes(Tables(db.version) \cup db.imm \cup SyncedEntries(db.log))'
    <3> DEFINE old == Tables(db.version) \cup db.imm \cup SyncedEntries(db.log)
    <3>1. SyncedEntries(db.log) \subseteq LogEntries(db.log) BY <1>2, LogShape
    <3>2. old \subseteq old' BY <1>1, <1>10, <1>11, <1>17, <1>18, <3>1
    <3>3. synced \subseteq Writes(old) BY <1>1, <1>2 DEF OpenInv
    <3>4. Writes(old)' = Writes(old') BY DEF Writes
    <3> HIDE DEF old
    <3>5. synced \subseteq Writes(old)' BY <3>2, <3>3, <3>4, WritesGrow
    <3> QED BY <1>1, <3>5 DEF historyVars, old
  <2>4. \A t \in Pinned' : /\ <<"table", t>> \in Directory'.names /\ Table(t)' # {}
                           /\ 0 < t /\ t < db'.next
    <3>1. Pinned' = Pinned BY <1>1 DEF Pinned
    <3>2. \A p \in pins : p[2] \subseteq Nat BY <1>2 DEF MemoryType
    <3>3. \A t \in Pinned : t \in Nat BY <3>2 DEF Pinned
    <3>4. \A t \in Pinned : <<"table", t>> \in Directory.names /\ Table(t) # {} /\ 0 < t /\ t < db.next
      BY <1>1, <1>2 DEF OpenInv
    <3>5. next = db.next /\ db'.next = next + 1 BY <1>4, <1>11
    <3>6. ASSUME NEW t \in Pinned PROVE t < db'.next
      <4>1. t \in Nat /\ t < next BY <3>3, <3>4, <3>5
      <4> QED BY <3>5, <4>1
    <3> QED BY <1>7, <3>1, <3>3, <3>4, <3>6 DEF TableStays
  <2>5. \A r \in Possible(Directory)' : r.log <= db'.log
    <3>1. \A r \in Possible(Directory) : r.log <= db.log /\ r.log \in Nat
      BY <1>1, <1>2, ManifestShape DEF OpenInv, Edit, Readable
    <3> QED BY <1>3, <1>4, <1>11, <1>13, <3>1
  <2>6. \A n \in LiveLogs(Directory, Latest)' : n <= db'.log
    <3>1. \A n \in LiveLogs(Directory, Latest) : n \in Nat /\ n <= db.log
      BY <1>1, <1>2, LogShape DEF OpenInv
    <3> QED BY <1>3, <1>4, <1>11, <1>13, <3>1
  <2>7. \A n \in LiveLogs(Directory, Latest)' \ {db'.log} :
                \A e \in LogEntries(n)' : e.sequence <= db'.last
    <3>1. \A e \in db.mem : e.sequence <= db.last BY <1>2 DEF RunningInv
    <3>2. \A e \in LogEntries(db.log) : e.sequence <= db.last BY <1>18, <3>1
    <3>3. \A n \in LiveLogs(Directory, Latest) \ {db.log} :
                \A e \in LogEntries(n) : e.sequence <= db.last
      BY <1>1, <1>2 DEF OpenInv
    <3> QED BY <1>11, <1>13, <3>2, <3>3
  <2>8. LogEntries(db.log)' = {}
    <3>1. LogEntries(db.log)' = LogEntries(next)' BY <1>11 DEF LogEntries
    <3> QED BY <1>13, <3>1
  <2>9. /\ Directory'.current = db'.manifest
        /\ <<"log", db'.log>> \in Directory'.names /\ db'.log < db'.next
        /\ db'.logNumber <= db'.log
        /\ pc' \in {"idle", "merge", "build", "sync", "apply", "syncManifest", "install", "clean"}
    <3>1. Directory.current = db.manifest
          /\ pc \in {"idle", "merge", "build", "sync", "apply", "syncManifest", "install", "clean"}
      BY <1>1, <1>2 DEF OpenInv
    <3> QED BY <1>1, <1>3, <1>4, <1>8, <1>11, <3>1 DEF name
  <2> QED BY <1>1, <1>11, <2>2, <2>3, <2>4, <2>5, <2>6, <2>7, <2>8, <2>9 DEF OpenInv
<1>20. WorkInv'
  <2>1. \A t \in Nat : <<"table", t>> \in Directory.names =>
                files'[<<"table", t>>] = files[<<"table", t>>]
    BY <1>2, <1>5, <1>8, DirectoryShape
  <2>2. \A D \in Dirs' : \E E \in Dirs : E.current = D.current /\ E.names \subseteq D.names
    BY <1>2, <1>8
  <2>3. Directory.names \subseteq Directory'.names BY <1>8
  <2>4. db'.next >= db.next /\ db'.next \in Nat BY <1>4, <1>11
  <2> QED BY <1>1, <1>7, <1>11, <1>13, <2>1, <2>2, <2>3, <2>4, WorkKept
<1>21. MergeInv'
  <2>1. \A D \in Dirs' : \E E \in Dirs : E.current = D.current /\ E.names \subseteq D.names
    BY <1>2, <1>8
  <2>2. db'.next >= db.next BY <1>4, <1>11
  <2> QED BY <1>1, <1>2, <1>7, <1>11, <2>1, <2>2, MergeStill
<1> QED BY <1>7, <1>9, <1>11, <1>12, <1>15, <1>19, <1>20, <1>21, OpenedPhase DEF DiskInv, Inv

\* A record at the end of the current log, numbered above all others.
LEMMA AddRecordKeeps ==
    ASSUME Inv, NEW sync \in BOOLEAN, AddRecord(sync)
    PROVE  Inv'
<1> DEFINE record == [sequence |-> db.last + 1, write |-> calls + 1]
<1>1. /\ db.opened /\ pc # "clean" /\ writer = NoWrite /\ calls < MaxWrites
      /\ calls' = calls + 1 /\ writer' = [entry |-> record, sync |-> sync]
      /\ AppendTo(<<"log", db.log>>, record)
      /\ UNCHANGED <<directories, pc, db, pins, crashes, iterators, historyVars>>
  BY DEF AddRecord, Unlocked
<1>2. /\ Readable /\ DiskType /\ DirInv /\ ImagesInv /\ AckInv /\ db \in Database /\ MemoryType
      /\ OpenInv /\ RunningInv /\ Latest \in Edit
      /\ Directory \in Dirs /\ db.todo = {} /\ db.described /\ ~Opening
      /\ db.log \in LiveLogs(Directory, Latest)
  BY <1>1, OpenFacts
<1>3. db.last \in Nat /\ calls \in Nat /\ calls < MaxWrites /\ MaxWrites \in Nat
  BY <1>1, <1>2, RecoveryAssumption DEF MemoryType, Database
<1>4. PICK entry \in Entry : entry = record
  <2>1. db.last + 1 \in Nat /\ calls + 1 \in 1 .. MaxWrites BY <1>3
  <2>2. record \in Entry BY <2>1 DEF Entry
  <2> QED BY <2>2
<1>5. entry.sequence = db.last + 1 /\ entry.write = calls + 1 BY <1>4
<1> HIDE DEF record
<1>6. PICK log \in LiveLogs(Directory, Latest) : log = db.log BY <1>2
<1>7. LastGiven = db.last BY <1>1 DEF LastGiven
<1>8. ASSUME NEW D \in Dirs, D.current # 0, NEW r \in Possible(D), NEW e \in Held(D, r)
      PROVE  e.sequence < entry.sequence
  <2>1. e.sequence <= db.last BY <1>2, <1>7, <1>8, Given
  <2>2. e.sequence \in Nat
    <3>1. r \in Edit BY <1>2, <1>8, ManifestShape
    <3>2. \A t \in r.tables : <<"table", t>> \in DOMAIN files
      BY <1>2, <1>8, DirectoryShape DEF ImagesInv, ImageInv, Whole
    <3>3. e \in Entry BY <1>2, <1>8, <3>1, <3>2, HeldShape
    <3> QED BY <3>3 DEF Entry
  <2> QED BY <1>3, <1>5, <2>1, <2>2
<1>9. /\ DiskType' /\ DirInv' /\ ImagesInv' /\ Directory' = Directory /\ Dirs' = Dirs
      /\ Readable' /\ Latest' = Latest /\ Possible(Directory)' = Possible(Directory)
      /\ LogEntries(log)' = LogEntries(log) \cup {entry}
      /\ SyncedEntries(log)' = SyncedEntries(log)
      /\ \A n \in LiveLogs(Directory, Latest) \ {log} : LogEntries(n)' = LogEntries(n)
      /\ Held(Directory, Latest)' = Held(Directory, Latest) \cup {entry}
      /\ \A t \in Nat : TableStays(t)
  <2>1. AppendTo(<<"log", log>>, entry) BY <1>1, <1>4, <1>6
  <2>2. UNCHANGED <<directories, synced, unborn>> BY <1>1 DEF historyVars
  <2> QED BY <1>2, <1>8, <2>1, <2>2, LogGrows
<1>10. LogEntries(db.log)' = LogEntries(log) \cup {entry} /\ SyncedEntries(db.log)' = SyncedEntries(log)
  <2>1. LogEntries(db.log)' = LogEntries(log)' /\ SyncedEntries(db.log)' = SyncedEntries(log)'
    BY <1>1, <1>6 DEF LogEntries, SyncedEntries
  <2> QED BY <1>9, <2>1
<1>11. LiveLogs(Directory, Latest)' = LiveLogs(Directory, Latest) BY <1>9 DEF LiveLogs
<1>12. \A t \in db.version \cup db.edit.add :
            t \in Nat /\ Table(t)' = Table(t) /\ Whole(t, Directory.names)'
  BY <1>2, <1>9 DEF RunningInv, Whole, TableStays, Database
<1>13. /\ Tables(db.version)' = Tables(db.version) /\ Tables(db.edit.add)' = Tables(db.edit.add)
       /\ Contents' = Contents
  BY <1>1, <1>12 DEF Tables, Contents
<1>14. AckInv'
  <2>1. acked \subseteq 1 .. calls /\ acked \subseteq Writes(Held(Directory, Latest)) /\ synced \subseteq acked
    BY <1>2 DEF AckInv
  <2>2. acked' \subseteq 1 .. calls' BY <1>1, <1>3, <2>1 DEF historyVars
  <2>3. Writes(Held(Directory, Latest)) \subseteq Writes(Held(Directory, Latest)')
    BY <1>9, WritesGrow
  <2>4. Writes(Held(Directory, Latest))' = Writes(Held(Directory, Latest)') BY DEF Writes
  <2>5. Directory'.current # 0 BY <1>9, <1>2 DEF Readable
  <2> QED BY <1>1, <2>1, <2>2, <2>3, <2>4, <2>5 DEF AckInv, historyVars
<1>15. /\ writer' = [entry |-> entry, sync |-> sync]
       /\ writer' \in [entry : Entry, sync : BOOLEAN] /\ writer' # NoWrite
       /\ writer'.entry = entry
  BY <1>1, <1>4, NoWriteShape
<1>16. MemoryType'
  <2>1. calls' \in 0 .. MaxWrites BY <1>1, <1>3
  <2> QED BY <1>1, <1>2, <1>15, <2>1 DEF MemoryType
<1>17. LastGiven' = db.last + 1 BY <1>5, <1>15 DEF LastGiven
<1>18. RunningInv'
  <2>1. /\ (Latest.next)' <= db'.next /\ (Latest.last)' <= db'.last /\ db'.manifest < db'.next
    BY <1>1, <1>2, <1>9 DEF RunningInv
  <2>2. \A t \in db'.version \cup db'.edit.add :
            /\ Whole(t, Directory.names)' /\ 0 < t /\ t < db'.next
            /\ \A e \in Table(t)' : e.sequence <= db'.last
    BY <1>1, <1>2, <1>12 DEF RunningInv
  <2>3. \A e \in db'.mem \cup db'.imm : e.sequence <= db'.last BY <1>1, <1>2 DEF RunningInv
  <2>4. (Contents \cup Tables(db.edit.add))' \subseteq Held(Directory, Latest)'
    BY <1>2, <1>9, <1>13 DEF RunningInv
  <2>5. ASSUME NEW n \in LiveLogs(Directory, Latest)
        PROVE  n < db'.next /\ \A e \in LogEntries(n)' : e.sequence <= LastGiven'
    <3>1. n < db.next /\ \A e \in LogEntries(n) : e.sequence <= db.last
      BY <1>2, <1>7 DEF RunningInv
    <3>2. LogEntries(n) \subseteq Entry BY <1>2, LogShape
    <3>3. \A e \in LogEntries(n) : e.sequence <= db.last + 1 BY <1>3, <3>1, <3>2 DEF Entry
    <3>4. CASE n = log
      <4>1. LogEntries(n)' = LogEntries(n) \cup {entry} BY <1>9, <3>4
      <4>2. entry.sequence <= db.last + 1 BY <1>3, <1>5
      <4> QED BY <1>1, <1>17, <3>1, <3>3, <4>1, <4>2
    <3>5. CASE n # log BY <1>1, <1>9, <1>17, <3>1, <3>3, <3>5
    <3> QED BY <3>4, <3>5
  <2> QED BY <1>9, <1>11, <2>1, <2>2, <2>3, <2>4, <2>5 DEF RunningInv
<1>19. OpenInv'
  <2>1. acked' \subseteq Writes(Contents)'
    <3>1. Writes(Contents)' = Writes(Contents) BY <1>13 DEF Writes
    <3> QED BY <1>1, <1>2, <3>1 DEF OpenInv, historyVars
  <2>2. synced' \subseteq Writes(Tables(db.version) \cup db.imm \cup SyncedEntries(db.log))'
    <3>1. Writes(Tables(db.version) \cup db.imm \cup SyncedEntries(db.log))'
            = Writes(Tables(db.version) \cup db.imm \cup SyncedEntries(db.log))
      BY <1>1, <1>6, <1>10, <1>13 DEF Writes
    <3> QED BY <1>1, <1>2, <3>1 DEF OpenInv, historyVars
  <2>3. \A t \in Pinned' : /\ <<"table", t>> \in Directory'.names /\ Table(t)' # {}
                           /\ 0 < t /\ t < db'.next
    <3>1. Pinned' = Pinned BY <1>1 DEF Pinned
    <3>2. \A p \in pins : p[2] \subseteq Nat BY <1>2 DEF MemoryType
    <3>3. \A t \in Pinned : t \in Nat BY <3>2 DEF Pinned
    <3> QED BY <1>1, <1>2, <1>9, <3>1, <3>3 DEF OpenInv, TableStays
  <2>4. /\ db'.mem \subseteq LogEntries(db.log)'
        /\ LogEntries(db.log)' \subseteq db'.mem \cup {writer'.entry}
        /\ writer'.entry \in LogEntries(db.log)'
        /\ writer'.entry.sequence = db'.last + 1 /\ writer'.entry.write <= calls'
    <3>1. db.mem \subseteq LogEntries(log) /\ LogEntries(log) \subseteq db.mem
      BY <1>1, <1>2, <1>6 DEF OpenInv
    <3>2. entry.write <= calls' BY <1>1, <1>3, <1>5
    <3> QED BY <1>1, <1>5, <1>10, <1>15, <3>1, <3>2
  <2>5. /\ \A r \in Possible(Directory)' : r.log <= db'.log
        /\ \A n \in LiveLogs(Directory, Latest)' : n <= db'.log
        /\ \A n \in LiveLogs(Directory, Latest)' \ {db'.log} :
                \A e \in LogEntries(n)' : e.sequence <= db'.last
    BY <1>1, <1>2, <1>6, <1>9, <1>11 DEF OpenInv
  <2>6. /\ db'.described /\ Directory'.current = db'.manifest /\ db'.todo = {}
        /\ <<"log", db'.log>> \in Directory'.names /\ db'.log < db'.next
        /\ db'.logNumber <= db'.log
        /\ pc' \in {"idle", "merge", "build", "sync", "apply", "syncManifest", "install", "clean"}
    BY <1>1, <1>2, <1>9 DEF OpenInv
  <2> QED BY <1>15, <2>1, <2>2, <2>3, <2>4, <2>5, <2>6 DEF OpenInv
<1>20. WorkInv'
  <2>1. \A t \in Nat : <<"table", t>> \in Directory.names =>
                files'[<<"table", t>>] = files[<<"table", t>>]
    <3> SUFFICES ASSUME NEW t \in Nat, <<"table", t>> \in Directory.names
                 PROVE  files'[<<"table", t>>] = files[<<"table", t>>]
      OBVIOUS
    <3>1. <<"table", t>> # <<"log", db.log>> OBVIOUS
    <3>2. <<"table", t>> \in DOMAIN files BY <1>2, DirectoryShape
    <3> QED BY <1>1, <3>1, <3>2 DEF AppendTo
  <2>2. \A D \in Dirs' : \E E \in Dirs : E.current = D.current /\ E.names \subseteq D.names
    BY <1>9
  <2>3. db'.next >= db.next /\ db'.next \in Nat BY <1>1, <1>2 DEF Database
  <2> QED BY <1>1, <1>9, <2>1, <2>2, <2>3, WorkKept
<1>21. MergeInv'
  <2>1. db'.next >= db.next BY <1>1, <1>2 DEF Database
  <2> QED BY <1>1, <1>2, <1>9, <2>1, MergeStill
<1> QED BY <1>1, <1>9, <1>14, <1>16, <1>18, <1>19, <1>20, <1>21, OpenedPhase DEF DiskInv, Inv

\* The Sync of the log, if asked for.
LEMMA FinishWriteDisk ==
    ASSUME Inv, FinishWrite
    PROVE  /\ DiskInv' /\ View({}) /\ Directory' = Directory /\ Dirs' \subseteq Dirs
           /\ \A t \in Nat : TableStays(t)
           /\ \A t \in Nat : <<"table", t>> \in Directory.names =>
                files'[<<"table", t>>] = files[<<"table", t>>]
           /\ \A n \in Nat : n = db.log => SyncedEntries(n) \subseteq SyncedEntries(n)'
           /\ writer.entry.write \in synced' =>
                \/ writer.entry.write \in synced
                \/ \A n \in Nat : n = db.log => writer.entry \in SyncedEntries(n)'
<1>1. /\ db.opened /\ writer # NoWrite
      /\ IF writer.sync THEN Sync(files, <<"log", db.log>>, Directory) ELSE UNCHANGED diskVars
      /\ acked' = acked \cup {writer.entry.write}
      /\ synced' = IF writer.sync THEN synced \cup {writer.entry.write} ELSE synced
      /\ UNCHANGED <<pc, pins, calls, unborn>>
  BY DEF FinishWrite, Unlocked, countVars
<1>2. /\ Readable /\ DiskType /\ DirInv /\ ImagesInv /\ AckInv /\ db \in Database /\ MemoryType
      /\ OpenInv /\ Latest \in Edit /\ Directory.current # 0
      /\ Directory \in Dirs
      /\ db.log \in LiveLogs(Directory, Latest)
  BY <1>1, OpenFacts
<1>3. PICK entry : entry = writer.entry OBVIOUS
<1>4. PICK log \in Nat : log = db.log BY <1>2 DEF Database
<1>5. /\ entry \in Entry /\ entry \in LogEntries(log) /\ entry.write <= calls
      /\ <<"log", log>> \in Directory.names /\ log \in LiveLogs(Directory, Latest)
      /\ \A r \in Possible(Directory) : r.log <= log
  BY <1>1, <1>2, <1>3, <1>4 DEF OpenInv, MemoryType
<1>6. /\ DiskType' /\ DirInv' /\ ImagesInv' /\ View({}) /\ Directory' = Directory /\ Dirs' \subseteq Dirs
      /\ \A t \in Nat : TableStays(t)
      /\ \A t \in Nat : <<"table", t>> \in Directory.names =>
            files'[<<"table", t>>] = files[<<"table", t>>]
      /\ SyncedEntries(log) \subseteq SyncedEntries(log)'
      /\ writer.sync => entry \in SyncedEntries(log)'
  <2>1. CASE writer.sync
    <3>1. PICK name : name = <<"log", log>> OBVIOUS
    <3>2. /\ name \in Directory.names /\ Sync(files, name, Directory) /\ UNCHANGED unborn
          /\ name[1] = "log" /\ \A t \in Nat : <<"table", t>> # name
      BY <1>1, <1>4, <1>5, <2>1, <3>1
    <3>3. /\ DiskType' /\ DirInv' /\ ImageInv' /\ UniqueInv' /\ LatestInv'
          /\ \A E \in Dirs' : E.current # 0 =>
                \A r \in Possible(E)' : synced \subseteq Writes(KeptBy(E, r)')
          /\ View({}) /\ Directory' = Directory /\ Dirs' = {Directory}
          /\ \A t \in Nat : TableStays(t)
          /\ \A n \in Directory.names : n[1] # "temp" =>
                /\ n \in DOMAIN files' /\ files'[n].records = files[n].records
                /\ n # name => files'[n] = files[n]
          /\ \A n \in Nat : <<"log", n>> \in Directory.names =>
                SyncedEntries(n) \subseteq SyncedEntries(n)'
          /\ files'[name].durable = Len(files'[name].records)
      BY <1>2, <3>2, SyncOnlyKeeps
    <3>4. \A t \in Nat : <<"table", t>> \in Directory.names =>
                files'[<<"table", t>>] = files[<<"table", t>>]
      <4> SUFFICES ASSUME NEW t \in Nat, <<"table", t>> \in Directory.names
                   PROVE  files'[<<"table", t>>] = files[<<"table", t>>]
        OBVIOUS
      <4>1. <<"table", t>>[1] # "temp" /\ <<"table", t>> # name BY <3>2
      <4> QED BY <3>3, <4>1
    <3>5. entry \in SyncedEntries(log)'
      <4>1. files'[<<"log", log>>].records = files[<<"log", log>>].records
        BY <3>1, <3>2, <3>3
      <4>2. files'[<<"log", log>>].durable = Len(files[<<"log", log>>].records)
        BY <3>1, <3>3, <4>1
      <4>3. SyncedEntries(log)' = LogEntries(log) BY <4>1, <4>2 DEF SyncedEntries, LogEntries
      <4> QED BY <1>5, <4>3
    <3>6. SyncedInv'
      <4> SUFFICES ASSUME NEW E \in Dirs', E.current # 0, NEW r \in Possible(E)'
                   PROVE  synced' \subseteq Writes(KeptBy(E, r)')
        <5>1. \A E, r : Writes(KeptBy(E, r))' = Writes(KeptBy(E, r)') BY DEF Writes
        <5> QED BY <5>1 DEF SyncedInv
      <4>1. E = Directory BY <3>3
      <4>2. r \in Possible(Directory)
        <5>1. Possible(Directory)' \subseteq Possible(Directory) BY <1>2, <3>3 DEF View
        <5>2. Possible(E)' = Possible(Directory)' BY <3>3, <4>1 DEF Possible, Edits, Manifest
        <5> QED BY <5>1, <5>2
      <4>3. log \in LiveLogs(Directory, r) BY <1>2, <1>5, <4>2, LiveLog
      <4>4. SyncedEntries(log)' \subseteq KeptBy(E, r)'
        <5>1. LiveLogs(E, r)' = LiveLogs(Directory, r) BY <4>1 DEF LiveLogs
        <5> QED BY <4>3, <5>1 DEF KeptBy
      <4>5. entry.write \in Writes(KeptBy(E, r)') BY <3>5, <4>4 DEF Writes
      <4>6. synced \subseteq Writes(KeptBy(E, r)') BY <3>3
      <4> QED BY <1>1, <1>3, <2>1, <4>5, <4>6
    <3> QED BY <1>2, <1>5, <3>3, <3>4, <3>5, <3>6 DEF ImagesInv
  <2>2. CASE ~writer.sync
    <3>1. UNCHANGED <<diskVars, synced, unborn>> BY <1>1, <2>2
    <3>2. DiskType' /\ DirInv' /\ ImagesInv' BY <1>2, <3>1, DiskStill
    <3>3. UNCHANGED files BY <3>1 DEF diskVars
    <3> QED BY <2>2, <3>1, <3>2, <3>3, Still
  <2> QED BY <2>1, <2>2
<1>7. AckInv'
  <2>1. /\ synced \subseteq acked /\ acked \subseteq 1 .. calls
        /\ acked \subseteq Writes(Held(Directory, Latest))
    BY <1>2 DEF AckInv
  <2>2. Held(Directory, Latest)' = Held(Directory, Latest) BY <1>2, <1>6 DEF View
  <2>3. entry.write \in Writes(Held(Directory, Latest))
    <3>1. LogEntries(log) \subseteq Held(Directory, Latest) BY <1>5 DEF Held
    <3> QED BY <1>5, <3>1 DEF Writes
  <2>4. acked' \subseteq 1 .. calls'
    <3>1. entry.write \in Nat /\ entry.write >= 1 /\ calls \in Nat
      BY <1>2, <1>5, RecoveryAssumption DEF Entry, MemoryType
    <3>2. entry.write \in 1 .. calls BY <1>5, <3>1
    <3> QED BY <1>1, <1>3, <2>1, <3>2
  <2>5. Writes(Held(Directory, Latest))' = Writes(Held(Directory, Latest)) BY <2>2 DEF Writes
  <2>6. synced' \subseteq acked' BY <1>1, <2>1
  <2>7. Directory'.current # 0 BY <1>2, <1>6
  <2>8. acked' \subseteq Writes(Held(Directory, Latest))' BY <1>1, <1>3, <2>1, <2>3, <2>5
  <2> QED BY <2>4, <2>6, <2>7, <2>8 DEF AckInv
<1>8. entry.write \in synced' => entry.write \in synced \/ entry \in SyncedEntries(log)'
  BY <1>1, <1>6
<1> QED BY <1>3, <1>4, <1>6, <1>7, <1>8 DEF DiskInv

\* The write is in the memtable, and returns.
LEMMA FinishWriteKeeps ==
    ASSUME Inv, FinishWrite
    PROVE  Inv'
<1>1. /\ db.opened /\ pc # "clean" /\ writer # NoWrite /\ writer' = NoWrite
      /\ db' = [db EXCEPT !.mem = @ \cup {writer.entry}, !.last = writer.entry.sequence]
      /\ acked' = acked \cup {writer.entry.write}
      /\ synced' = IF writer.sync THEN synced \cup {writer.entry.write} ELSE synced
      /\ UNCHANGED <<pc, pins, countVars, unborn>>
  BY DEF FinishWrite, Unlocked
<1>2. /\ Readable /\ DiskType /\ DirInv /\ ImagesInv /\ AckInv /\ db \in Database /\ MemoryType
      /\ OpenInv /\ RunningInv /\ Latest \in Edit
      /\ Directory \in Dirs /\ db.todo = {} /\ db.described /\ ~Opening
      /\ db.log \in LiveLogs(Directory, Latest)
  BY <1>1, OpenFacts
<1>3. PICK entry : entry = writer.entry OBVIOUS
<1>4. PICK log \in LiveLogs(Directory, Latest) : log = db.log BY <1>2
<1>5. /\ entry \in Entry /\ entry \in LogEntries(log) /\ entry.sequence = db.last + 1
      /\ entry.sequence \in Nat /\ LogEntries(log) \subseteq db.mem \cup {entry}
      /\ log \in Nat /\ db.last \in Nat
  <2>1. entry \in Entry BY <1>1, <1>2, <1>3 DEF MemoryType
  <2>2. log \in Nat /\ db.last \in Nat BY <1>2, <1>4 DEF Database
  <2> QED BY <1>1, <1>2, <1>3, <1>4, <2>1, <2>2 DEF OpenInv, Entry
<1>6. /\ DiskInv' /\ View({}) /\ Directory' = Directory /\ Dirs' \subseteq Dirs
      /\ \A t \in Nat : TableStays(t)
      /\ \A t \in Nat : <<"table", t>> \in Directory.names =>
            files'[<<"table", t>>] = files[<<"table", t>>]
      /\ SyncedEntries(log) \subseteq SyncedEntries(log)'
      /\ entry.write \in synced' => entry.write \in synced \/ entry \in SyncedEntries(log)'
  <2>1. /\ \A n \in Nat : n = db.log => SyncedEntries(n) \subseteq SyncedEntries(n)'
        /\ writer.entry.write \in synced' =>
                \/ writer.entry.write \in synced
                \/ \A n \in Nat : n = db.log => writer.entry \in SyncedEntries(n)'
    BY FinishWriteDisk
  <2>2. /\ DiskInv' /\ View({}) /\ Directory' = Directory /\ Dirs' \subseteq Dirs
        /\ \A t \in Nat : TableStays(t)
        /\ \A t \in Nat : <<"table", t>> \in Directory.names =>
            files'[<<"table", t>>] = files[<<"table", t>>]
    BY FinishWriteDisk
  <2> QED BY <1>3, <1>4, <1>5, <2>1, <2>2
<1>7. PICK mem \in SUBSET Entry : mem = db.mem \cup {entry} BY <1>2, <1>5 DEF Database
<1>8. PICK last \in Nat : last = entry.sequence BY <1>5
<1>9. /\ db' \in Database /\ db'.mem = mem /\ db'.last = last /\ db'.opened /\ db'.described
      /\ db'.next = db.next /\ db'.log = db.log /\ db'.manifest = db.manifest
      /\ db'.logNumber = db.logNumber /\ db'.version = db.version /\ db'.imm = db.imm
      /\ db'.todo = {} /\ db'.edit = db.edit /\ db'.work = db.work /\ db'.output = db.output
      /\ db'.pending = db.pending /\ db'.inputs = db.inputs /\ db'.left = db.left
      /\ db'.outputs = db.outputs /\ db'.builder = db.builder
  <2>1. db \in Database /\ db.opened /\ db.described /\ db.todo = {} BY <1>1, <1>2
  <2>2. db' = [db EXCEPT !.mem = mem, !.last = last] BY <1>1, <1>3, <1>7, <1>8, <2>1 DEF Database
  <2> QED BY <2>1, <2>2 DEF Database
<1>10. MemoryType' BY <1>1, <1>2, <1>9 DEF MemoryType, countVars
<1>11. LastGiven' = db.last + 1 /\ LastGiven = db.last + 1
  BY <1>1, <1>3, <1>5, <1>8, <1>9 DEF LastGiven
<1>12. entry \in Held(Directory, Latest) BY <1>4, <1>5 DEF Held
<1>13. RunningInv'
  <2>1. /\ db'.next >= db.next /\ db'.last >= db.last /\ db'.manifest < db'.next
        /\ LastGiven' \in Nat /\ LastGiven' >= LastGiven
    BY <1>2, <1>5, <1>8, <1>9, <1>11 DEF RunningInv, Database
  <2>2. \A t \in db'.version \cup db'.edit.add : t \in db.version \cup db.edit.add /\ TableStays(t)
    <3>1. \A t \in db.version \cup db.edit.add : t \in Nat BY <1>2 DEF Database
    <3> QED BY <1>6, <1>9, <3>1
  <2>3. \A e \in db'.mem \cup db'.imm :
                \/ e \in db.mem \cup db.imm
                \/ e.sequence <= db'.last /\ e \in Held(Directory, Latest)
    BY <1>7, <1>8, <1>9, <1>12
  <2> QED BY <1>2, <1>6, <1>9, <1>10, <2>1, <2>2, <2>3, RunningKept
<1>14. /\ Readable' /\ Latest' = Latest /\ Possible(Directory)' \subseteq Possible(Directory)
       /\ LiveLogs(Directory, Latest)' = LiveLogs(Directory, Latest)
       /\ \A n \in LiveLogs(Directory, Latest) : LogEntries(n)' = LogEntries(n)
  BY <1>2, <1>6 DEF View
<1>15. LogEntries(db.log)' = LogEntries(log) /\ SyncedEntries(log)' = SyncedEntries(db.log)'
  <2>1. LogEntries(db.log)' = LogEntries(log)' BY <1>4, <1>9 DEF LogEntries
  <2>2. SyncedEntries(log)' = SyncedEntries(db.log)' BY <1>4, <1>9 DEF SyncedEntries
  <2> QED BY <1>14, <2>1, <2>2
<1>16. Tables(db.version)' = Tables(db.version)
  <2>1. \A t \in db.version : Table(t)' = Table(t)
    BY <1>2, <1>6 DEF RunningInv, Whole, TableStays, Database
  <2> QED BY <1>9, <2>1 DEF Tables
<1>17. OpenInv'
  <2>1. acked' \subseteq Writes(Contents)'
    <3>1. Contents' = Contents \cup {entry}
      <4>1. Contents = db.mem \cup db.imm \cup Tables(db.version) BY DEF Contents, Tables
      <4>2. Contents' = db'.mem \cup db'.imm \cup Tables(db.version)' BY DEF Contents, Tables
      <4> QED BY <1>7, <1>9, <1>16, <4>1, <4>2
    <3>2. Writes(Contents)' = Writes(Contents) \cup {entry.write} BY <3>1 DEF Writes
    <3> QED BY <1>1, <1>2, <1>3, <3>2 DEF OpenInv
  <2>2. synced' \subseteq Writes(Tables(db.version) \cup db.imm \cup SyncedEntries(db.log))'
    <3>1. PICK new : new = (Tables(db.version) \cup db.imm \cup SyncedEntries(db.log))' OBVIOUS
    <3>2. Tables(db.version) \cup db.imm \cup SyncedEntries(db.log) \subseteq new
      BY <1>4, <1>6, <1>9, <1>15, <1>16, <3>1
    <3>3. synced \subseteq Writes(new)
      <4>1. synced \subseteq Writes(Tables(db.version) \cup db.imm \cup SyncedEntries(db.log))
        BY <1>1, <1>2 DEF OpenInv
      <4> QED BY <3>2, <4>1, WritesGrow
    <3>4. entry.write \in synced' => entry.write \in Writes(new)
      <4>1. entry \in SyncedEntries(log)' => entry \in new BY <1>15, <3>1
      <4>2. entry \in new => entry.write \in Writes(new) BY DEF Writes
      <4> QED BY <1>6, <3>3, <4>1, <4>2
    <3>5. synced' \subseteq Writes(new) BY <1>1, <1>3, <3>3, <3>4
    <3>6. Writes(Tables(db.version) \cup db.imm \cup SyncedEntries(db.log))' = Writes(new)
      BY <3>1 DEF Writes
    <3> QED BY <3>5, <3>6
  <2>3. \A t \in Pinned' : /\ <<"table", t>> \in Directory'.names /\ Table(t)' # {}
                           /\ 0 < t /\ t < db'.next
    <3>1. Pinned' = Pinned BY <1>1 DEF Pinned
    <3>2. \A p \in pins : p[2] \subseteq Nat BY <1>2 DEF MemoryType
    <3>3. \A t \in Pinned : t \in Nat BY <3>2 DEF Pinned
    <3> QED BY <1>1, <1>2, <1>6, <1>9, <3>1, <3>3 DEF OpenInv, TableStays
  <2>4. db'.mem \subseteq LogEntries(db.log)' /\ LogEntries(db.log)' \subseteq db'.mem
    <3>1. db.mem \subseteq LogEntries(log) BY <1>1, <1>2, <1>4 DEF OpenInv
    <3> QED BY <1>5, <1>7, <1>9, <1>15, <3>1
  <2>5. /\ \A r \in Possible(Directory)' : r.log <= db'.log
        /\ \A n \in LiveLogs(Directory, Latest)' : n <= db'.log
    BY <1>1, <1>2, <1>9, <1>14 DEF OpenInv
  <2>6. \A n \in LiveLogs(Directory, Latest)' \ {db'.log} :
                \A e \in LogEntries(n)' : e.sequence <= db'.last
    <3> SUFFICES ASSUME NEW n \in LiveLogs(Directory, Latest), n # db.log, NEW e \in LogEntries(n)
                 PROVE  e.sequence <= last
      BY <1>9, <1>14
    <3>1. e.sequence <= db.last BY <1>1, <1>2 DEF OpenInv
    <3>2. e.sequence \in Nat BY <1>2, LogShape DEF Entry
    <3> QED BY <1>5, <1>8, <3>1, <3>2
  <2>7. /\ db'.described /\ Directory'.current = db'.manifest /\ db'.todo = {}
        /\ <<"log", db'.log>> \in Directory'.names /\ db'.log < db'.next
        /\ db'.logNumber <= db'.log
        /\ pc' \in {"idle", "merge", "build", "sync", "apply", "syncManifest", "install", "clean"}
    BY <1>1, <1>2, <1>6, <1>9 DEF OpenInv
  <2> QED BY <1>1, <2>1, <2>2, <2>3, <2>4, <2>5, <2>6, <2>7 DEF OpenInv
<1>18. WorkInv'
  <2>1. \A D \in Dirs' : \E E \in Dirs : E.current = D.current /\ E.names \subseteq D.names
    BY <1>6
  <2>2. db'.next >= db.next /\ db'.next \in Nat BY <1>2, <1>9 DEF Database
  <2>3. /\ db'.work = db.work /\ db'.edit = db.edit /\ db'.version = db.version
        /\ db'.output = db.output /\ db'.logNumber = db.logNumber /\ db'.manifest = db.manifest
        /\ db'.imm = db.imm /\ db'.log = db.log
    BY <1>9
  <2>4. DiskType' /\ DirInv' BY <1>6 DEF DiskInv
  <2>5. /\ UNCHANGED pc /\ Directory.names \subseteq Directory'.names
        /\ \A t \in Nat : <<"table", t>> \in Directory.names =>
                files'[<<"table", t>>] = files[<<"table", t>>]
    BY <1>1, <1>6
  <2> QED BY <1>1, <1>14, <2>1, <2>2, <2>3, <2>4, <2>5, WorkKept
<1>19. MergeInv'
  <2>1. \A D \in Dirs' : \E E \in Dirs : E.current = D.current /\ E.names \subseteq D.names
    BY <1>6
  <2>2. db'.next >= db.next BY <1>2, <1>9 DEF Database
  <2> QED BY <1>1, <1>2, <1>6, <1>9, <2>1, <2>2, MergeStill
<1> QED BY <1>6, <1>9, <1>10, <1>13, <1>17, <1>18, <1>19, OpenedPhase DEF Inv

-----------------------------------------------------------------------------
(* The theorems.                                                            *)

LEMMA StutterKeeps ==
    ASSUME Inv, UNCHANGED vars
    PROVE  Inv'
<1>1. /\ UNCHANGED diskVars /\ files' = files /\ directories' = directories
      /\ pc' = pc /\ db' = db /\ writer' = writer /\ pins' = pins
      /\ calls' = calls /\ crashes' = crashes /\ iterators' = iterators
      /\ acked' = acked /\ synced' = synced /\ unborn' = unborn
  BY DEF vars, diskVars, countVars, historyVars
<1>2. /\ DiskType /\ DirInv /\ ImagesInv /\ AckInv /\ MemoryType
      /\ OpeningInv /\ RunningInv /\ ReplayInv /\ RecoveringInv /\ OpenInv /\ WorkInv
  BY DEF Inv, Core, DiskInv
<1>3. /\ Directory' = Directory /\ (Readable' <=> Readable) /\ Latest' = Latest
      /\ Possible(Directory)' = Possible(Directory)
      /\ LiveLogs(Directory, Latest)' = LiveLogs(Directory, Latest)
      /\ Held(Directory, Latest)' = Held(Directory, Latest) /\ View({})
      /\ \A n : Table(n)' = Table(n) /\ LogEntries(n)' = LogEntries(n)
                /\ SyncedEntries(n)' = SyncedEntries(n)
      /\ \A n, names : Whole(n, names)' <=> Whole(n, names)
  BY <1>1, Still
<1>4. /\ Tables(db.version)' = Tables(db.version) /\ Tables(db.edit.add)' = Tables(db.edit.add)
      /\ NewTables' = NewTables /\ NewEdit' = NewEdit /\ LastGiven' = LastGiven
      /\ Pinned' = Pinned /\ (Opening' <=> Opening) /\ (Replaying' <=> Replaying)
      /\ (Recovering' <=> Recovering)
  BY <1>1 DEF Tables, Table, NewTables, NewEdit, LastGiven, Pinned, Opening, Replaying, Recovering
<1>5. Contents' = Contents BY <1>1, <1>4 DEF Contents, Tables
<1>6. DiskInv' BY <1>1, <1>2, <1>3, DiskStill, AckKept DEF DiskInv
<1>7. MemoryType' BY <1>1, <1>2 DEF MemoryType
<1>8. OpeningInv' BY <1>1, <1>2, <1>3, <1>4 DEF OpeningInv
<1>9. RunningInv' BY <1>1, <1>2, <1>3, <1>4, <1>5 DEF RunningInv
<1>10. ReplayInv' BY <1>1, <1>2, <1>3, <1>4 DEF ReplayInv
<1>11. RecoveringInv'
  <2>1. Writes(Tables(NewTables))' = Writes(Tables(NewTables))
    BY <1>1, <1>4 DEF Writes, Tables, Table
  <2> QED BY <1>1, <1>2, <1>3, <1>4, <2>1 DEF RecoveringInv
<1>12. OpenInv'
  <2>1. Writes(Contents)' = Writes(Contents) BY <1>5 DEF Writes
  <2>2. /\ LogEntries(db.log)' = LogEntries(db.log)
        /\ SyncedEntries(db.log)' = SyncedEntries(db.log)
    BY <1>1 DEF LogEntries, SyncedEntries
  <2>3. Writes(Tables(db.version) \cup db.imm \cup SyncedEntries(db.log))'
            = Writes(Tables(db.version) \cup db.imm \cup SyncedEntries(db.log))
    BY <1>1, <1>4, <2>2 DEF Writes
  <2> QED BY <1>1, <1>2, <1>3, <1>4, <2>1, <2>2, <2>3 DEF OpenInv
<1>13. WorkInv' BY <1>1, <1>2, WorkStill
<1>14. MergeInv'
  <2>1. Dirs' = Dirs /\ \A t \in Nat : TableStays(t) BY <1>1, Still
  <2>2. db \in Database /\ db'.next >= db.next BY <1>1, <1>2 DEF MemoryType, Database
  <2> QED BY <1>1, <2>1, <2>2, MergeStill
<1> QED BY <1>6, <1>7, <1>8, <1>9, <1>10, <1>11, <1>12, <1>13, <1>14 DEF Inv, Core

LEMMA InitInv == Init => Inv
<1> SUFFICES ASSUME Init PROVE Inv OBVIOUS
<1> DEFINE none == [names |-> {}, current |-> 0]
<1>1. /\ files = [n \in {} |-> 0] /\ directories = <<none>> /\ pc = "down" /\ db = Closed
      /\ writer = NoWrite /\ pins = {} /\ calls = 0 /\ crashes = 0 /\ iterators = 0
      /\ acked = {} /\ synced = {}
  BY DEF Init
<1>2. none \in Dir /\ none.names = {} /\ none.current = 0 BY DEF Dir
<1> HIDE DEF none
<1>3. directories \in Seq(Dir) /\ directories # <<>> /\ Directory = none /\ Dirs = {none}
  BY <1>1, <1>2 DEF Directory, Dirs
<1>4. DOMAIN files = {} BY <1>1
<1>5. DiskType BY <1>2, <1>3, <1>4 DEF DiskType
<1>6. DirInv BY <1>1, <1>2, <1>3 DEF DirInv
<1>7. ImagesInv BY <1>2, <1>3 DEF ImagesInv, ImageInv, SyncedInv, LatestInv, UniqueInv
<1>8. AckInv BY <1>1, <1>2, <1>3 DEF AckInv, Readable
<1>9. MemoryType BY <1>1, ClosedShape, RecoveryAssumption DEF MemoryType, Pc
<1>10. Opening /\ ~Replaying /\ ~Recovering /\ ~db.opened
  BY <1>1 DEF Opening, Replaying, Recovering, Closed
<1>11. OpeningInv BY <1>1 DEF OpeningInv
<1>12. MergeInv BY <1>1 DEF MergeInv, Closed
<1> QED BY <1>5, <1>6, <1>7, <1>8, <1>9, <1>10, <1>11, <1>12
       DEF Inv, Core, DiskInv, RunningInv, ReplayInv, RecoveringInv, OpenInv, WorkInv

\* No merge runs before the database is open, nor after a crash.
LEMMA NoMerge ==
    ASSUME db'.inputs = {}, pc' # "merge", \A t \in db'.pending : 0 < t /\ t < db'.next
    PROVE  MergeInv'
BY DEF MergeInv

LEMMA NoMergeOpening ==
    ASSUME Inv, OpenStep
    PROVE  MergeInv'
<1>1. /\ db \in Database /\ ~db.opened /\ db.inputs = {}
      /\ \A t \in db.pending : t \in Nat /\ 0 < t /\ t < db.next
  <2>1. db \in Database BY DEF Inv, Core, MemoryType
  <2>2. ~db.opened
    BY DEF Inv, Core, OpenInv, OpenStep, Open, NewDB, WriteTemp, RenameTemp, RecoverVersion,
           ReplayRecord, EndLog, NewLog
  <2> QED BY <2>1, <2>2 DEF Inv, MergeInv, Database
<1>2. CASE UNCHANGED db
  <2>1. pc' # "merge"
    BY <1>2 DEF OpenStep, Open, NewDB, WriteTemp, RenameTemp, RecoverVersion, ReplayRecord,
                EndLog, NewLog
  <2> QED BY <1>1, <1>2, <2>1, NoMerge
<1>3. CASE RecoverVersion /\ ~UNCHANGED db
  <2>1. pc' = "replay" BY <1>3 DEF RecoverVersion
  <2>2. db'.inputs = Closed.inputs /\ db'.pending = Closed.pending
    BY <1>3 DEF RecoverVersion, Closed
  <2>3. Closed.inputs = {} /\ Closed.pending = {} BY DEF Closed
  <2> QED BY <2>1, <2>2, <2>3, NoMerge
<1>4. CASE ReplayRecord
  <2>1. pc' # "merge" BY <1>4 DEF ReplayRecord
  <2>2. db'.inputs = db.inputs /\ db'.pending = db.pending /\ db'.next = db.next
    BY <1>1, <1>4 DEF ReplayRecord, Database
  <2> QED BY <1>1, <2>1, <2>2, NoMerge
<1>5. CASE EndLog /\ ~UNCHANGED db
  <2>1. PICK log : log = Smallest(db.todo) OBVIOUS
  <2>2. pc' # "merge"
        /\ db' = [db EXCEPT !.todo = @ \ {log}, !.position = 0, !.next = Used(@, log)]
    BY <1>5, <2>1 DEF EndLog
  <2>3. /\ db'.inputs = db.inputs /\ db'.pending = db.pending /\ db'.next = Used(db.next, log)
    BY <1>1, <2>2 DEF Database
  <2>4. db'.next >= db.next /\ db'.next \in Nat
    <3>1. Replaying /\ db.todo # {} BY <1>5 DEF EndLog, Replaying
    <3>2. log \in Nat BY <2>1, <3>1, ReplayingFacts
    <3>3. db.next \in Nat /\ log + 1 \in Nat BY <1>1, <3>2 DEF Database
    <3> QED BY <2>3, <3>3, LargestOfTwo DEF Used
  <2> QED BY <1>1, <2>2, <2>3, <2>4, NoMerge DEF Database
<1>6. CASE NewLog
  <2>1. pc' # "merge" BY <1>6 DEF NewLog
  <2>2. db'.inputs = db.inputs /\ db'.pending = db.pending /\ db'.next = db.next + 1
    BY <1>1, <1>6 DEF NewLog, Database
  <2> QED BY <1>1, <2>1, <2>2, NoMerge DEF Database
<1> QED BY <1>2, <1>3, <1>4, <1>5, <1>6 DEF OpenStep, Open, NewDB, WriteTemp, RenameTemp

LEMMA NoMergeRecovering ==
    ASSUME Inv, ~db.opened, BuildTable \/ SyncTable \/ WriteManifest \/ SyncManifest \/ Install
    PROVE  MergeInv'
<1>1. /\ db \in Database /\ db.inputs = {}
      /\ \A t \in db.pending : t \in Nat /\ 0 < t /\ t < db.next
  <2>1. db \in Database BY DEF Inv, Core, MemoryType
  <2> QED BY <2>1 DEF Inv, MergeInv, Database
<1>2. pc' # "merge" BY DEF BuildTable, SyncTable, WriteManifest, SyncManifest, Install
<1>3. CASE BuildTable
  <2>1. ~Opening BY <1>3 DEF BuildTable, Opening
  <2>2. db.manifest < db.next BY <2>1 DEF Inv, Core, RunningInv
  <2>3. db.next \in Nat /\ db.next > 0 BY <1>1, <2>2 DEF Database
  <2>4. /\ db'.inputs = db.inputs /\ db'.pending = db.pending \cup {db.next}
        /\ db'.next = db.next + 1
    BY <1>1, <1>3, BuildTableMemory
  <2> QED BY <1>1, <1>2, <2>3, <2>4, NoMerge
<1>4. CASE SyncTable BY <1>1, <1>2, <1>4, SyncTableMemory, NoMerge
<1>5. CASE WriteManifest
  <2>1. UNCHANGED db BY <1>5 DEF WriteManifest
  <2> QED BY <1>1, <1>2, <2>1, NoMerge
<1>6. CASE SyncManifest
  <2>1. db' = [db EXCEPT !.described = TRUE] BY <1>6 DEF SyncManifest
  <2>2. db'.inputs = db.inputs /\ db'.pending = db.pending /\ db'.next = db.next
    BY <1>1, <2>1 DEF Database
  <2> QED BY <1>1, <1>2, <2>2, NoMerge
<1>7. CASE Install
  <2>1. db'.inputs = {} /\ db'.pending \subseteq db.pending /\ db'.next = db.next
    BY <1>1, <1>7, InstallFields
  <2> QED BY <1>1, <1>2, <2>1, NoMerge
<1> QED BY <1>3, <1>4, <1>5, <1>6, <1>7

LEMMA NoMergeCrashed ==
    ASSUME MemoryLost
    PROVE  MergeInv'
<1>1. pc' = "down" /\ db' = Closed BY DEF MemoryLost
<1>2. db'.inputs = {} /\ db'.pending = {} BY <1>1 DEF Closed
<1> QED BY <1>1, <1>2, NoMerge

LEMMA OpenStepKeeps ==
    ASSUME Inv, OpenStep
    PROVE  Inv'
<1>1. CASE RenameTemp BY <1>1, RenameTempFirst, RenameTempNext, NoMergeOpening DEF Inv
<1>2. CASE ~RenameTemp
  <2>1. Core'
    BY <1>2, OpenKeeps, NewDBKeeps, WriteTempKeeps, RecoverVersionKeeps, ReplayRecordKeeps,
       EndLogKeeps, NewLogKeeps DEF OpenStep
  <2> QED BY <2>1, NoMergeOpening DEF Inv
<1> QED BY <1>1, <1>2

LEMMA WorkStepKeeps ==
    ASSUME Inv, WorkStep
    PROVE  Inv'
<1>1. CASE ~db.opened /\ (BuildTable \/ SyncTable \/ WriteManifest \/ SyncManifest \/ Install)
  <2>1. Core'
    BY <1>1, BuildTableReplaying, SyncTableReplaying, WriteManifestRecovering,
       SyncManifestRecovering, InstallRecovering
  <2> QED BY <1>1, <2>1, NoMergeRecovering DEF Inv
<1>2. CASE db.opened /\ (BuildTable \/ SyncTable \/ WriteManifest \/ SyncManifest \/ Install)
  BY <1>2, BuildTableOpen, SyncTableOpen, WriteManifestOpen, SyncManifestOpen, InstallOpen
<1>3. CASE DeleteObsoleteFiles BY <1>3, CleanedKeeps, DeletedKeeps
<1>4. CASE StartFlush BY <1>4, StartFlushKeeps
<1>5. CASE StartMerge BY <1>5, StartMergeKeeps
<1>6. CASE OpenOutput BY <1>6, OpenOutputKeeps
<1>7. CASE FinishOutput BY <1>7, FinishOutputKeeps
<1>8. CASE InstallResults BY <1>8, InstallResultsKeeps
<1> QED BY <1>1, <1>2, <1>3, <1>4, <1>5, <1>6, <1>7, <1>8 DEF WorkStep

LEMMA ClientStepKeeps ==
    ASSUME Inv, ClientStep
    PROVE  Inv'
<1>1. CASE \E sync \in BOOLEAN : AddRecord(sync) BY <1>1, AddRecordKeeps
<1>2. CASE NewIterator \/ DeleteIterator BY <1>2, IteratorsKeep
<1>3. CASE SwitchMemTable BY <1>3, SwitchMemTableKeeps
<1>4. CASE FinishWrite BY <1>4, FinishWriteKeeps
<1> QED BY <1>1, <1>2, <1>3, <1>4 DEF ClientStep

LEMMA NextKeeps == Inv /\ [Next]_vars => Inv'
<1> SUFFICES ASSUME Inv, [Next]_vars PROVE Inv' OBVIOUS
<1>1. CASE OpenStep BY <1>1, OpenStepKeeps
<1>2. CASE WorkStep BY <1>2, WorkStepKeeps
<1>3. CASE ClientStep BY <1>3, ClientStepKeeps
<1>4. CASE Kill
  <2>1. MergeInv' BY <1>4, NoMergeCrashed DEF Kill
  <2> QED BY <1>4, <2>1, KillKeeps DEF Inv
<1>5. CASE LosePower
  <2>1. MergeInv' BY <1>5, NoMergeCrashed DEF LosePower
  <2> QED BY <1>5, <2>1, LosePowerKeeps DEF Inv
<1>6. CASE UNCHANGED vars BY <1>6, StutterKeeps
<1> QED BY <1>1, <1>2, <1>3, <1>4, <1>5, <1>6 DEF Next

LEMMA AlwaysInv == Spec => []Inv
BY InitInv, NextKeeps, PTL DEF Spec

\* The manifest, the memtables, the numbers and the tables that the program
\* keeps are always of their types: no number is used that was not given.
\* (VersionSet, DBImpl::Recover, NewFileNumber.)
THEOREM RecoveryTypeOK == Spec => []TypeOK
<1>1. ASSUME Inv PROVE TypeOK
  <2>1. DiskType /\ AckInv /\ MemoryType /\ db \in Database BY <1>1 DEF Inv, Core, DiskInv, MemoryType
  <2>2. /\ DOMAIN files \subseteq Name
        /\ \A n \in DOMAIN files : files[n].durable \in 0 .. Len(files[n].records)
    <3>1. ASSUME NEW n \in DOMAIN files PROVE files[n].durable \in 0 .. Len(files[n].records)
      <4>1. /\ files[n] \in File(n[1]) /\ files[n].durable <= Len(files[n].records)
        BY <2>1 DEF DiskType
      <4>2. files[n].durable \in Nat /\ Len(files[n].records) \in Nat BY <4>1 DEF File
      <4> QED BY <4>1, <4>2
    <3> QED BY <2>1, <3>1 DEF DiskType
  <2>3. \A k \in DOMAIN directories :
            directories[k].names \subseteq DOMAIN files /\ directories[k].current \in Nat
    BY <2>1, DirectoryShape DEF Dirs
  <2>4. pc \in Pc /\ db.version \in SUBSET Nat /\ db.mem \subseteq Entry /\ db.imm \subseteq Entry
    BY <2>1 DEF MemoryType, Database
  <2>5. acked \subseteq 1 .. calls /\ synced \subseteq 1 .. calls BY <2>1 DEF AckInv
  <2>6. db.edit.add \subseteq 1 .. db.next
    <3>1. CASE Opening
      <4>1. db = Closed BY <1>1, <3>1 DEF Inv, Core, OpeningInv
      <4> QED BY <4>1 DEF Closed, NoEdit
    <3>2. CASE ~Opening
      <4>1. \A t \in db.edit.add : 0 < t /\ t < db.next BY <1>1, <3>2 DEF Inv, Core, RunningInv
      <4>2. db.edit.add \subseteq Nat /\ db.next \in Nat BY <2>1 DEF Database
      <4> QED BY <4>1, <4>2
    <3> QED BY <3>1, <3>2
  <2>7. db.todo \subseteq Nat \ {0}
    <3>1. CASE Opening
      <4>1. db = Closed BY <1>1, <3>1 DEF Inv, Core, OpeningInv
      <4> QED BY <4>1 DEF Closed
    <3>2. CASE Replaying
      <4>1. db.todo \subseteq LiveLogs(Directory, Latest) BY <1>1, <3>2 DEF Inv, Core, ReplayInv
      <4> QED BY <2>1, <4>1, DirectoryShape, LogShape
    <3>3. CASE Recovering BY <1>1, <3>3 DEF Inv, Core, RecoveringInv
    <3>4. CASE db.opened BY <1>1, <3>4 DEF Inv, Core, OpenInv
    <3> QED BY <2>1, <3>1, <3>2, <3>3, <3>4, Phases
  <2>8. db.opened => db.log < db.next /\ db.manifest < db.next /\ db.logNumber <= db.log
    <3> SUFFICES ASSUME db.opened
                 PROVE  db.log < db.next /\ db.manifest < db.next /\ db.logNumber <= db.log
      OBVIOUS
    <3>1. ~Opening /\ OpenInv /\ RunningInv BY <1>1, OpenFacts
    <3> QED BY <3>1 DEF OpenInv, RunningInv
  <2>9. Pinned \cup db.pending \subseteq 1 .. db.next
    <3>0. db.pending \subseteq 1 .. db.next
      <4>1. \A t \in db.pending : 0 < t /\ t < db.next BY <1>1 DEF Inv, MergeInv
      <4>2. db.pending \subseteq Nat /\ db.next \in Nat BY <2>1 DEF Database
      <4> QED BY <4>1, <4>2
    <3>1. CASE db.opened
      <4>1. \A t \in Pinned : 0 < t /\ t < db.next BY <1>1, <3>1 DEF Inv, Core, OpenInv
      <4>2. \A p \in pins : p[2] \subseteq Nat BY <2>1 DEF MemoryType
      <4>3. Pinned \subseteq Nat /\ db.next \in Nat BY <2>1, <4>2 DEF Pinned, Database
      <4>4. Pinned \subseteq 1 .. db.next BY <4>1, <4>3
      <4> QED BY <3>0, <4>4
    <3>2. CASE ~db.opened
      <4>1. pins = {}
        BY <1>1, <2>1, <3>2, Phases DEF Inv, Core, OpeningInv, ReplayInv, RecoveringInv
      <4> QED BY <3>0, <4>1 DEF Pinned
    <3> QED BY <3>1, <3>2
  <2> QED BY <2>2, <2>3, <2>4, <2>5, <2>6, <2>7, <2>8, <2>9 DEF TypeOK, Pc
<1> QED BY <1>1, AlwaysInv, PTL

\* After any number of crashes the database can be opened, unless power was lost
\* before the record of the manifest that NewDB does not sync was durable.
\* (SetCurrentFile, LogAndApply, DeleteObsoleteFiles, VersionSet::Recover.)
THEOREM RecoveryReopens == Spec => []Reopens
<1>1. ASSUME Inv PROVE Reopens
  <2>1. pc = "broken" => Opening BY DEF Opening
  <2> QED BY <1>1, <2>1 DEF Inv, Core, OpeningInv, Reopens
<1> QED BY <1>1, AlwaysInv, PTL

\* What a write that returned has stored is there whenever the database is open:
\* after any kills, and with the sync option after losses of power too.
\* (include/leveldb/options.h:167-176; DBImpl::Write, Recover, RecoverLogFile.)
THEOREM RecoveryAckedSurvive == Spec => []AckedSurvive
<1>1. ASSUME Inv PROVE AckedSurvive
  <2>1. db.opened => acked \subseteq Writes(Contents) BY <1>1 DEF Inv, Core, OpenInv
  <2> QED BY <2>1 DEF AckedSurvive, Writes
<1> QED BY <1>1, AlwaysInv, PTL

\* No two entries that a reader could compare have one sequence number, the
\* recovered and the new ones. (max_sequence, VersionSet::SetLastSequence.)
THEOREM RecoverySequencesUnique == Spec => []SequencesUnique
<1>1. ASSUME Inv PROVE SequencesUnique
  <2> SUFFICES ASSUME db.opened, NEW e \in Contents, NEW f \in Contents,
                      e.sequence = f.sequence
               PROVE  e = f
    BY DEF SequencesUnique
  <2>1. /\ Directory \in Dirs /\ Directory.current # 0 /\ Latest \in Possible(Directory)
        /\ UniqueInv /\ Contents \subseteq Held(Directory, Latest)
    BY <1>1, OpenFacts DEF ImagesInv, RunningInv
  <2>2. e \in Held(Directory, Latest) /\ f \in Held(Directory, Latest) BY <2>1
  <2> QED BY <2>1, <2>2 DEF UniqueInv
<1> QED BY <1>1, AlwaysInv, PTL

\* Every table of the current version and of an iterator's is there and whole,
\* the outputs of a merge too, in the middle of which a flush deleted files.
\* (DeleteObsoleteFiles, pending_outputs_, AddLiveFiles, NewFileNumber.)
THEOREM RecoveryLiveTablesExist == Spec => []LiveTablesExist
<1>1. ASSUME Inv PROVE LiveTablesExist
  <2> SUFFICES ASSUME db.opened, NEW t \in db.version \cup Pinned
               PROVE  <<"table", t>> \in Directory.names /\ Table(t) # {}
    BY DEF LiveTablesExist
  <2>1. ~Opening /\ RunningInv /\ OpenInv BY <1>1, OpenFacts
  <2>2. CASE t \in db.version BY <2>1, <2>2 DEF RunningInv, Whole
  <2>3. CASE t \in Pinned BY <2>1, <2>3 DEF OpenInv
  <2> QED BY <2>2, <2>3
<1> QED BY <1>1, AlwaysInv, PTL
=============================================================================
