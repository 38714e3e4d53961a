------------------------------- MODULE Recovery -------------------------------
(***************************************************************************)
(* The files of a leveldb database: what DB::Open makes of them after the  *)
(* process was killed or the machine lost its power at any moment, and what *)
(* a writer and the background thread do to them in between.               *)
(*                                                                         *)
(* A file is a sequence of records of which a Sync covers those written so *)
(* far.  A kill loses nothing that was written; a loss of power leaves of   *)
(* each file at least what was synced, and a directory as it was at some   *)
(* moment since the last Sync (the operations on a journalled directory    *)
(* become durable in their order, with any Sync).                          *)
(***************************************************************************)
EXTENDS Naturals, Sequences, FiniteSets

CONSTANTS
    BufferSize,     \* options_.write_buffer_size, in records
    SyncOptions,    \* per write: the values its WriteOptions::sync may have
    MaxWrites,      \* bound: the writes
    MaxCrashes,     \* bound: kills and losses of power
    MaxPins,        \* bound: the iterators created
    MaxEvents       \* bound: all of these together

ASSUME RecoveryAssumption ==
    /\ BufferSize \in Nat /\ MaxWrites \in Nat /\ MaxCrashes \in Nat
    /\ SyncOptions \in [1 .. MaxWrites -> SUBSET BOOLEAN]
    /\ MaxPins \in Nat /\ MaxEvents \in Nat

VARIABLES
    files,          \* of each name: its records, and how many are durable
    directories,    \* the directory after each operation since the last Sync
    pc,             \* where DB::Open or, once it returned, the background thread is
    db,             \* the VersionSet and the DBImpl in memory
    writer,         \* the write that is in the log and has not returned
    pins,           \* the iterators, each with the version it holds
    calls, crashes, iterators,  \* how many there were of each
    acked,          \* history: the writes that returned and must not be lost
    synced,         \* history: those of them with the sync option
    unborn          \* history: a loss of power took the only manifest's record

diskVars == <<files, directories>>
countVars == <<calls, crashes, iterators>>
historyVars == <<acked, synced, unborn>>
vars == <<diskVars, pc, db, writer, pins, countVars, historyVars>>

-----------------------------------------------------------------------------
(* Files and directories.                                                   *)

Name == {"log", "table", "manifest", "temp"} \X Nat

\* A directory: its names, and the manifest that CURRENT names, or 0.
Directory == directories[Len(directories)]

\* NewWritableFile, which empties a file of that name, and Append.
Create(name, records) ==
    /\ files' = [n \in DOMAIN files \cup {name} |->
                    IF n = name THEN [records |-> records, durable |-> 0] ELSE files[n]]
    /\ directories' = Append(directories, [Directory EXCEPT !.names = @ \cup {name}])

AppendTo(name, record) ==
    files' = [files EXCEPT ![name].records = Append(@, record)]

\* Sync of a file as it is in fs; the files of no directory are gone for good.
Sync(fs, name, directory) ==
    /\ files' = [n \in directory.names |->
                    IF n = name THEN [fs[n] EXCEPT !.durable = Len(fs[n].records)]
                    ELSE fs[n]]
    /\ directories' = <<directory>>

-----------------------------------------------------------------------------
(* The state in memory.                                                     *)

Entry == [sequence : Nat, write : 1 .. MaxWrites]
NoWrite == [entry |-> [sequence |-> 0, write |-> 0], sync |-> FALSE]

NoEdit == [add |-> {}, delete |-> {}, log |-> 0]

\* The DBImpl and the VersionSet before DB::Open.
Closed == [opened |-> FALSE, described |-> FALSE, next |-> 2, log |-> 0,
           logNumber |-> 0, manifest |-> 1, last |-> 0, version |-> {},
           mem |-> {}, imm |-> {}, todo |-> {}, position |-> 0,
           work |-> "replay", output |-> 0, edit |-> NoEdit, pending |-> {},
           inputs |-> {}, left |-> {}, outputs |-> {}, builder |-> 0]

\* The entries of a table; a table that is not whole has none.
Table(t) ==
    LET records == files[<<"table", t>>].records
    IN  IF records = <<>> THEN {} ELSE records[1]

Contents == db.mem \cup db.imm \cup UNION {Table(t) : t \in db.version}

Pinned == UNION {p[2] : p \in pins}

Largest(numbers) == CHOOSE n \in numbers : \A m \in numbers : m <= n
Smallest(numbers) == CHOOSE n \in numbers : \A m \in numbers : n <= m

\* MarkFileNumberUsed.  (VersionSet::Recover calls it too, and then sets the next
\* number to the manifest's all the same.)
Used(next, number) == Largest({next, number + 1})

TypeOK ==
    /\ DOMAIN files \subseteq Name
    /\ \A n \in DOMAIN files : files[n].durable \in 0 .. Len(files[n].records)
    /\ \A k \in DOMAIN directories :
        /\ directories[k].names \subseteq DOMAIN files
        /\ directories[k].current \in Nat
    /\ pc \in {"down", "newDB", "current", "rename", "recover", "replay", "build", "sync",
               "apply", "syncManifest", "install", "clean", "idle", "merge", "broken"}
    /\ db.version \in SUBSET Nat /\ db.mem \subseteq Entry /\ db.imm \subseteq Entry
    /\ db.edit.add \subseteq 1 .. db.next /\ db.todo \subseteq Nat \ {0}
    /\ db.opened => db.log < db.next /\ db.manifest < db.next /\ db.logNumber <= db.log
    /\ Pinned \cup db.pending \subseteq 1 .. db.next
    /\ acked \subseteq 1 .. calls /\ synced \subseteq 1 .. calls

Init ==
    /\ files = [n \in {} |-> 0]
    /\ directories = <<[names |-> {}, current |-> 0]>>
    /\ pc = "down" /\ db = Closed
    /\ writer = NoWrite /\ pins = {}
    /\ calls = 0 /\ crashes = 0 /\ iterators = 0
    /\ acked = {} /\ synced = {} /\ unborn = FALSE

Bounded == calls + crashes + iterators < MaxEvents

-----------------------------------------------------------------------------
(* DB::Open.                                                                *)

\* The opener's or the background thread's step: what else it leaves alone.
Alone == UNCHANGED <<writer, pins, countVars, historyVars>>

Open ==
    /\ pc = "down"
    /\ pc' = IF Directory.current = 0 THEN "newDB" ELSE "recover"
    /\ UNCHANGED <<diskVars, db>> /\ Alone

\* NewDB: the first manifest is written and closed, not synced.
NewDB ==
    /\ pc = "newDB"
    /\ Create(<<"manifest", 1>>, <<[log |-> 0, next |-> 2, last |-> 0, tables |-> {}]>>)
    /\ pc' = "current"
    /\ UNCHANGED db /\ Alone

\* SetCurrentFile: a file with the manifest's name is written and synced ...
WriteTemp ==
    /\ pc = "current"
    /\ LET name == <<"temp", db.manifest>>
           directory == [Directory EXCEPT !.names = @ \cup {name}]
           fs == [n \in DOMAIN files \cup {name} |->
                    IF n = name THEN [records |-> <<db.manifest>>, durable |-> 0]
                    ELSE files[n]]
       IN  Sync(fs, name, directory)
    /\ pc' = "rename"
    /\ UNCHANGED db /\ Alone

\* ... and becomes CURRENT.
RenameTemp ==
    /\ pc = "rename"
    /\ directories' = Append(directories,
                             [names |-> Directory.names \ {<<"temp", db.manifest>>},
                              current |-> db.manifest])
    /\ pc' = IF db.described THEN "install" ELSE "recover"
    /\ UNCHANGED <<files, db>> /\ Alone

\* VersionSet::Recover, the search for missing tables, and the logs to replay.
RecoverVersion ==
    /\ pc = "recover"
    /\ LET name == <<"manifest", Directory.current>>
           readable == name \in Directory.names /\ files[name].records # <<>>
           record == files[name].records[Len(files[name].records)]
       IN  IF ~readable \/ ~({<<"table", t>> : t \in record.tables} \subseteq Directory.names)
           THEN /\ pc' = "broken"
                /\ UNCHANGED db
           ELSE /\ pc' = "replay"
                /\ db' = [Closed EXCEPT
                            !.manifest = record.next,
                            !.next = record.next + 1,
                            !.logNumber = record.log,
                            !.last = record.last,
                            !.version = record.tables,
                            !.todo = {n[2] : n \in {n \in Directory.names :
                                                    n[1] = "log" /\ n[2] >= record.log}}]
    /\ UNCHANGED diskVars /\ Alone

\* Mutant: max_sequence is not raised by what is replayed.
ReplayRecordOldSequence ==
    /\ pc = "replay" /\ db.todo # {}
    /\ LET log == files[<<"log", Smallest(db.todo)>>].records
       IN  /\ db.position < Len(log)
           /\ LET mem == db.mem \cup {log[db.position + 1]}
              IN  /\ db' = [db EXCEPT !.mem = mem, !.position = @ + 1]
                  /\ pc' = IF Cardinality(mem) > BufferSize THEN "build" ELSE "replay"
    /\ UNCHANGED diskVars /\ Alone

\* RecoverLogFile, record by record: a full memtable is written to a table.
ReplayRecord ==
    /\ pc = "replay" /\ db.todo # {}
    /\ LET log == files[<<"log", Smallest(db.todo)>>].records
       IN  /\ db.position < Len(log)
           /\ LET entry == log[db.position + 1]
                  mem == db.mem \cup {entry}
              IN  /\ db' = [db EXCEPT !.mem = mem, !.position = @ + 1,
                                      !.last = Largest({@, entry.sequence})]
                  /\ pc' = IF Cardinality(mem) > BufferSize THEN "build" ELSE "replay"
    /\ UNCHANGED diskVars /\ Alone

\* The end of a log: the rest is written to a table, and the log's number will
\* not be given again.
EndLog ==
    /\ pc = "replay" /\ db.todo # {}
    /\ LET log == Smallest(db.todo)
       IN  /\ db.position = Len(files[<<"log", log>>].records)
           /\ IF db.mem # {} THEN /\ pc' = "build"
                                  /\ UNCHANGED db
              ELSE /\ db' = [db EXCEPT !.todo = @ \ {log}, !.position = 0,
                                       !.next = Used(@, log)]
                   /\ UNCHANGED pc
    /\ UNCHANGED diskVars /\ Alone

\* Mutant: the number of the new log is not taken.
NewLogNumberFree ==
    /\ pc = "replay" /\ db.todo = {}
    /\ Create(<<"log", db.next>>, <<>>)
    /\ db' = [db EXCEPT !.log = db.next, !.edit.log = db.next]
    /\ pc' = "apply"
    /\ Alone

\* A new log; the recovered state will be written to a new manifest.
NewLog ==
    /\ pc = "replay" /\ db.todo = {}
    /\ Create(<<"log", db.next>>, <<>>)
    /\ db' = [db EXCEPT !.log = db.next, !.edit.log = db.next, !.next = @ + 1]
    /\ pc' = "apply"
    /\ Alone

-----------------------------------------------------------------------------
(* Shared by DB::Open and the background thread.                            *)

\* WriteLevel0Table: BuildTable of the memtable being replayed or flushed, under
\* a number that DeleteObsoleteFiles spares meanwhile.
BuildTable ==
    /\ pc = "build"
    /\ Create(<<"table", db.next>>, <<IF db.work = "replay" THEN db.mem ELSE db.imm>>)
    /\ db' = [db EXCEPT !.output = db.next, !.pending = @ \cup {db.next}, !.next = @ + 1]
    /\ pc' = "sync"
    /\ Alone

\* The table is synced and part of the edit; after a flush the logs before the
\* present one are no longer needed.
SyncTable ==
    /\ pc = "sync"
    /\ Sync(files, <<"table", db.output>>, Directory)
    /\ db' = [db EXCEPT !.edit.add = @ \cup {db.output},
                        !.edit.log = IF db.work = "replay" THEN @ ELSE db.log,
                        !.pending = @ \ {db.output},
                        !.mem = IF db.work = "replay" THEN {} ELSE @]
    /\ pc' = IF db.work = "replay" THEN "replay" ELSE "apply"
    /\ Alone

\* LogAndApply: the edit goes to the manifest, the first time to a new one.
WriteManifest ==
    /\ pc = "apply"
    /\ LET name == <<"manifest", db.manifest>>
           record == [log |-> db.edit.log, next |-> db.next, last |-> db.last,
                      tables |-> (db.version \cup db.edit.add) \ db.edit.delete]
       IN  IF db.described THEN /\ AppendTo(name, record)
                                /\ UNCHANGED directories
           ELSE Create(name, <<record>>)
    /\ pc' = "syncManifest"
    /\ UNCHANGED db /\ Alone

\* Mutant: CURRENT names a manifest that was not synced.
SyncManifestSkipped ==
    /\ pc = "syncManifest"
    /\ db' = [db EXCEPT !.described = TRUE]
    /\ pc' = IF db.described THEN "install" ELSE "current"
    /\ UNCHANGED diskVars /\ Alone

\* The manifest is synced before CURRENT may name it.
SyncManifest ==
    /\ pc = "syncManifest"
    /\ Sync(files, <<"manifest", db.manifest>>, Directory)
    /\ db' = [db EXCEPT !.described = TRUE]
    /\ pc' = IF db.described THEN "install" ELSE "current"
    /\ Alone

\* The end of LogAndApply: the new version is the current one.  After a flush its
\* memtable goes, after a merge CleanupCompaction forgets what was pending.
Install ==
    /\ pc = "install"
    /\ LET installed == [db EXCEPT !.version = (@ \cup db.edit.add) \ db.edit.delete,
                                   !.logNumber = db.edit.log, !.edit = NoEdit]
       IN  db' = CASE db.work = "flush" -> [installed EXCEPT !.imm = {}]
                   [] db.work = "merge" -> [installed EXCEPT !.pending = {}, !.inputs = {}]
                   [] db.work = "replay" -> installed
    /\ pc' = "clean"
    /\ UNCHANGED diskVars /\ Alone

\* Mutant: the outputs of a running merge are not spared.
LiveInVersions == db.version \cup Pinned

\* pending_outputs_, and the tables of the current version and of those iterators
\* hold (AddLiveFiles; the inputs of a running merge are still in the current one).
Live == db.pending \cup db.version \cup Pinned

\* Mutant: only the log being written is kept.
ObsoleteLogs ==
    {n \in Directory.names :
        \/ n[1] = "log" /\ n[2] < db.log
        \/ n[1] = "manifest" /\ n[2] < db.manifest
        \/ n[1] \in {"table", "temp"} /\ n[2] \notin Live}

\* Mutant: the present manifest is thought to be an old one.
ObsoleteManifest ==
    {n \in Directory.names :
        \/ n[1] = "log" /\ n[2] < db.logNumber
        \/ n[1] = "manifest" /\ n[2] <= db.manifest
        \/ n[1] \in {"table", "temp"} /\ n[2] \notin Live}

\* What DeleteObsoleteFiles does not keep.
Obsolete ==
    {n \in Directory.names :
        \/ n[1] = "log" /\ n[2] < db.logNumber
        \/ n[1] = "manifest" /\ n[2] < db.manifest
        \/ n[1] \in {"table", "temp"} /\ n[2] \notin Live}

\* DeleteObsoleteFiles, in the order GetChildren gives.  Then DB::Open returns, or
\* a merge goes on that a flush had interrupted.
DeleteObsoleteFiles ==
    /\ pc = "clean"
    /\ IF Obsolete = {} THEN /\ pc' = IF db.inputs = {} THEN "idle" ELSE "merge"
                             /\ db' = [db EXCEPT !.opened = TRUE]
                             /\ UNCHANGED directories
       ELSE /\ \E n \in Obsolete :
                directories' = Append(directories, [Directory EXCEPT !.names = @ \ {n}])
            /\ UNCHANGED <<pc, db>>
    /\ UNCHANGED files /\ Alone

-----------------------------------------------------------------------------
(* The database is open.                                                    *)

\* CompactMemTable, at the start of a call of the background thread and in the
\* middle of a merge, whose output may be open.
StartFlush ==
    /\ db.imm # {}
    /\ \/ pc = "idle"
       \/ pc = "merge" /\ (db.builder # 0 \/ db.left # {})
    /\ db' = [db EXCEPT !.work = "flush"]
    /\ pc' = "build"
    /\ UNCHANGED diskVars /\ Alone

\* DoCompactionWork, of all tables, unless the last merge wrote all of them.
StartMerge ==
    /\ pc = "idle" /\ db.imm = {}
    /\ Cardinality(db.version) > 1 /\ ~(db.version \subseteq db.outputs)
    /\ db' = [db EXCEPT !.inputs = db.version, !.outputs = {},
                        !.left = UNION {Table(t) : t \in db.version}, !.builder = 0]
    /\ pc' = "merge"
    /\ UNCHANGED diskVars /\ Alone

\* OpenCompactionOutputFile, and the entries that are added to the output, the
\* next ones of those left; let keys ascend with the writes.
OpenOutput ==
    /\ pc = "merge" /\ db.builder = 0
    /\ \E last \in db.left :
        LET added == {e \in db.left : e.sequence <= last.sequence}
        IN  /\ Create(<<"table", db.next>>, <<added>>)
            /\ db' = [db EXCEPT !.builder = db.next, !.left = @ \ added,
                                !.pending = @ \cup {db.next}, !.next = @ + 1]
    /\ UNCHANGED pc /\ Alone

\* FinishCompactionOutputFile: the output is synced and must be found again.
FinishOutput ==
    /\ pc = "merge" /\ db.builder # 0
    /\ <<"table", db.builder>> \in Directory.names
    /\ Sync(files, <<"table", db.builder>>, Directory)
    /\ db' = [db EXCEPT !.outputs = @ \cup {db.builder}, !.builder = 0]
    /\ UNCHANGED pc /\ Alone

\* InstallCompactionResults, when all entries are in outputs.
InstallResults ==
    /\ pc = "merge" /\ db.builder = 0 /\ db.left = {}
    /\ db' = [db EXCEPT !.work = "merge",
                        !.edit = [add |-> db.outputs, delete |-> db.inputs,
                                  log |-> db.logNumber]]
    /\ pc' = "apply"
    /\ UNCHANGED diskVars /\ Alone

\* Clients get the mutex, which the background thread keeps while it cleans up.
Unlocked == db.opened /\ pc # "clean"

\* MakeRoomForWrite: a full memtable is left to the background thread.
SwitchMemTable ==
    /\ Unlocked /\ writer = NoWrite
    /\ Cardinality(db.mem) > BufferSize /\ db.imm = {}
    /\ Create(<<"log", db.next>>, <<>>)
    /\ db' = [db EXCEPT !.log = db.next, !.next = @ + 1, !.imm = db.mem, !.mem = {}]
    /\ UNCHANGED <<pc, writer, pins, countVars, historyVars>>

AddRecord(sync) ==
    /\ Unlocked /\ writer = NoWrite
    /\ calls < MaxWrites /\ Bounded /\ Cardinality(db.mem) <= BufferSize
    /\ sync \in SyncOptions[calls + 1]
    /\ calls' = calls + 1
    /\ LET entry == [sequence |-> db.last + 1, write |-> calls + 1]
       IN  /\ writer' = [entry |-> entry, sync |-> sync]
           /\ AppendTo(<<"log", db.log>>, entry)
    /\ UNCHANGED <<directories, pc, db, pins, crashes, iterators, historyVars>>

\* The record is synced if asked for, the memtable gets the entry, Write returns.
FinishWrite ==
    /\ Unlocked /\ writer # NoWrite
    /\ IF writer.sync THEN Sync(files, <<"log", db.log>>, Directory)
       ELSE UNCHANGED diskVars
    /\ db' = [db EXCEPT !.mem = @ \cup {writer.entry}, !.last = writer.entry.sequence]
    /\ acked' = acked \cup {writer.entry.write}
    /\ synced' = IF writer.sync THEN synced \cup {writer.entry.write} ELSE synced
    /\ writer' = NoWrite
    /\ UNCHANGED <<pc, pins, countVars, unborn>>

\* NewIterator and the end of an iterator.
NewIterator ==
    /\ Unlocked /\ iterators < MaxPins /\ Bounded
    /\ iterators' = iterators + 1
    /\ pins' = pins \cup {<<iterators, db.version>>}
    /\ UNCHANGED <<diskVars, pc, db, writer, calls, crashes, historyVars>>

DeleteIterator ==
    /\ Unlocked
    /\ \E p \in pins : pins' = pins \ {p}
    /\ UNCHANGED <<diskVars, pc, db, writer, countVars, historyVars>>

-----------------------------------------------------------------------------
(* Crashes.                                                                 *)

MemoryLost ==
    /\ crashes < MaxCrashes /\ Bounded /\ pc \notin {"down", "broken"}
    /\ crashes' = crashes + 1
    /\ pc' = "down" /\ db' = Closed /\ writer' = NoWrite /\ pins' = {}
    /\ UNCHANGED <<calls, iterators, synced>>

\* The process is killed, or ends.
Kill == MemoryLost /\ UNCHANGED <<diskVars, acked, unborn>>

\* The machine loses its power.
LosePower ==
    /\ MemoryLost
    /\ \E k \in DOMAIN directories :
        LET kept == directories[k].names
            tails == {n \in kept : files[n].durable < Len(files[n].records)}
            Longest == Largest({0} \cup {Len(files[n].records) : n \in tails})
        IN  \E size \in [tails -> 0 .. Longest] :
            LET left(n) == IF n \in tails THEN size[n] ELSE files[n].durable
            IN  /\ \A n \in tails : size[n] \in files[n].durable .. Len(files[n].records)
                /\ files' = [n \in kept |-> [records |-> SubSeq(files[n].records, 1, left(n)),
                                             durable |-> left(n)]]
                /\ directories' = <<directories[k]>>
                /\ unborn' = \/ unborn
                             \/ /\ directories[k].current = 1
                                /\ \E n \in tails : n = <<"manifest", 1>> /\ size[n] = 0
    /\ acked' = acked \cap synced

-----------------------------------------------------------------------------
OpenStep ==
    \/ Open \/ NewDB \/ WriteTemp \/ RenameTemp \/ RecoverVersion
    \/ ReplayRecord \/ EndLog \/ NewLog
WorkStep ==
    \/ BuildTable \/ SyncTable \/ WriteManifest \/ SyncManifest \/ Install
    \/ DeleteObsoleteFiles \/ StartFlush \/ StartMerge
    \/ OpenOutput \/ FinishOutput \/ InstallResults
ClientStep ==
    \/ SwitchMemTable \/ \E sync \in BOOLEAN : AddRecord(sync)
    \/ FinishWrite \/ NewIterator \/ DeleteIterator

Next == OpenStep \/ WorkStep \/ ClientStep \/ Kill \/ LosePower

\* The application opens its database again, and threads run.
Fairness == WF_vars(OpenStep) /\ WF_vars(WorkStep)

Spec == Init /\ [][Next]_vars /\ Fairness

-----------------------------------------------------------------------------
\* After any crash, one in the middle of a recovery too, the database can be
\* opened: CURRENT names a readable manifest and no table of it is missing,
\* unless power was lost before the manifest NewDB does not sync was written.
\* (SetCurrentFile, LogAndApply, DeleteObsoleteFiles, VersionSet::Recover.)
Reopens == pc = "broken" => unborn

\* No write that returned is lost by a kill, and none with the sync option by a
\* loss of power, through any number of crashes and recoveries.
\* (include/leveldb/options.h:167-176; DBImpl::Recover, RecoverLogFile.)
AckedSurvive == db.opened => acked \subseteq {e.write : e \in Contents}

\* A sequence number is given once: no two entries that a reader could compare,
\* recovered or new, have the same. (max_sequence, MarkFileNumberUsed.)
SequencesUnique ==
    db.opened => \A e, f \in Contents : e.sequence = f.sequence => e = f

\* No table that the current version or an iterator reads is ever deleted or
\* overwritten, though it was the output of a merge, and in no version, when a
\* flush in the middle of the merge deleted what it took for obsolete.
\* (DeleteObsoleteFiles, pending_outputs_, AddLiveFiles, NewFileNumber.)
LiveTablesExist ==
    db.opened => \A t \in db.version \cup Pinned :
        <<"table", t>> \in Directory.names /\ Table(t) # {}

\* Opening comes to its end, however often it is interrupted.
EventuallyOpen == <>[](db.opened \/ unborn)
=============================================================================
