------------------------------ MODULE WriteQueue ------------------------------
(***************************************************************************)
(* The writers of a leveldb database (DBImpl::Write) and its background    *)
(* thread: threads queue up behind the first, which makes room in the      *)
(* memtable, writes the batches of a group to the log and to the memtable  *)
(* with the mutex released, and hands the others their result.  A full     *)
(* memtable becomes imm and is written to a table by the background        *)
(* thread, in the middle of a compaction of level 0 too.                   *)
(*                                                                         *)
(* An action holds mutex_ from its guard to its end, unless it is one of   *)
(* the steps the code takes with the mutex released; holder is the thread  *)
(* that keeps the mutex from one action to its next.  A condition variable *)
(* wakes a thread only when it is signalled.  Any call of the file system  *)
(* may fail.                                                               *)
(***************************************************************************)
EXTENDS Naturals, Sequences, FiniteSets

CONSTANTS
    Client,         \* the threads that call the database
    NoClient,
    BatchSize,      \* the entries of a batch
    BufferSize,     \* options_.write_buffer_size, in entries
    CompactionTrigger, SlowdownTrigger, StopTrigger,    \* config::kL0_...
    MaxWrites,      \* bound: the calls of Write with a batch
    MaxForced,      \* bound: the calls of TEST_CompactMemTable
    MaxErrors       \* bound: the calls of the file system that fail

ASSUME WriteQueueAssumption ==
    /\ NoClient \notin Client
    /\ BatchSize \in Nat \ {0} /\ BufferSize \in Nat
    /\ CompactionTrigger \in Nat \ {0}
    /\ SlowdownTrigger \in Nat /\ StopTrigger \in Nat
    /\ CompactionTrigger <= SlowdownTrigger /\ SlowdownTrigger <= StopTrigger
    /\ MaxWrites \in Nat /\ MaxForced \in Nat /\ MaxErrors \in Nat

VARIABLES
    pc,             \* per client: where its call stands
    call,           \* per client: the Writer of its call
    result,         \* per client: the status of its Writer, once it is done
    allowDelay,     \* of the first writer, in MakeRoomForWrite
    holder,         \* the client that keeps mutex_ between two actions
    writers,        \* writers_
    group,          \* the batches the first writer logs, and what became of them
    lastSequence,   \* versions_->LastSequence()
    mem, imm,       \* the entries of the memtables
    hasImm,         \* imm_ is not null
    tables,         \* the entries of the tables of the current version
    level0,         \* versions_->NumLevelFiles(0)
    logs, synced,   \* the records of each log, and how many a Sync has covered
    manifest,       \* what Recover would read: the log number, the tables' entries
    background,     \* the background thread
    bgError, shuttingDown,
    calls, forced, errors,  \* how many there were of each
    torn,           \* history: a record was written in part
    acked, failed,  \* history: the Writers whose write returned OK, an error
    mayReturn       \* history: the batches that may: not those after a failed Sync

clientVars == <<pc, call, result, allowDelay, holder, writers, group, calls, forced>>
memoryVars == <<lastSequence, mem, imm, hasImm, tables, level0, bgError>>
diskVars == <<logs, synced, manifest, torn>>
historyVars == <<acked, failed, mayReturn>>
vars == <<clientVars, memoryVars, diskVars, historyVars, background, shuttingDown,
          errors>>

-----------------------------------------------------------------------------
Free == NoClient
Batch == 1 .. MaxWrites

\* A Writer: its batch (0 is the null batch of TEST_CompactMemTable), its option.
Writer == [batch : 0 .. MaxWrites, sync : BOOLEAN]

\* A record of a log, its batches in the order of their numbers, which is that
\* of the queue; one that was not written whole has none.
Record == [first : Nat, batches : SUBSET Batch]
Torn == [first |-> 0, batches |-> {}]

\* How many of the batches come before b.
Place(b, batches) == Cardinality({d \in batches : d < b})

\* The entries of a record, as WriteBatchInternal::InsertInto numbers them.
Entries(record) ==
    {[sequence |-> record.first + Place(b, record.batches) * BatchSize + (i - 1),
      batch |-> b, index |-> i] :
        b \in record.batches, i \in 1 .. BatchSize}

Entry == [sequence : Nat, batch : Batch, index : 1 .. BatchSize]

NoGroup == [record |-> Torn, size |-> 0, status |-> "ok", syncError |-> FALSE]

TypeOK ==
    /\ pc \in [Client -> {"idle", "queued", "signalled", "room", "delayed", "full",
                          "woken", "logging", "syncing", "inserting", "inserted",
                          "returning", "flushing", "flushCheck"}]
    /\ call \in [Client -> Writer]
    /\ result \in [Client -> {"ok", "error"}]
    /\ allowDelay \in BOOLEAN
    /\ holder \in Client \cup {Free}
    /\ writers \in Seq(Client)
    /\ group \in [record : Record, size : Nat, status : {"ok", "error"},
                  syncError : BOOLEAN]
    /\ mem \subseteq Entry /\ imm \subseteq Entry /\ tables \subseteq Entry
    /\ lastSequence \in Nat /\ level0 \in Nat
    /\ hasImm \in BOOLEAN /\ (imm # {} => hasImm)
    /\ logs \in Seq(Seq(Record)) /\ synced \in Seq(Nat) /\ Len(synced) = Len(logs)
    /\ manifest.log \in DOMAIN logs /\ manifest.tables \subseteq Entry
    /\ background \in [at : {"idle", "scheduled", "building", "applying", "merging",
                             "installing"},
                       inputs : Nat, log : Nat]
    /\ bgError \in BOOLEAN /\ shuttingDown \in BOOLEAN
    /\ calls \in 0 .. MaxWrites /\ forced \in 0 .. MaxForced
    /\ errors \in 0 .. MaxErrors
    /\ torn \in BOOLEAN /\ acked \subseteq Writer /\ failed \subseteq Writer
    /\ mayReturn \subseteq 0 .. MaxWrites

Init ==
    /\ pc = [c \in Client |-> "idle"]
    /\ call = [c \in Client |-> [batch |-> 0, sync |-> FALSE]]
    /\ result = [c \in Client |-> "ok"]
    /\ allowDelay = FALSE /\ holder = Free
    /\ writers = <<>> /\ group = NoGroup
    /\ lastSequence = 0 /\ level0 = 0
    /\ mem = {} /\ imm = {} /\ hasImm = FALSE /\ tables = {}
    /\ logs = <<<<>>>> /\ synced = <<0>>
    /\ manifest = [log |-> 1, tables |-> {}]
    /\ background = [at |-> "idle", inputs |-> 0, log |-> 0]
    /\ bgError = FALSE /\ shuttingDown = FALSE
    /\ calls = 0 /\ forced = 0 /\ errors = 0
    /\ torn = FALSE /\ acked = {} /\ failed = {} /\ mayReturn = Batch

-----------------------------------------------------------------------------
(* Shared steps.                                                            *)

Fail == errors < MaxErrors /\ errors' = errors + 1

\* background_work_finished_signal_.SignalAll().
SignalAll(p) == [c \in Client |-> CASE p[c] = "full" -> "woken"
                                    [] p[c] = "flushing" -> "flushCheck"
                                    [] OTHER -> p[c]]

\* Mutant: work is scheduled though the database is being deleted.
ScheduledAnyway(error, flush, files) ==
    [at |-> IF ~error /\ (flush \/ files >= CompactionTrigger)
            THEN "scheduled" ELSE "idle",
     inputs |-> 0, log |-> 0]

\* MaybeScheduleCompaction, with no work scheduled.
Scheduled(error, flush, files) ==
    [at |-> IF ~shuttingDown /\ ~error /\ (flush \/ files >= CompactionTrigger)
            THEN "scheduled" ELSE "idle",
     inputs |-> 0, log |-> 0]

\* Mutant: the next writer is not signalled.
PopSilently(p, size, status) ==
    LET popped == {writers[i] : i \in 1 .. size}
    IN  /\ writers' = SubSeq(writers, size + 1, Len(writers))
        /\ result' = [c \in Client |-> IF c \in popped THEN status ELSE result[c]]
        /\ pc' = [c \in Client |-> IF c \in popped THEN "returning" ELSE p[c]]

\* The end of Write: the first size writers get their status, the next writer is
\* signalled.
Pop(p, size, status) ==
    LET popped == {writers[i] : i \in 1 .. size}
        rest == SubSeq(writers, size + 1, Len(writers))
    IN  /\ writers' = rest
        /\ result' = [c \in Client |-> IF c \in popped THEN status ELSE result[c]]
        /\ pc' = [c \in Client |->
                    IF c \in popped THEN "returning"
                    ELSE IF rest # <<>> /\ c = Head(rest) THEN "signalled"
                    ELSE p[c]]

-----------------------------------------------------------------------------
(* DBImpl::Write: the queue.                                                *)

\* The writer at the front goes on with the mutex held.
Lead(c, writer) ==
    /\ pc' = [pc EXCEPT ![c] = "room"]
    /\ holder' = c
    /\ allowDelay' = (writer.batch # 0)

Enqueue(c, writer) ==
    /\ pc[c] = "idle" /\ holder = Free /\ ~shuttingDown
    /\ call' = [call EXCEPT ![c] = writer]
    /\ writers' = Append(writers, c)
    /\ IF writers = <<>> THEN Lead(c, writer)
       ELSE /\ pc' = [pc EXCEPT ![c] = "queued"]
            /\ UNCHANGED <<holder, allowDelay>>
    /\ UNCHANGED <<result, group, memoryVars, diskVars, historyVars, background,
                   shuttingDown, errors>>

\* Put, Delete or Write of a batch.
CallWrite(c, sync) ==
    /\ calls < MaxWrites
    /\ calls' = calls + 1
    /\ Enqueue(c, [batch |-> calls + 1, sync |-> sync])
    /\ UNCHANGED forced

\* TEST_CompactMemTable, from CompactRange.
CallCompactMemTable(c) ==
    /\ forced < MaxForced
    /\ forced' = forced + 1
    /\ Enqueue(c, [batch |-> 0, sync |-> FALSE])
    /\ UNCHANGED calls

\* A signalled writer that is not done is at the front.
WakeUp(c) ==
    /\ pc[c] = "signalled" /\ holder = Free
    /\ Lead(c, call[c])
    /\ UNCHANGED <<call, result, writers, group, calls, forced, memoryVars, diskVars,
                   historyVars, background, shuttingDown, errors>>

\* A call returns; TEST_CompactMemTable goes on to wait for imm_.
Return(c) ==
    /\ pc[c] = "returning" /\ holder = Free
    /\ pc' = [pc EXCEPT ![c] = IF call[c].batch = 0 /\ result[c] = "ok"
                               THEN "flushCheck" ELSE "idle"]
    /\ LET done(status) == IF call[c].batch # 0 /\ result[c] = status THEN {call[c]} ELSE {}
       IN  acked' = acked \cup done("ok") /\ failed' = failed \cup done("error")
    /\ UNCHANGED <<call, result, allowDelay, holder, writers, group, calls, forced,
                   memoryVars, diskVars, mayReturn, background, shuttingDown, errors>>

\* Waits until imm_ is gone or will not go.
CheckFlushed(c) ==
    /\ pc[c] = "flushCheck" /\ holder = Free
    /\ pc' = [pc EXCEPT ![c] = IF hasImm /\ ~bgError THEN "flushing" ELSE "idle"]
    /\ UNCHANGED <<call, result, allowDelay, holder, writers, group, calls, forced,
                   memoryVars, diskVars, historyVars, background, shuttingDown, errors>>

-----------------------------------------------------------------------------
(* MakeRoomForWrite, one pass of its loop per action.                       *)

InRoom(c) == pc[c] = "room" /\ holder = c
Delays == allowDelay /\ level0 >= SlowdownTrigger
HasRoom(c) == call[c].batch # 0 /\ Cardinality(mem) <= BufferSize

\* Mutant: the memtable is switched while the last one is being written.
MustWaitForFiles == level0 >= StopTrigger

\* The last full memtable is still there, or level 0 has too many files.
MustWait == hasImm \/ level0 >= StopTrigger

\* The result of a write that did not get to its group.
GiveUp(c, status) ==
    /\ Pop(pc, 1, status)
    /\ holder' = Free
    /\ UNCHANGED <<call, allowDelay, group, calls, forced>>

YieldError(c) ==
    /\ InRoom(c) /\ bgError
    /\ GiveUp(c, "error")
    /\ UNCHANGED <<memoryVars, diskVars, historyVars, background, shuttingDown, errors>>

\* Sleeps a millisecond, once, with the mutex released.
Delay(c) ==
    /\ InRoom(c) /\ ~bgError /\ Delays
    /\ pc' = [pc EXCEPT ![c] = "delayed"]
    /\ holder' = Free
    /\ allowDelay' = FALSE
    /\ UNCHANGED <<call, result, writers, group, calls, forced, memoryVars, diskVars,
                   historyVars, background, shuttingDown, errors>>

\* Waits for the background thread.
WaitForRoom(c) ==
    /\ InRoom(c) /\ ~bgError /\ ~Delays /\ ~HasRoom(c) /\ MustWait
    /\ pc' = [pc EXCEPT ![c] = "full"]
    /\ holder' = Free
    /\ UNCHANGED <<call, result, allowDelay, writers, group, calls, forced, memoryVars,
                   diskVars, historyVars, background, shuttingDown, errors>>

\* The mutex is taken again after the sleep or the wait.
LookAgain(c) ==
    /\ pc[c] \in {"delayed", "woken"} /\ holder = Free
    /\ pc' = [pc EXCEPT ![c] = "room"]
    /\ holder' = c
    /\ UNCHANGED <<call, result, allowDelay, writers, group, calls, forced, memoryVars,
                   diskVars, historyVars, background, shuttingDown, errors>>

\* Mutant: sync writes go with any other.
GroupSizesAny(c) ==
    {n \in 1 .. Len(writers) :
        n = Len(writers) \/ call[writers[n + 1]].batch # 0}

\* BuildBatchGroup: the writers the first may take with it.  A sync write does
\* not go with one that is not, and only a batch can be too big for the group.
GroupSizes(c) ==
    LET fits(n) == \A i \in 2 .. n : call[writers[i]].sync => call[c].sync
    IN  {n \in 1 .. Len(writers) :
            /\ fits(n)
            /\ \/ n = Len(writers) \/ ~fits(n + 1) \/ call[writers[n + 1]].batch # 0}

\* The first writer leaves MakeRoomForWrite: a null batch is done, any other
\* takes its group to the log with the mutex released.
Proceed(c) ==
    IF call[c].batch = 0 THEN GiveUp(c, "ok")
    ELSE \E size \in GroupSizes(c) :
            /\ group' = [record |-> [first |-> lastSequence + 1,
                            batches |-> {call[writers[i]].batch : i \in 1 .. size} \ {0}],
                         size |-> size, status |-> "ok", syncError |-> FALSE]
            /\ pc' = [pc EXCEPT ![c] = "logging"]
            /\ holder' = Free
            /\ UNCHANGED <<call, result, allowDelay, writers, calls, forced>>

FindRoom(c) ==
    /\ InRoom(c) /\ ~bgError /\ ~Delays /\ HasRoom(c)
    /\ Proceed(c)
    /\ UNCHANGED <<memoryVars, diskVars, historyVars, background, shuttingDown, errors>>

\* Mutant: has_imm_ is not set.
SwitchMemTableUnnoticed(c) ==
    /\ InRoom(c) /\ ~bgError /\ ~Delays /\ ~HasRoom(c) /\ ~MustWait
    /\ logs' = Append(logs, <<>>) /\ synced' = Append(synced, 0)
    /\ imm' = mem /\ mem' = {}
    /\ background' = IF background.at = "idle" THEN Scheduled(FALSE, TRUE, level0)
                     ELSE background
    /\ Proceed(c)
    /\ UNCHANGED <<lastSequence, hasImm, tables, level0, bgError, manifest, torn,
                   historyVars, shuttingDown, errors>>

\* A new log and a new memtable; the full one is left to the background thread.
SwitchMemTable(c) ==
    /\ InRoom(c) /\ ~bgError /\ ~Delays /\ ~HasRoom(c) /\ ~MustWait
    /\ logs' = Append(logs, <<>>) /\ synced' = Append(synced, 0)
    /\ imm' = mem /\ hasImm' = TRUE /\ mem' = {}
    /\ background' = IF background.at = "idle" THEN Scheduled(FALSE, TRUE, level0)
                     ELSE background
    /\ Proceed(c)
    /\ UNCHANGED <<lastSequence, tables, level0, bgError, manifest, torn, historyVars,
                   shuttingDown, errors>>

NewLogFails(c) ==
    /\ InRoom(c) /\ ~bgError /\ ~Delays /\ ~HasRoom(c) /\ ~MustWait
    /\ Fail
    /\ GiveUp(c, "error")
    /\ UNCHANGED <<memoryVars, diskVars, historyVars, background, shuttingDown>>

-----------------------------------------------------------------------------
(* The first writer with the mutex released, and the end of its write.      *)

\* The steps change the first writer's place and its group's status only.
Step(c, next, status, syncError) ==
    /\ pc' = [pc EXCEPT ![c] = next]
    /\ group' = [group EXCEPT !.status = status, !.syncError = syncError]
    /\ UNCHANGED <<call, result, allowDelay, holder, writers, calls, forced>>

Log == Len(logs)

\* Mutant: the sequence number is published with the record.
AddRecordPublishes(c) ==
    /\ pc[c] = "logging"
    /\ logs' = [logs EXCEPT ![Log] = Append(@, group.record)]
    /\ lastSequence' = lastSequence + BatchSize * Cardinality(group.record.batches)
    /\ Step(c, IF call[c].sync THEN "syncing" ELSE "inserting", "ok", FALSE)
    /\ UNCHANGED <<mem, imm, hasImm, tables, level0, bgError, synced, manifest, torn,
                   historyVars, background, shuttingDown, errors>>

\* The record is appended and handed to the file system.
AddRecord(c) ==
    /\ pc[c] = "logging"
    /\ logs' = [logs EXCEPT ![Log] = Append(@, group.record)]
    /\ Step(c, IF call[c].sync THEN "syncing" ELSE "inserting", "ok", FALSE)
    /\ UNCHANGED <<memoryVars, synced, manifest, torn, historyVars, background,
                   shuttingDown, errors>>

\* The record is not in the log, or in part.
AddRecordFails(c) ==
    /\ pc[c] = "logging"
    /\ Fail
    /\ torn' = TRUE
    /\ logs' = [logs EXCEPT ![Log] = Append(@, Torn)]
    /\ Step(c, "inserted", "error", FALSE)
    /\ UNCHANGED <<memoryVars, synced, manifest, historyVars, background, shuttingDown>>

Sync(c) ==
    /\ pc[c] = "syncing"
    /\ synced' = [synced EXCEPT ![Log] = Len(logs[Log])]
    /\ Step(c, "inserting", "ok", FALSE)
    /\ UNCHANGED <<memoryVars, logs, manifest, torn, historyVars, background,
                   shuttingDown, errors>>

SyncFails(c) ==
    /\ pc[c] = "syncing"
    /\ Fail
    /\ mayReturn' = {w.batch : w \in acked}
                     \cup {call[d].batch : d \in {d \in Client : pc[d] = "returning" /\ result[d] = "ok"}}
    /\ Step(c, "inserted", "error", TRUE)
    /\ UNCHANGED <<memoryVars, diskVars, acked, failed, background, shuttingDown>>

\* InsertInto: entry by entry, readers may look at any time.
Insert(c) ==
    /\ pc[c] = "inserting"
    /\ LET left == Entries(group.record) \ mem
           entry == CHOOSE e \in left : \A f \in left : e.sequence <= f.sequence
       IN  /\ mem' = mem \cup {entry}
           /\ Step(c, IF left = {entry} THEN "inserted" ELSE "inserting", "ok", FALSE)
    /\ UNCHANGED <<lastSequence, imm, hasImm, tables, level0, bgError, diskVars,
                   historyVars, background, shuttingDown, errors>>

\* Mutant: only the first writer's batch is counted.
FinishCountsOne(c) ==
    /\ pc[c] = "inserted" /\ holder = Free
    /\ lastSequence' = lastSequence + BatchSize
    /\ bgError' = (bgError \/ group.syncError)
    /\ Pop(IF group.syncError /\ ~bgError THEN SignalAll(pc) ELSE pc,
           group.size, group.status)
    /\ group' = NoGroup
    /\ UNCHANGED <<call, allowDelay, holder, calls, forced, mem, imm, hasImm, tables,
                   level0, diskVars, historyVars, background, shuttingDown, errors>>

\* Mutant: a failed Sync fails the writes of its group only.
FinishForgetsError(c) ==
    /\ pc[c] = "inserted" /\ holder = Free
    /\ lastSequence' = lastSequence + BatchSize * Cardinality(group.record.batches)
    /\ Pop(pc, group.size, group.status)
    /\ group' = NoGroup
    /\ UNCHANGED <<call, allowDelay, holder, calls, forced, mem, imm, hasImm, tables,
                   level0, bgError, diskVars, historyVars, background, shuttingDown,
                   errors>>

\* The mutex is taken again: a failed Sync stops all later writes, the entries
\* become visible, the group's writers get their result.
Finish(c) ==
    /\ pc[c] = "inserted" /\ holder = Free
    /\ lastSequence' = lastSequence + BatchSize * Cardinality(group.record.batches)
    /\ bgError' = (bgError \/ group.syncError)
    /\ Pop(IF group.syncError /\ ~bgError THEN SignalAll(pc) ELSE pc,
           group.size, group.status)
    /\ group' = NoGroup
    /\ UNCHANGED <<call, allowDelay, holder, calls, forced, mem, imm, hasImm, tables,
                   level0, diskVars, historyVars, background, shuttingDown, errors>>

-----------------------------------------------------------------------------
(* The background thread: BackgroundCall, CompactMemTable, DoCompactionWork. *)

backgroundLeaves == <<call, result, allowDelay, holder, writers, group, calls, forced,
                      lastSequence, mem, logs, synced, historyVars, shuttingDown>>

Merging == background.inputs > 0

\* The end of CompactMemTable: back to the compaction it came up in, or the end
\* of BackgroundCall.
EndFlush(error, flush, files) ==
    /\ background' = IF Merging THEN [background EXCEPT !.at = "merging", !.log = 0]
                     ELSE Scheduled(error, flush, files)
    /\ pc' = SignalAll(pc)

\* The thread takes up the scheduled work: imm_ first, else level 0.
StartWork ==
    /\ background.at = "scheduled" /\ holder = Free
    /\ IF shuttingDown \/ bgError \/ (~hasImm /\ level0 < CompactionTrigger)
       THEN /\ background' = Scheduled(bgError, hasImm, level0)
            /\ pc' = SignalAll(pc)
       ELSE /\ background' = IF hasImm THEN [background EXCEPT !.at = "building"]
                             ELSE [background EXCEPT !.at = "merging", !.inputs = level0]
            /\ UNCHANGED pc
    /\ UNCHANGED <<backgroundLeaves, imm, hasImm, tables, level0, bgError, manifest,
                   torn, errors>>

\* A memtable filled up during a compaction is flushed before it goes on.
FlushFirst ==
    /\ background.at = "merging" /\ hasImm /\ ~shuttingDown /\ holder = Free
    /\ background' = [background EXCEPT !.at = "building"]
    /\ UNCHANGED <<backgroundLeaves, pc, imm, hasImm, tables, level0, bgError, manifest,
                   torn, errors>>

\* BuildTable is done; earlier logs will not be needed.
TableBuilt ==
    /\ background.at = "building" /\ holder = Free /\ ~shuttingDown
    /\ background' = [background EXCEPT !.at = "applying", !.log = Log]
    /\ UNCHANGED <<backgroundLeaves, pc, imm, hasImm, tables, level0, bgError, manifest,
                   torn, errors>>

\* BuildTable failed, or the database is being deleted.
BuildFails ==
    /\ background.at = "building" /\ holder = Free
    /\ IF shuttingDown THEN UNCHANGED errors ELSE Fail
    /\ bgError' = TRUE
    /\ EndFlush(TRUE, hasImm, level0)
    /\ UNCHANGED <<backgroundLeaves, imm, hasImm, tables, level0, manifest, torn>>

\* LogAndApply wrote the edit of a flush: the table is part of the version, in
\* level 0 or below.
FlushApplied ==
    /\ background.at = "applying" /\ holder = Free
    /\ manifest' = [log |-> background.log, tables |-> manifest.tables \cup imm]
    /\ tables' = tables \cup imm
    /\ imm' = {} /\ hasImm' = FALSE
    /\ level0' \in {level0, level0 + 1}
    /\ EndFlush(bgError, FALSE, level0')
    /\ UNCHANGED <<backgroundLeaves, bgError, torn, errors>>

\* Writing the edit failed: it is not in the manifest, in part, or it is there
\* and the Sync failed.
ApplyFails ==
    /\ background.at = "applying" /\ holder = Free
    /\ Fail
    /\ \/ UNCHANGED <<manifest, torn>>
       \/ torn' = TRUE /\ UNCHANGED manifest
       \/ /\ manifest' = [log |-> background.log, tables |-> manifest.tables \cup imm]
          /\ UNCHANGED torn
    /\ bgError' = TRUE
    /\ EndFlush(TRUE, hasImm, level0)
    /\ UNCHANGED <<backgroundLeaves, imm, hasImm, tables, level0>>

\* The outputs of a compaction of level 0 replace its inputs.
Merged ==
    /\ background.at = "merging" /\ holder = Free /\ ~shuttingDown
    /\ background' = [background EXCEPT !.at = "installing"]
    /\ UNCHANGED <<backgroundLeaves, pc, imm, hasImm, tables, level0, bgError, manifest,
                   torn, errors>>

Installed ==
    /\ background.at = "installing" /\ holder = Free
    /\ level0' = level0 - background.inputs
    /\ background' = Scheduled(bgError, hasImm, level0')
    /\ pc' = SignalAll(pc)
    /\ UNCHANGED <<backgroundLeaves, imm, hasImm, tables, bgError, manifest, torn, errors>>

\* A read, a write or the manifest failed, or the database is being deleted.
MergeFails ==
    /\ background.at \in {"merging", "installing"} /\ holder = Free
    /\ IF shuttingDown /\ background.at = "merging" THEN UNCHANGED errors ELSE Fail
    /\ \/ UNCHANGED torn
       \/ background.at = "installing" /\ torn' = TRUE
    /\ bgError' = TRUE
    /\ background' = Scheduled(TRUE, hasImm, level0)
    /\ pc' = SignalAll(pc)
    /\ UNCHANGED <<backgroundLeaves, imm, hasImm, tables, level0, manifest>>

\* ~DBImpl: no call is running; it returns when no work is scheduled.
Close ==
    /\ ~shuttingDown /\ \A c \in Client : pc[c] = "idle"
    /\ shuttingDown' = TRUE
    /\ UNCHANGED <<clientVars, memoryVars, diskVars, historyVars, background, errors>>

-----------------------------------------------------------------------------
ClientStep(c) ==
    \/ WakeUp(c) \/ Return(c) \/ CheckFlushed(c)
    \/ YieldError(c) \/ Delay(c) \/ WaitForRoom(c) \/ LookAgain(c) \/ FindRoom(c)
    \/ SwitchMemTable(c) \/ NewLogFails(c)
    \/ AddRecord(c) \/ AddRecordFails(c) \/ Sync(c) \/ SyncFails(c) \/ Insert(c)
    \/ Finish(c)

BackgroundStep ==
    \/ StartWork \/ FlushFirst \/ TableBuilt \/ BuildFails \/ FlushApplied
    \/ ApplyFails \/ Merged \/ Installed \/ MergeFails

Next ==
    \/ \E c \in Client :
        \/ \E sync \in BOOLEAN : CallWrite(c, sync)
        \/ CallCompactMemTable(c)
        \/ ClientStep(c)
    \/ BackgroundStep
    \/ Close

\* Threads that can run do run, and get the mutex; nothing makes a client call.
Fairness == (\A c \in Client : WF_vars(ClientStep(c))) /\ WF_vars(BackgroundStep)

Spec == Init /\ [][Next]_vars /\ Fairness

-----------------------------------------------------------------------------
(* What a reader and a crash would find.                                    *)

\* What Get finds: the entries no newer than the last sequence number.
Visible == {e \in mem \cup imm \cup tables : e.sequence <= lastSequence}

\* What Recover would find if it could read as many records of each log as kept
\* says: the tables, and the logs from the manifest's on.
Recovered(kept) ==
    {e.batch : e \in manifest.tables}
    \cup UNION {UNION {logs[n][i].batches : i \in 1 .. kept[n]} : n \in manifest.log .. Log}

\* The last sequence number of a record, 0 when it was not written whole.
End(record) ==
    IF record = Torn THEN 0
    ELSE record.first + BatchSize * Cardinality(record.batches) - 1

Acked(options) == {w.batch : w \in {w \in acked : w.sync \in options}}

\* No write that returned OK is lost when the process is killed at any moment,
\* sync or not (include/leveldb/options.h:174-176), as long as every record was
\* written whole: logs are given up only once their batches are in tables.
\* (DBImpl::Write, MakeRoomForWrite, CompactMemTable.)
KilledLosesNothing ==
    ~torn => Acked(BOOLEAN) \subseteq Recovered([n \in DOMAIN logs |-> Len(logs[n])])

\* No write with the sync option that returned OK is lost when the machine
\* crashes and leaves of each log only what a Sync has covered, even when it
\* was grouped with others. (include/leveldb/options.h:167-170; BuildBatchGroup.)
SyncedSurvives == ~torn => Acked({TRUE}) \subseteq Recovered(synced)

\* Sequence numbers follow the logs, as recovery needs it: a record starts after
\* the last number of every record before it, the next one will start after all
\* but the one being written, also when their writes failed, and no two entries
\* in memory or in tables have the same number.
\* (DBImpl::Write: last_sequence, SetSequence.)
SequencesFollowLog ==
    /\ \A n, m \in DOMAIN logs : \A i \in DOMAIN logs[n], j \in DOMAIN logs[m] :
        logs[m][j] # Torn /\ (n < m \/ (n = m /\ i < j))
        => End(logs[n][i]) < logs[m][j].first
    /\ \A n \in DOMAIN logs : \A i \in DOMAIN logs[n] :
        logs[n][i] = group.record \/ End(logs[n][i]) <= lastSequence
    /\ \A e, f \in mem \cup imm \cup tables : e.sequence = f.sequence => e = f

\* Once a Sync of the log failed no later write succeeds: what the log holds
\* from there on is unknown. (The comment at db_impl.cc:1227-1231.)
NothingAfterSyncError == Acked(BOOLEAN) \subseteq mayReturn

\* Every call returns: no signal is lost, nobody waits for a flush or a merge
\* that will not come, whatever fails. (The condition variables of DBImpl.)
EveryCallReturns == \A c \in Client : pc[c] # "idle" ~> pc[c] = "idle"

\* Deleting the database returns: the background thread comes to its end.
\* (DBImpl::~DBImpl.)
CloseReturns == shuttingDown ~> background.at = "idle"

\* Whoever writes, reads and fails at the same time, the database does what a
\* store would that takes up whole batches in single steps.
Store == INSTANCE AtomicWrites WITH
    content <- {<<e.batch, e.index>> : e \in Visible},
    acked <- {w.batch : w \in acked},
    failed <- {w.batch : w \in failed}
ImplementsAtomicWrites == Store!Spec
=============================================================================
