# Verification of tribalWorldWideProof

TLA+ models of an iOS app that searches photos on Unsplash, keeps favourites in
a Firebase Realtime Database and shows photographers' profiles.  The app is
about 1,100 lines of Swift; the repository also holds its pods (100,000 lines).
Of these are modelled the write path and the listen path of the Firebase client
and the image loads of SDWebImage, because what the lists show depends on them,
and leveldb, the one pod with a concurrent, crash-prone core of its own: its
writers, its levels and compactions, its files and their recovery.

Below, `S/` stands for `src/tribalWorldWideProof/tribalWorldWideProof/` and `F/`
for `src/tribalWorldWideProof/Pods/FirebaseDatabase/FirebaseDatabase/Sources/`,
`I/` for `src/tribalWorldWideProof/Pods/SDWebImage/SDWebImage/Core/` and `L/`
for `src/tribalWorldWideProof/Pods/leveldb-library/`.

## The system

| part | state | operations | hard behaviour |
|---|---|---|---|
| search tab, `S/ViewControllers/MainVÇ/MainVC.swift` | `photos`, `currentPage`, `TotalPages`, `searchedText`, `timer` | key stroke, display of a cell, two timer blocks, three completions | timers are never invalidated, requests never cancelled, answers overtake one another, a block reads `self` half a second after its guard |
| service layer, `S/Services/*.swift` | none (each call builds its own) | one request per search page, three per profile, four Firebase operations | failures call the completion with nil twice, nothing is retried |
| favourites tab, `S/ViewControllers/FavotiteSection/FavoriteSection.swift` | `dataFirebase`, `filtroPost`, the search bar, the rows since the last reload | observer, filter, reload, tap on a row | the rows change in one block of the main queue and are reloaded in a later one |
| detail screen, `S/ViewControllers/DetailVC/DetailVC.swift` | the photo or record, `isFavoriteButtonSelected`, `isFavoriteVc` | tap on the star, open the profile | an alert before anything is stored; two detail screens, one per tab, for the same photo |
| profile screen, `S/ViewControllers/profileDetails/ProfileDetailsVC.swift` | labels, `imagePhotos`, `collectionPhotos` | timer block, three completions | completions of a screen that was left |
| Firebase client, `F/Core/FRepo.m`, `FWriteTree.m`, `FPersistentConnection.m` | write tree, server cache, outstanding puts, listens, deferred answers | set, observe, disconnect, restore, data update, answers | writes are shown before they are stored; lost connections, resent puts, answers that wait for a listen |
| server and Unsplash (outside) | the stored data; the photos of each query | answers in order; answers in any order or never | refusals, other installations, failures |
| cells, `S/Cells/PrincipalCvCell/PrincipalCvCell.swift` | two image views, two labels, the row | dequeue, setter | reused while the images of the earlier row are on their way; the setter stops at a missing address |
| image loads, `I/` | each view's load, the operations and their callbacks, caches, failed addresses | set an address, cancel, disk query, download | three queues; loads of one address share a download; a view's new load cancels its old one |
| leveldb: writers and background thread, `L/db/db_impl.cc` | queue of writers, memtables, logs, level 0, `bg_error_` | write, requested flush, flush, merge, close | group commit with the mutex released, condition variables, errors of the file system at any call |
| leveldb: versions, `L/db/version_set.cc` | the tables of each level, snapshots | write, delete, snapshot, flush, move, compact, read | a compaction works on a version that flushes change meanwhile; entries and deletion markers are dropped |
| leveldb: files, `L/db/db_impl.cc`, `version_set.cc`, `filename.cc`, `builder.cc` | logs, tables, manifests, CURRENT, file numbers | open, recover, flush, merge, delete obsolete files | a kill or a loss of power at any step, of a recovery too |
| tab bar, delegates, other pods | - | set-up, support libraries | not modelled |

How they interact: the view controllers call the service layer, whose
completions run on the main queue (`createDataTask`); Firebase operations are
blocks on the client's serial queue (`[FIRDatabaseQuery sharedQueue]`), value
events are blocks on the main queue (`FEventRaiser`).  So the app has one main
queue, one Firebase queue, the connection, and timers; what interleaves is the
order of their blocks.

The cells call SDWebImage, whose answers come back as blocks of the same main
queue.  leveldb is the store of Firebase's persistence; the app leaves that off,
so the three leveldb components stand by themselves: they meet in the version,
the logs and the memtables, which each module has in the detail it needs.

What makes each part correct: the search tab shows the text in its search bar,
without gaps or repetitions; the list shows what the database has; an alert says
what happened; a profile shows what was answered; the client never shows a
write vanish and come back, and agrees with the server when everything is quiet;
a cell shows its own row; a leveldb database is an atomic, durable map with
snapshots, whatever its background thread does and wherever it is interrupted.

## The modules

    PhotoService <- SearchFeed <- PatientFeed - - implements - -> Feed
                                    \--- SearchFeedProofs
    RealtimeDatabase <- INSTANCE - Favorites
       \--- RealtimeDatabaseProofs <- INSTANCE - FavoritesProofs (extends Favorites)
    ProfileScreen <- ProfileScreenProofs
    ImageLoader <- Cells <- CellsProofs
    Version <- LevelStore  - - implements - -> SnapshotStore
                  \--- LevelStoreProofs
    WriteQueue  - - implements - -> AtomicWrites
       \--- WriteQueueProofs
    Recovery <- RecoveryProofs

* `PhotoService` is Unsplash as the app sees it: `Total[q]` photos per query,
  in pages of `PageSize` (10 in the code).
* `SearchFeed` is `MainVC` with the fetcher and the requests.  `timers` is the
  run loop's queue: all timers have the same 0.5 s interval, so they fire in the
  order they were scheduled.  `requests` are the ones in flight, answered or
  failed in any order.  `inOrder` is a history variable: since the last key
  stroke every answer came in the order of the requests and no search failed.
* `Feed` is the promise of a paged listing; `PatientFeed` is `SearchFeed` for
  the environment the code is written for, and implements `Feed`.
* `RealtimeDatabase` is the Firebase client, the server and the websocket.  A
  write stays in `writes` (the write tree) until its answer is handed on;
  `status` merges `outstandingPuts` and `putsToAck` into it.  `View` is what a
  listener is shown: `known`, the server cache, under the client's own writes.
* `Favorites` composes the favourites tab, one detail screen per tab and the
  four Firebase operations of `NetworkService` with `RealtimeDatabase`, whose
  actions it takes as they are and extends by the value event each step raises.
* `ProfileScreen` is `ProfileDetailsVC`, any number of instances of it.
* `ImageLoader` is SDWebImage as image views use it.  `loads` are the combined
  operations, `operations` the downloads that loads of one address share.  The
  end of a download is three steps of its own queue: callbacks collected,
  operation finished, entry removed; the main queue may run between them.
  `raced` remembers that a callback was added between the first two.
* `Cells` is `PrincipalCvCell` over `ImageLoader`: the setter is two steps, since
  other queues (not the main one) run between the two image loads.
* `Version` has the pure algorithms of leveldb's `version_set.cc`: which files
  overlap, which inputs a compaction takes, what it drops, where a flush goes and
  what a lookup finds.  A table is a set of entries (key, sequence, kind).
* `LevelStore` is the store built of them, with the background thread's choice
  and installation of a compaction as separate steps.  `SnapshotStore` is the map
  with snapshots it implements.
* `WriteQueue` is `DBImpl::Write` and the background thread, step by step where
  the mutex is released or a thread waits.  `holder` keeps the mutex over several
  actions; `pc` of a thread that waits changes only by a signal.  `torn`
  remembers that a record or an edit was written in part.  `AtomicWrites` is what
  concurrent callers are promised.
* `Recovery` is the database as files: each has its records and how many a Sync
  covers; `directories` is the directory after each operation since the last
  Sync.  `unborn` remembers that power was lost before the manifest that `NewDB`
  does not sync reached the disk.  A merge takes entries from `left` to the output
  being written (`builder`) and that to `outputs`; a flush may come in between, as
  in the loop of `DoCompactionWork`, and what it deletes spares `db.pending`, which
  is `pending_outputs_`.  There is one level, which a merge takes whole (unless the
  last merge left it so), keys ascend with the writes, and the entries of an output
  are written when it is opened.

Operators ending in a description of a fault, each under a comment that begins
with "Mutant", are wrong versions of the definition that follows them.  No
specification uses them; each run is repeated with one in the place of the right
one to see that its property notices.

### State and actions against the code

| module | action | code |
|---|---|---|
| SearchFeed | `TextDidChange`, `WillDisplay` | the two delegate methods of `MainVC` |
| | `TimerFires` | the timers' blocks, `fetchImages`, `request` |
| | `Receive`, `ReceiveNothing` | `createDataTask`, `fetchImages`, the completions |
| RealtimeDatabase | `Set`, `Observe` | `FRepo set:`, `addEventRegistration:` down to `putInternal`, `sendListen` |
| | `Disconnect`, `Connect` | `onDisconnect`, `onReady` to `restoreState` |
| | `Kill` | a new process: `restoreWrites` finds nothing, persistence is off |
| | `ReceiveSnapshot`, `ReceiveData` | `onDataUpdate` |
| | `ReceiveAnswer`, `ReceiveListenResponse` | the callbacks of `sendPut` and `sendListen`, `ackPuts`, `ackWrite` |
| | `ServeListen`, `ServePut`, `RefusePut`, `ForeignWrite` | the server (outside) |
| Favorites | `OpenFavoritesTab`, `TextDidChange`, `OpenRow`, `TapMissingRow` | `viewDidLoad`, `filtroContenido`, `didSelectItemAt` |
| | `OpenPhoto`, `TapStar` | `newInstance`, `addFavoritesButtonTapped` |
| | `RunOperation`, `ClientReceives` | the blocks on the Firebase queue |
| | `RunValueEvent`, `RunReload` | the blocks on the main queue |
| ProfileScreen | `Push`, `Pop`, `TimerFires`, `Receive`, `ReceiveNothing` | `profileDetailsButtonTapped`, `setupView` and its blocks |
| Cells | `Dequeue`, `SetProfile` | `prepareForReuse` and the setter of `unslplashPhoto` up to, and from, the second address |
| ImageLoader | `SetImage` | `sd_internalSetImageWithURL`, cancelling the view's earlier load down to `cancel:` of its download |
| | `QueryDisk`, `StoreToDisk` | the blocks on the cache's ioQueue |
| | `RunDiskAnswer`, `RunHandlers` | the blocks on the main queue, with `downloadImageWithURL` (`Join`) |
| | `Collect`, `Finish`, `RemoveEntry` | `didCompleteWithError`, `done`, the completion block |
| LevelStore | `Write`, `MakeRoomForWrite`, `GetSnapshot`, `ReleaseSnapshot`, `UpdateStats`, `CompactRange` | the calls of the same names |
| | `CompactMemTable`, `MoveFile`, `BackgroundCompaction`, `ManualCompaction`, `FinishCompaction` | the background thread, `FinishCompaction` being `InstallCompactionResults` |
| WriteQueue | `CallWrite`, `CallCompactMemTable`, `WakeUp`, `Return`, `CheckFlushed` | the queue of `Write`, `TEST_CompactMemTable` |
| | `YieldError`, `Delay`, `WaitForRoom`, `LookAgain`, `FindRoom`, `SwitchMemTable`, `NewLogFails` | one pass each of `MakeRoomForWrite`, with `BuildBatchGroup` (`GroupSizes`) |
| | `AddRecord`, `Sync`, `Insert`, `Finish`, and the first two failing | the rest of `Write` |
| | `StartWork`, `FlushFirst`, `TableBuilt`, `FlushApplied`, `Merged`, `Installed`, and `...Fails` | `BackgroundCall`, `CompactMemTable`, `DoCompactionWork`, `LogAndApply` |
| | `Close` | `~DBImpl` |
| Recovery | `Open`, `NewDB`, `RecoverVersion`, `ReplayRecord`, `EndLog`, `NewLog` | `DB::Open`, `DBImpl::Recover`, `VersionSet::Recover`, `RecoverLogFile` |
| | `WriteTemp`, `RenameTemp` | `SetCurrentFile` |
| | `BuildTable`, `SyncTable`, `WriteManifest`, `SyncManifest`, `Install`, `DeleteObsoleteFiles` | `BuildTable`, `LogAndApply`, `DeleteObsoleteFiles`, for the opener and the background thread |
| | `StartFlush` (also in the middle of a merge), `StartMerge`, `OpenOutput`, `FinishOutput`, `InstallResults` | `CompactMemTable`, `BackgroundCompaction`, `DoCompactionWork` and the functions of these names with `...Compaction...` in them |
| | `SwitchMemTable`, `AddRecord`, `FinishWrite`, `NewIterator`, `DeleteIterator` | what happens to files while the database is open |
| | `Kill`, `LosePower` | (outside) |

## Hypotheses about what is outside

* Unsplash answers a page past the last one with no results, and its total does
  not change while the app runs.  `Photo` is identified by its query and place.
* The server answers in order and sends the update of the data before the answer
  to the put that caused it; the client relies on it, since an answered write
  leaves its write tree at once (`ackWrite`).  It refuses writes, never the listen, and sends data as whole records under a stamp.
* UIKit calls `textDidChange` when a cancelled search clears the search bar;
  `text` is therefore non-empty only while the search controller is active.
  Reloading a collection view reads its data source at once.
* A photo is opened in one detail screen per tab at a time.
* A download ends with an image, an error that blocks its address, or one that
  does not; the delegate and completion blocks of URLSession and NSOperation run.
* A file system call of leveldb fails or does its work.  A write that failed may
  have left part of its bytes.  In `Recovery` no call fails, but the machine may
  stop: a file keeps at least what was synced and any longer prefix of what was
  written; the operations on the directory become durable in their order
  (a journal), and a Sync of any file makes those before it durable.  On a file
  system without that order more can go wrong than is shown here.
* A condition variable wakes a thread only when it is signalled; a spurious
  wake-up would find the loop's condition as it is and wait again.

## What is checked

| run | bounds | shows |
|---|---|---|
| `search_feed` | 4 queries of 0, 3, 4 and 5 photos, pages of 2, 3 key strokes; sessions of both environments | `ShowsSearch`: when no search is on its way the rows are those of the search bar; `PagesRequestedExist`; `PageLoadsBounded`; `EventuallyShowsSearch`; the patient sessions implement `Feed` |
| `realtime_database` | 2 locations, 2 values, 3 writes, 2 troubles | `NoFlicker`, `QuietMeansEqual`, `EventuallyEqual` |
| `favorites` | 2 photos, 2 writes, 1 trouble, 2 blocks when typing | `ScreenCurrent`, `ScreenMatchesDatabase`, `AlertsAreTrue` |
| `favorites_live` | 1 write, 1 trouble | `ListEventuallyShowsSaved` |
| `profile_screen` | 2 screens | `NothingDropped`, `StayedIsFilled` |
| `cells` | 2 cells, 3 photos that share pictures, one without a user's picture, one picture not on disk, 3 rows set, 1 failed download | `ShowsItsRow`, `EventuallyShown` |
| `level_store` | 2 keys, 3 levels, up to 4 writes; one or two entries to a table or no limit; a snapshot; a requested compaction | `LevelsDisjoint`, `NewerFirst`, `ReadsRight`, and `SnapshotsKept`: the store implements `SnapshotStore` |
| `write_queue` | 2 threads, 3 batches of 2 entries, memtables of 2 or 3, triggers 1, 1, 2, one requested flush, 1 failed call | `KilledLosesNothing`, `SyncedSurvives`, `SequencesFollowLog`, `NothingAfterSyncError`, `EveryCallReturns`, `CloseReturns`, and the database implements `AtomicWrites` |
| `recovery` | 3 writes that fill a memtable each, the second not synced, 2 crashes, 1 iterator, 4 of them in all | `Reopens`, `AckedSurvive`, `SequencesUnique`, `LiveTablesExist`, `EventuallyOpen` |
| `deleted_alert`, `profile_nil`, `level_store_deleted` | 2 writes and no trouble; 2 screens; 4 writes, tables of two entries, a snapshot | three findings |

A trouble is a lost connection, a kill, a refused write or a write by another
installation.  Every passing run but `favorites_live` also checks its module's
`TypeOK`.

Why the bounds are enough: three key strokes give two searches that overtake
each other and a third that must win; with pages of 2 and totals of 5 and 3 the
last page is half full and the guard sees a page count of a shorter query.  Two
troubles give a reconnect during a reconnect, with an answer that waits for the
listen; three writes give two at one location around one elsewhere.  In
`Favorites` one trouble is enough for each kind of it between any two steps of
the app.  `MaxBlocks` only keeps the user from typing faster than the main
queue runs.  Three rows set are two cells that wait for one download and a
reuse of one of them, for the same picture or another, at any moment of it: two
would not do, since only a reused cell gives up a load.  What is not shared is
on disk, for a second download makes the run too large.  In `LevelStore` a
level holds one or two tables before it overflows, so that four writes give
flushes into different levels, moves, and compactions of overlapping files; the
options differ because whole tables, split keys and requested compactions are
too much together.  In `WriteQueue` two threads give a leader, a follower and a
new head of the queue; the second batch fills the memtable, the third must wait
for the flush of the first two, and level 0 reaches each trigger.  In
`Recovery` two crashes are the second one within the recovery from the first;
two writes give a switch of memtables, tables built by a recovery, and a merge;
the third gives a memtable that is flushed in the middle of the merge, with its
deletion of files while an output of the merge is open or finished and in no
version.  One write without the sync option gives a log whose tail may be lost
beside those that must be kept; each write of either kind is too much together.
The bounds are `MaxKeystrokes`, `MaxWrites`, `MaxTroubles`, `MaxBlocks`,
`MaxUses`, `MaxFailures`, `MaxSequence` and the fields of `Options`,
`MaxForced`, `MaxErrors`, `MaxCrashes`, `MaxPins` and `MaxEvents`.  Deadlock is
not checked: every model stops when its bounds are used up or the user does
nothing; that no call waits for ever is `EveryCallReturns`.

Fairness.  `SearchFeed` and `ProfileScreen`: timers fire and a request is
answered or fails (URLSession times out).  `RealtimeDatabase`: a disconnected
client reconnects (`tryScheduleReconnect`), the server answers, both ends read.
`Favorites`: the two queues run, and the same.  `Cells`: the setter and the
queues run, downloads end.  `WriteQueue`: each thread and the background thread
take the steps they can.  `Recovery`: the application opens its database after
a crash and the opener and the background thread go on.  Weak fairness is enough
in each, since a step once due stays due.  The user, callers, lost connections,
failures, kills and losses of power are never fair.

What the properties leave out, because the code does not keep it:

* `NoFlicker` and `AlertsAreTrue` exclude the locations another installation wrote
  or where a write was refused (`disturbed`) and, for the alerts, the writes a
  kill dropped (`lost`).  The alert of a save ("La imagen se guardó
  correctamente en favoritos", `S/ViewControllers/DetailVC/DetailVC.swift:48-50`)
  is shown before anything is stored: after a kill or a refusal it was false.
* `ShowsSearch` excludes answers that overtake (`inOrder`).  `PatientFeed` lists
  what else a patient user avoids.
* `ShowsItsRow` speaks of records with both addresses: the setter stops at a
  missing one, and the labels of the earlier row stay.
* `EventuallyShown` excludes a callback that joined a download after its
  callbacks were collected (`raced`): `done` forgets it, and the picture does not
  appear until the cell is set again.
* `LevelsDisjoint` and `ReadsRight` hold for the options of the run and under the
  hypotheses of their theorems.  With requested compactions of larger tables a
  memtable flushed in the middle of one may land in a gap of its output level
  that the output then covers (`L/db/db_impl.cc:907`); with snapshots and tables
  of two entries deletions come undone (`level_store_deleted`).
* `KilledLosesNothing` and `SyncedSurvives` exclude records written in part
  (`torn`): the log goes on after one in the same block, and recovery does not
  read what follows.
* `Reopens` and `EventuallyOpen` exclude the first manifest lost with the power
  (`unborn`): `NewDB` closes it without a sync (`L/db/db_impl.cc:202`) before
  `CURRENT` names it.

Two more things seen in `WriteQueue` that no property forbids: a requested flush
that is grouped behind an ordinary write is acknowledged without a switch of
memtables, and a compaction that goes on after a failed flush tries the flush
again although `bg_error_` is set.  And one in `Recovery`: `VersionSet::Recover`
calls `MarkFileNumberUsed` before it sets the next number, to no effect; the
manifest's next number is above the log's in any case.

### Findings

* `deleted_alert`: removing a favourite from the search tab's detail removes
  `data<created_at>`, not `data/<created_at>` (`S/Services/NetworkService.swift:140`),
  and tells the user it was removed.
* `profile_nil`: leaving a profile between its timer and an answer traps on
  `self!` (`S/ViewControllers/profileDetails/ProfileDetailsVC.swift:69`).
* `level_store_deleted`: a compaction takes the boundary files of its lower
  inputs only (`L/db/version_set.cc:1410`), drops a deletion marker
  (`L/db/db_impl.cc:951-959`) and leaves an older value of the key in the next
  file of its output level: the deleted key is found again.

## What is proved

`SearchFeedProofs`, for every set of queries, `Total`, `PageSize` and any
`MaxKeystrokes`, from the assumptions of `PhotoService` and `SearchFeed` alone:

* `SearchFeedTypeOK`: `Spec => []TypeOK`.
* `SearchFeedShowsSearch`: `Spec => []ShowsSearch`.

`ShowsSearch` speaks of a moment when no search is on its way, and says nothing
of how it got there.  The inductive `SearchInv` does.  While the last key
stroke's search has not been applied and every answer came in order, it is still
the LAST search among timers and requests, and no page request of another text
is behind it: the timers fire in order and page blocks read the newest text.
So when the last search is applied every search before it was applied earlier,
and the pages after it belong to the same text.  `LastSearchTimer`,
`NoSearchTimer`, `PagesFrom`, `OnItsWay` and `Arrived` are its parts.  Each
action preserves it by a step of its own; the lemmas on removing from a sequence
(`RemoveAtType`, `RemoveAtElements`, `DropOldest`) and on extending the rows
(`ShowsExtended`) carry the data.

* `SearchFeedPagesExist`: `Spec => []PagesRequestedExist`, from `PageInv`, which
  adds that `currentPage` and `TotalPages` are themselves bounded by the page
  count of some query: the guard of `willDisplay` compares the two.
* `SearchFeedPageLoadsBounded`: `Spec => []PageLoadsBounded`, inductive with the
  type invariant.  A timer that fires moves one load from `timers` to `requests`,
  an answer takes at most one away, and the display of the last cell adds one
  where `currentPage` advances by one.
* `PatientFeedImplementsFeed`: `SessionSpec => ImplementsFeed`, the refinement of
  `Feed`.  `PatientInv` says where a patient session stands: as long as
  `currentPage` is 1 only searches are on their way and the rows are a first page
  (`Searching`); from then on all pages up to `currentPage` are on the screen, or
  all but the last, which is the one thing on its way (`Paging`).  At the first
  display of a last cell the rows are those of `searchedText` by `SearchInv`.  The
  arithmetic of pages is in three lemmas: a page that has a next one is full
  (`PageIsFull`), slices join (`SlicesJoin`), so the first `n` pages and page
  `n + 1` are the first `n + 1` (`NextPage`).

`ProfileScreenProofs`, for any number of screens, from `NoAnswerAssumption`:

* `ProfileScreenTypeOK`: `Spec => []TypeOK`.
* `ProfileScreenNothingDropped`: `Spec => []NothingDropped`, inductive with the
  type invariant.

`RealtimeDatabaseProofs`, for any locations, values and bounds, from
`PathAssumption`, `AbsentAssumption`, `UnknownAssumption` (the marker for "nothing
heard from the server" is no data) and `BoundsAssumption`:

* `RealtimeDatabaseTypeOK`, `RealtimeDatabaseQuietMeansEqual`: the type and the
  safety invariant of the run.
* `RealtimeDatabaseNoFlicker`: `Spec => NoFlicker`, the action property.

`QuietMeansEqual` speaks of a moment when nothing is on its way; the invariant
follows what is.  The labels `a` and `u` are the numbers of the writes answered and
sent, and every message of the two ordered streams has its place between them
(`Pipe`); `Wire` ties connection and listens to the messages, `After` says that
the answer to a listen comes right behind its snapshot.  `Heard` is the heart of
agreement: the last word on a location, on the way or already taken in, is what
the server holds.  `Kept` is that of `NoFlicker`: for a location no other device
wrote to since the client's write, what the server stores, what is on the way
and what waits agree with the newest write (`Settled`, `Stored`, `Waiting`,
`Answered`).  A step either lengthens the downlink (`KeptGrows`, `KeptServed`) or
reads one message and hands on the answers before it (`KeptPops`, `ShownPops`).
The newest write of a location is found with `LeastNumber`, from the
well-foundedness of the naturals.  The library's `SelectSeq` is recursive and
says nothing to the provers, so the subsequence of unanswered writes is defined
by positions (`Subsequence`).

`FavoritesProofs`, for every set of photos, stamps and texts:

* `FavoritesScreenCurrent`: `Spec => []ScreenCurrent`, from no assumption about
  the database.  Two lemmas do the work: a step that leaves the rows alone and
  queues at most one block keeps the screen current (`RowsUntouched`), and so does
  any step that queues a reload (`RowsReloaded`).  The type of the main queue's
  blocks plays no part, so the invariant only says that it is a sequence of
  something.
* `FavoritesTypeOK`, `FavoritesScreenMatchesDatabase`,
  `FavoritesAlertsAreTrue`: from `KeyAssumption`, `TextAssumption` and
  `DatabaseAssumption`.

The last three stand on the invariant of the database, taken through `INSTANCE`:
`Assumptions` proves what that module assumes of its parameters and
`DatabaseStep` that each step here is one of the database's.  Three parts are
added.  `EventInv`: the last value event in the main queue, or with none the rows,
carries what the database shows now (`Leaves` is what the queue leaves of the
rows).  `ListenInv`: a list that is not loaded is not listened for.  `HonestInv`:
of the operations queued for a stamp the last makes its alert true; with none
queued, what stands there does, the newest write or else the saved record
(`Stands`).  What stands is changed by a write and by a kill that takes an
unanswered one, by no other step (`StandsStep`), and is what the client is shown
(`StandsShown`).

`CellsProofs`, for any cells, photos, addresses and bounds, from
`StoredAssumption` and `CellsAssumption` (each photo has its two addresses or
`NoURL`; the markers for no photo and no cell are neither):

* `CellsTypeOK`, `CellsShowsItsRow`: the type and the safety invariant of the run.

`ShowsItsRow` rests on the loader telling a cancelled load from the one a view
waits for, in four steps of three queues.  `LoaderInv` says how: a load that is
not cancelled is the `current` one of its view (`OneLoadPerView`,
`CurrentIsOwn`), and the callbacks of an operation, those collected from it and
the entry of an address are all of one address (`HandlersOfURL`, `BlocksOfURL`,
`EntriesOfURL`).  So whatever a block of the main queue puts into a view is what
the view waits for (`Calm`: all that the queues' steps may do), and the setter
sees to it that this is the row's address (`Right`, `SetterInv`).

`WriteQueueProofs`, for any callers, batches and options, from
`WriteQueueAssumption` alone:

* `WriteQueueTypeOK`: `Spec => []TypeOK`.
* `WriteQueueNothingAfterSyncError`, `WriteQueueSequencesFollowLog`,
  `WriteQueueKilledLosesNothing`, `WriteQueueSyncedSurvives`: the four safety
  invariants of the run.
* `WriteQueueImplementsAtomicWrites`: `Spec => ImplementsAtomicWrites`.

Group commit is why none of them is inductive.  A leader writes one record for
the batches behind it with the mutex released, and every promise rests on what
the others cannot do meanwhile.  `Core` says it in parts, beside the type:
`QueueInv` (the queue holds each waiting thread once, only its first is awake),
`GroupInv` (the group is the first `group.size` writers' batches, headed by one
that writes), `BackgroundInv` (what the background thread works on is there),
`CallInv` (a batch belongs to one call) and `EntryInv` (only entries of a group
being inserted have numbers above `lastSequence`, no two entries have the same).
On `Core` stand four further invariants:

* `SyncErrorInv`: what a failed sync leaves is either the group that says so or
  `bgError` with no group, and after it nothing is acknowledged.
* `LogInv`: numbers go up along the logs, and only the group's record, the last
  of the last log, goes beyond `lastSequence`.
* `DurableInv`: each acknowledged batch is found after a crash now, after the
  flush that is next (which gives up all logs but the last) and after the one
  that follows.  `KilledLosesNothing` and `SyncedSurvives` are its first part; a
  flush shortens what recovery reads, so the later parts must be known before.
* `BatchInv`, for the refinement: of a batch whose call still runs only what its
  group is inserting is stored, of a failed one nothing, of one that returns with
  OK every entry.

The refinement is then one lemma per kind of step: a call, a record's entries
becoming visible together (`Commits`), a return, and the steps that
`AtomicWrites` does not see (`NothingHappens`).  Where a least number is needed,
`LeastNumber` derives it from the well-foundedness of the naturals.

`RecoveryProofs`, for any buffer size, any number of writes, synced or not,
crashes and iterators, from `RecoveryAssumption` alone:

* `RecoveryTypeOK`, `RecoveryReopens`, `RecoveryAckedSurvive`,
  `RecoverySequencesUnique`, `RecoveryLiveTablesExist`: the type and the four
  safety invariants of the run.

They speak of what an opened database has; whether it will have it is decided by
what the next crash leaves of the disk.  A loss of power picks one of the
directories since the last Sync and of each file of it a prefix that covers what
is durable.  An IMAGE is such a directory `D` and a record `r` of the manifest that
its CURRENT names, any record that may be the last one left (`Possible(D)`).  The
invariant says of every image that it can be opened (`ImageInv`: the tables of `r`
are whole, `r`'s numbers are above all it names), that it has the synced writes
(`SyncedInv`: in `r`'s tables or in the durable part of a log `r` reads), and, of
any two, that they agree on what a sequence number stands for (`UniqueInv`) and
that none has numbers or entries beyond the latest one but in logs the latest
reads too (`LatestInv`).  `DirInv` tells which images have no record at all, and
`AckInv` what a kill leaves.  Beside the disk stand the phases of the process:
`OpeningInv`, `ReplayInv` (what was replayed so far is in the memtable or in the
tables of the edit), `RecoveringInv`, `OpenInv` (the memtables are of the logs)
and `WorkInv` (what the background thread is about to write into the manifest),
with `RunningInv`, that all in memory is of the latest image, for the last four.
`MergeInv` says what a merge may count on while flushes come and go in it: its
inputs are still in the version and its outputs in `db.pending`, which no deletion
takes; the finished outputs are whole in every directory a crash may leave; and
the outputs with what is left have the entries of the inputs, so that the version
it installs has all that the old one had.

Most steps are one of four things to the disk, each with a lemma: a file is
created under a number nobody has (`CreateKeeps`), a Sync cuts the images down
to the one of the present (`SyncKeeps`), a record is appended to the manifest
(`ManifestGrows`) or to the log (`LogGrows`), a name goes that no image needs
(`DeleteKeeps`).  Of the images after each of them `ComesFrom` says which image
before it had as much.  The step that is different is `RenameTemp`, which makes
an image of another manifest (`RenameKeeps`), and the loss of power, after which
the images are a part of what they were (`PowerLost`).

`LevelStoreProofs`, for any keys, levels, limits, table sizes, writes and
snapshots, from `VersionAssumption` and `StoreAssumption`:

* `StoreTypeInv`, `LevelStoreTypeOK`: `Spec => []TypeOK`, by an invariant that
  adds what `TypeOK` leaves open of tables, versions and a running compaction.
* `LevelStoreLevelsDisjoint`, `LevelStoreNewerFirst`: in every version from level 1
  on tables do not overlap, and of one key a level has nothing newer than a level
  above it.  Hypothesis: `NoHoles`.
* `LevelStoreReadsRight`: at the present and at every snapshot a lookup finds what
  was written last.  `LevelStoreSnapshotsKept`: `Spec => SnapshotsKept`, the
  refinement of `SnapshotStore`.  Hypotheses: `NoHoles` and `Tidy`.
* `LevelStoreWritesFound`: with deletions and snapshots together too, a key whose
  last write was a value is found with it, at the present and at every snapshot.
  Hypothesis: `NoHoles`.

`NoHoles` says that flushes go to level 0 or that no compaction is requested: the
app requests none, and with both `LevelsDisjoint` is false of the code (see "What
the properties leave out"). `Tidy` says that no store both deletes keys and takes
snapshots (either is allowed, in any number). The Firebase client deletes and never
calls `GetSnapshot`, so this covers its use; with both, `ReadsRight` is false of the
code (finding `level_store_deleted`), and `WritesFound` is what is left of it: a
marker may be lost, a value never.

A compaction is chosen in one version and installed in another, flushes having
added tables meanwhile, so nothing about the current version alone is inductive.
Four invariants are, each on top of the one before:

* `TypeInv`: tables are not empty, their numbers are their own and below the
  next; what a compaction works on are tables of their levels.
* `OrderInv`: the current version is `Layered` (tables of a level sorted and
  disjoint from level 1 on, a deeper table never newer for a key); the memtable,
  the one being flushed and the tables are `Sequenced`; and of the compaction
  that runs, `Running` says what is still true of the CURRENT version: its inputs
  are there, no table of the output level but its inputs reaches between them, so
  that its output fits in, and no table left behind in the level is older.  A
  flush keeps it because it goes no deeper than what it overlaps
  (`PickLevelForMemTableOutput`).
* `KeyInv`: when a marker may go.  Without deletions there are no markers.  Without
  snapshots, from level 1 on a key is in one table of a level (`Whole`), for a
  merge then keeps one entry of each key; and a running compaction is `Alone`: its
  inputs hold every entry of their keys that is in the output level, all of them
  old enough to be dropped, and the tables below are those `IsBaseLevelForKey`
  looks at or newer ones.  So a marker that is dropped leaves only newer entries
  of its key behind (`MarkerLast`).
* `ViewInv`: a reader at the present or at a snapshot that is kept is shown
  (`Shows`) the write it should be, or nothing after a deletion. A merge drops an
  entry only where a newer one hides it from every snapshot, since the compaction's
  smallest snapshot is at most every one that is kept.

`Version` is written with recursive functions: bisection, the widening of a range,
the growth of inputs by boundary tables, the outputs of a merge. `Recursive` shows
that a function that steps from each number to the next exists and `AlongIt` that
what every step keeps holds all along, both from the least number of a set of
naturals (`LeastNumber`). Each closure has an invariant of its rounds and a measure,
and only what the proofs use of it is stated: that what the widening or the growth
ends with covers what it must, that the outputs cut the kept entries into disjoint
pieces in order, that the level of a lookup that is found first holds the newest
entry.

Only model-checked: liveness (`EventuallyShowsSearch`, `EventuallyEqual`,
`ListEventuallyShowsSaved`, `StayedIsFilled`, `EventuallyShown`, `EveryCallReturns`,
`CloseReturns`, `EventuallyOpen`), which is beyond the prover.  `ReadsRight` and
`SnapshotsKept` of stores that both delete and take snapshots, in the options of
`level_store`, where they hold.

## What is not modelled

Of the app: layout, labels, URLs, headers and JSON (an answer decodes or not);
the data source methods of the profile screen; the setter of `favoritePhoto`,
which repeats that of `unslplashPhoto`; the delegates and the tab bar, which only
set up.  `updateSearchResults` of `FavoriteSection` is dead code.  A record is its
photo: that its description is read under another name than it is written
(`FavoriteSection.swift:63`) does not show.

Of Firebase: transactions, merges, queries, gets, onDisconnect operations,
authentication, refused listens, retry delays and persistence, which this app
does not use; the wire below the ordered stream of messages.

Of SDWebImage: decoding, transformers, animated images, prefetching, progress,
priorities and the expiry of caches.

Of leveldb: `reuse_logs` (off unless asked for), `RepairDB`, `DestroyDB`, the
merging cursors of iterators (an iterator holds a version, no more), bytes in
logs, blocks and tables, caches, filters and skip lists.  The three leveldb
modules are not composed: a store with levels, writers and files at once is out
of the model checker's reach, and each abstracts the others' part to what it
needs (`WriteQueue` to the entries in tables, `Recovery` to one level).

The remaining pods are Google's support libraries and nanopb, vendored as they
are: codecs, logging, configuration and telemetry, with no state this app's
behaviour depends on.  They are most of the repository's C and Objective-C, so
the definitions here cover a small share of its lines.

## Plan

1. (done) The app: `SearchFeed`, `Feed`, `PatientFeed`; `RealtimeDatabase`;
   `Favorites`; `ProfileScreen`; `Cells`; their first theorems.
2. (done) What it stands on: `ImageLoader`; `Version`, `LevelStore`,
   `SnapshotStore`; `WriteQueue`, `AtomicWrites`; `Recovery`.
3. (done) Proofs: `WriteQueue` and its refinement; `Recovery`; the refinement of
   `Feed`; `RealtimeDatabase`, and `Favorites` on top of it; `Cells`.
4. (done) Proofs: `LevelStore`, its order, its reads and its refinement.
