----------------------------- MODULE ImageLoader -----------------------------
(***************************************************************************)
(* SDWebImage as image views use it: sd_setImageWithURL of UIView+WebCache, *)
(* the manager's query of the caches and its download, the downloader and  *)
(* its operations.                                                         *)
(*                                                                         *)
(* Views, completions and cancellations live on the main queue, the disk   *)
(* on the serial ioQueue; the end of a download runs on another queue, in  *)
(* three steps between which the main queue may run: the callbacks are     *)
(* collected, the operation is marked finished, and its entry is removed.  *)
(***************************************************************************)
EXTENDS Naturals, Sequences, FiniteSets

CONSTANTS
    Cell,           \* the cells of a collection view
    URL,            \* the addresses of pictures
    NoURL,          \* no address, and no picture in a view
    Stored,         \* the pictures on disk from earlier sessions
    MaxFailures     \* bound: the downloads that fail

ASSUME StoredAssumption == Stored \subseteq URL

VARIABLES
    picture,        \* per view: the image it shows
    current,        \* per view: the load in its sd_operationDictionary, or 0
    loads,          \* the loads started so far (SDWebImageCombinedOperation)
    operations,     \* the downloader operations created so far
    URLOperations,  \* the downloader's entry of each address, or 0
    memory, disk,   \* the two caches
    failedURLs,     \* the manager's addresses not to be tried again
    ioQueue,        \* the blocks on the cache's ioQueue
    mainQueue,      \* the blocks on the main queue
    failures,       \* history: the addresses of failed downloads, with repetition
    raced           \* history: a callback was attached after they were collected

loaderVars == <<picture, current, loads, operations, URLOperations, memory,
                disk, failedURLs, ioQueue, mainQueue, failures, raced>>

-----------------------------------------------------------------------------
\* A cell has two image views.
View == Cell \X {"imageView", "imageProfile"}

Load == [view : View, url : URL, cancelled : BOOLEAN, operation : Nat,
         stage : {"query", "download", "done"}]

Operation == [url : URL, handlers : SUBSET Nat, removed : BOOLEAN,
              state : {"ready", "called", "finished", "cancelled"}]

Outcome == {"image", "blocked", "transient"}

LoaderTypeOK ==
    /\ picture \in [View -> URL \cup {NoURL}]
    /\ current \in [View -> 0 .. Len(loads)]
    /\ loads \in Seq(Load)
    /\ operations \in Seq(Operation)
    /\ \A o \in DOMAIN operations : operations[o].handlers \subseteq DOMAIN loads
    /\ URLOperations \in [URL -> 0 .. Len(operations)]
    /\ memory \in SUBSET URL /\ disk \in SUBSET URL /\ failedURLs \in SUBSET URL
    /\ ioQueue \in Seq([kind : {"query"}, load : DOMAIN loads]
                       \cup [kind : {"store"}, url : URL])
    /\ mainQueue \in Seq([kind : {"disk"}, load : DOMAIN loads, hit : BOOLEAN]
                         \cup [kind : {"handlers"}, loads : SUBSET (DOMAIN loads),
                               url : URL, outcome : Outcome])
    /\ failures \in Seq(URL) /\ raced \in BOOLEAN

LoaderInit ==
    /\ picture = [view \in View |-> NoURL]
    /\ current = [view \in View |-> 0]
    /\ loads = <<>> /\ operations = <<>>
    /\ URLOperations = [url \in URL |-> 0]
    /\ memory = {} /\ disk = Stored /\ failedURLs = {}
    /\ ioQueue = <<>> /\ mainQueue = <<>>
    /\ failures = <<>> /\ raced = FALSE

-----------------------------------------------------------------------------
(* On the main queue: a view is given an address.                           *)

\* Mutant: the operation is cancelled though other loads wait for it.
WithdrawCancels(l) ==
    LET o == loads[l].operation
    IN  IF o = 0 \/ operations[o].state \in {"finished", "cancelled"} THEN operations
        ELSE [operations EXCEPT ![o].handlers = @ \ {l}, ![o].state = "cancelled"]

\* The operations once a load has taken its callback back: the last one to go
\* cancels the operation.
Withdraw(l) ==
    LET o == loads[l].operation
        left == operations[o].handlers \ {l}
    IN  IF o = 0 \/ operations[o].state \in {"finished", "cancelled"} THEN operations
        ELSE [operations EXCEPT
                ![o].handlers = left,
                ![o].state = IF left = {} THEN "cancelled" ELSE @]

\* Mutant: the load of the view's earlier picture goes on.
SetImageKeepsLoad(emptied, view, url) ==
    LET l == Len(loads) + 1
        start(stage) == [view |-> view, url |-> url, cancelled |-> FALSE,
                         operation |-> 0, stage |-> stage]
        known == url \in failedURLs \cup memory
    IN  /\ loads' = Append(loads, start(IF known THEN "done" ELSE "query"))
        /\ current' = [current EXCEPT ![view] = l]
        /\ picture' = [v \in View |->
                IF v = view /\ url \in memory \ failedURLs THEN url
                ELSE IF v = view \/ v \in emptied THEN NoURL
                ELSE picture[v]]
        /\ ioQueue' = IF known THEN ioQueue
                      ELSE Append(ioQueue, [kind |-> "query", load |-> l])
        /\ UNCHANGED <<operations, URLOperations, memory, disk, failedURLs,
                       mainQueue, failures, raced>>

\* sd_setImageWithURL: the view's earlier load is cancelled, the view emptied
\* like the others prepared for reuse; an address that failed for good is not
\* tried again, an image in memory is set at once, the disk is asked later.
SetImage(emptied, view, url) ==
    LET old == current[view]
        l == Len(loads) + 1
        start(stage) == [view |-> view, url |-> url, cancelled |-> FALSE,
                         operation |-> 0, stage |-> stage]
        known == url \in failedURLs \cup memory
        cancelled == IF old = 0 THEN loads
                     ELSE [loads EXCEPT ![old].cancelled = TRUE]
    IN  /\ loads' = Append(cancelled, start(IF known THEN "done" ELSE "query"))
        /\ operations' = IF old = 0 THEN operations ELSE Withdraw(old)
        /\ current' = [current EXCEPT ![view] = l]
        /\ picture' = [v \in View |->
                IF v = view /\ url \in memory \ failedURLs THEN url
                ELSE IF v = view \/ v \in emptied THEN NoURL
                ELSE picture[v]]
        /\ ioQueue' = IF known THEN ioQueue
                      ELSE Append(ioQueue, [kind |-> "query", load |-> l])
        /\ UNCHANGED <<URLOperations, memory, disk, failedURLs, mainQueue,
                       failures, raced>>

-----------------------------------------------------------------------------
(* On the ioQueue.                                                          *)

\* queryDiskBlock: the answer goes to the main queue, unless cancelled before.
QueryDisk ==
    /\ ioQueue # <<>> /\ Head(ioQueue).kind = "query"
    /\ LET l == Head(ioQueue).load
           hit == loads[l].url \in disk
       IN  IF loads[l].cancelled
           THEN UNCHANGED <<memory, mainQueue>>
           ELSE /\ memory' = IF hit THEN memory \cup {loads[l].url} ELSE memory
                /\ mainQueue' = Append(mainQueue,
                                       [kind |-> "disk", load |-> l, hit |-> hit])
    /\ ioQueue' = Tail(ioQueue)
    /\ UNCHANGED <<picture, current, loads, operations, URLOperations, disk,
                   failedURLs, failures, raced>>

StoreToDisk ==
    /\ ioQueue # <<>> /\ Head(ioQueue).kind = "store"
    /\ disk' = disk \cup {Head(ioQueue).url}
    /\ ioQueue' = Tail(ioQueue)
    /\ UNCHANGED <<picture, current, loads, operations, URLOperations, memory,
                   failedURLs, mainQueue, failures, raced>>

-----------------------------------------------------------------------------
(* The blocks on the main queue.                                            *)

\* Mutant: the entry of the address is always the next operation.
JoinNext(l) ==
    LET o == URLOperations[loads[l].url]
        joins == o # 0 /\ operations[o].state \notin {"finished", "cancelled"}
        joined == Len(operations) + 1
    IN  /\ operations' =
            IF joins THEN [operations EXCEPT ![o].handlers = @ \cup {l}]
            ELSE Append(operations, [url |-> loads[l].url, handlers |-> {l},
                                     removed |-> FALSE, state |-> "ready"])
        /\ URLOperations' = [URLOperations EXCEPT ![loads[l].url] = joined]
        /\ loads' = [loads EXCEPT ![l].stage = "download", ![l].operation = joined]
        /\ UNCHANGED raced

\* downloadImageWithURL: joins the operation of the address that is neither
\* finished nor cancelled, or starts one.  Nothing keeps a callback from joining
\* an operation whose callbacks were collected and that is about to finish.
Join(l) ==
    LET o == URLOperations[loads[l].url]
        joins == o # 0 /\ operations[o].state \notin {"finished", "cancelled"}
        joined == IF joins THEN o ELSE Len(operations) + 1
    IN  /\ operations' =
            IF joins THEN [operations EXCEPT ![o].handlers = @ \cup {l}]
            ELSE Append(operations, [url |-> loads[l].url, handlers |-> {l},
                                     removed |-> FALSE, state |-> "ready"])
        /\ URLOperations' = [URLOperations EXCEPT ![loads[l].url] = joined]
        /\ loads' = [loads EXCEPT ![l].stage = "download", ![l].operation = joined]
        /\ raced' = (raced \/ (joins /\ operations[o].state = "called"))

\* The disk has answered: a cancelled load ends, a hit is shown, a miss is
\* downloaded.
RunDiskAnswer ==
    /\ mainQueue # <<>> /\ Head(mainQueue).kind = "disk"
    /\ LET l == Head(mainQueue).load
           ends == loads[l].cancelled \/ Head(mainQueue).hit
       IN  /\ picture' = IF Head(mainQueue).hit /\ ~loads[l].cancelled
                         THEN [picture EXCEPT ![loads[l].view] = loads[l].url]
                         ELSE picture
           /\ IF ends THEN /\ loads' = [loads EXCEPT ![l].stage = "done"]
                           /\ UNCHANGED <<operations, URLOperations, raced>>
              ELSE Join(l)
    /\ mainQueue' = Tail(mainQueue)
    /\ UNCHANGED <<current, memory, disk, failedURLs, ioQueue, failures>>

\* The collected callbacks of a download: those of loads not cancelled since
\* show the image and store it, or remember an address that failed for good.
RunHandlers ==
    /\ mainQueue # <<>> /\ Head(mainQueue).kind = "handlers"
    /\ LET block == Head(mainQueue)
           live == {l \in block.loads : ~loads[l].cancelled}
           loaded == live # {} /\ block.outcome = "image"
       IN  /\ loads' = [l \in DOMAIN loads |->
                            IF l \in block.loads THEN [loads[l] EXCEPT !.stage = "done"]
                            ELSE loads[l]]
           /\ picture' = [view \in View |->
                            IF loaded /\ \E l \in live : loads[l].view = view
                            THEN block.url ELSE picture[view]]
           /\ memory' = IF loaded THEN memory \cup {block.url} ELSE memory
           /\ ioQueue' = IF loaded
                         THEN Append(ioQueue, [kind |-> "store", url |-> block.url])
                         ELSE ioQueue
           /\ failedURLs' = IF live # {} /\ block.outcome = "blocked"
                            THEN failedURLs \cup {block.url} ELSE failedURLs
    /\ mainQueue' = Tail(mainQueue)
    /\ UNCHANGED <<current, operations, URLOperations, disk, failures, raced>>

-----------------------------------------------------------------------------
(* On the session's and the operation's own queue.                          *)

\* The download has ended: the callbacks are collected and sent to the main
\* queue (callCompletionBlocksWithImage:).
Collect(o, outcome) ==
    /\ operations[o].state = "ready"
    /\ outcome # "image" => Len(failures) < MaxFailures
    /\ operations' = [operations EXCEPT ![o].state = "called"]
    /\ mainQueue' = Append(mainQueue,
                           [kind |-> "handlers", loads |-> operations[o].handlers,
                            url |-> operations[o].url, outcome |-> outcome])
    /\ failures' = IF outcome = "image" THEN failures
                   ELSE Append(failures, operations[o].url)
    /\ UNCHANGED <<picture, current, loads, URLOperations, memory, disk,
                   failedURLs, ioQueue, raced>>

\* done: the operation is finished and forgets its callbacks.
Finish(o) ==
    /\ operations[o].state = "called"
    /\ operations' = [operations EXCEPT ![o].state = "finished", ![o].handlers = {}]
    /\ UNCHANGED <<picture, current, loads, URLOperations, memory, disk,
                   failedURLs, ioQueue, mainQueue, failures, raced>>

\* The completion block of a finished operation removes the entry of its
\* address, whosever it is by then.
RemoveEntry(o) ==
    /\ operations[o].state \in {"finished", "cancelled"}
    /\ ~operations[o].removed
    /\ operations' = [operations EXCEPT ![o].removed = TRUE]
    /\ URLOperations' = [URLOperations EXCEPT ![operations[o].url] = 0]
    /\ UNCHANGED <<picture, current, loads, memory, disk, failedURLs, ioQueue,
                   mainQueue, failures, raced>>

MainStep == RunDiskAnswer \/ RunHandlers
IOStep == QueryDisk \/ StoreToDisk
DownloadStep ==
    \E o \in DOMAIN operations :
        (\E outcome \in Outcome : Collect(o, outcome)) \/ Finish(o) \/ RemoveEntry(o)
=============================================================================
