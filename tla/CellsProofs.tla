---------------------------- MODULE CellsProofs ----------------------------
(* Theorems about Cells, for any cells, photos, addresses and bounds: the    *)
(* invariant of the loader, which is where a cancelled load is told from the *)
(* one a view waits for, and on top of it that of the setter.               *)
EXTENDS Cells, TLAPS

-----------------------------------------------------------------------------
(* The invariant.                                                           *)

\* A load that is not cancelled is the one its view waits for.
OneLoadPerView ==
    \A l \in DOMAIN loads : loads[l].cancelled \/ current[loads[l].view] = l

CurrentIsOwn ==
    \A view \in View : current[view] # 0 => loads[current[view]].view = view

\* The callbacks of an operation, and those collected from it, are of loads of
\* its address, and so is the operation under an address.
HandlersOfURL ==
    \A o \in DOMAIN operations : \A l \in operations[o].handlers :
        loads[l].url = operations[o].url

EntriesOfURL ==
    \A url \in URL : URLOperations[url] # 0 => operations[URLOperations[url]].url = url

BlocksOfURL ==
    \A i \in DOMAIN mainQueue : mainQueue[i].kind = "handlers" =>
        \A l \in mainQueue[i].loads : loads[l].url = mainQueue[i].url

LoaderInv ==
    /\ LoaderTypeOK
    /\ OneLoadPerView
    /\ CurrentIsOwn
    /\ HandlersOfURL
    /\ EntriesOfURL
    /\ BlocksOfURL

\* A view of a cell waits for, or shows, the address of the cell's row.
Right(c, view) ==
    /\ current[<<c, view>>] # 0
    /\ loads[current[<<c, view>>]].url = Address(c, view)
    /\ picture[<<c, view>>] \in {NoURL, Address(c, view)}

\* A setter that has begun has set the first view right, one that ran to its end
\* both of them and the labels.
SetterInv(c) ==
    /\ setting = c => Address(c, "imageView") # NoURL /\ Right(c, "imageView")
    /\ Complete(c) => /\ label[c] = row[c]
                      /\ Right(c, "imageView")
                      /\ Right(c, "imageProfile")

CellsInv ==
    /\ TypeOK
    /\ LoaderInv
    /\ \A c \in Cell : SetterInv(c)

-----------------------------------------------------------------------------
(* Sequences, and the types of the two queues.                              *)

LEMMA Appended ==
    ASSUME NEW S, NEW s \in Seq(S), NEW e \in S
    PROVE  /\ Append(s, e) \in Seq(S)
           /\ Len(Append(s, e)) = Len(s) + 1
           /\ \A i \in 1 .. Len(s) : Append(s, e)[i] = s[i]
           /\ Append(s, e)[Len(s) + 1] = e
OBVIOUS

LEMMA Shortened ==
    ASSUME NEW S, NEW s \in Seq(S), s # <<>>
    PROVE  /\ Tail(s) \in Seq(S)
           /\ Len(s) \in Nat \ {0}
           /\ Len(Tail(s)) = Len(s) - 1
           /\ \A i \in 1 .. Len(s) - 1 : Tail(s)[i] = s[i + 1]
           /\ Head(s) = s[1]
           /\ Head(s) \in S
OBVIOUS

LEMMA Replaced ==
    ASSUME NEW S, NEW s \in Seq(S), NEW i \in 1 .. Len(s), NEW e \in S
    PROVE  /\ [s EXCEPT ![i] = e] \in Seq(S)
           /\ Len([s EXCEPT ![i] = e]) = Len(s)
           /\ \A j \in 1 .. Len(s) : [s EXCEPT ![i] = e][j] = IF j = i THEN e ELSE s[j]
OBVIOUS

IOBlock(ls) == [kind : {"query"}, load : ls] \cup [kind : {"store"}, url : URL]

DiskBlock(ls) == [kind : {"disk"}, load : ls, hit : BOOLEAN]

HandlersBlock(ls) ==
    [kind : {"handlers"}, loads : SUBSET ls, url : URL, outcome : Outcome]

MainBlock(ls) == DiskBlock(ls) \cup HandlersBlock(ls)

\* LoaderTypeOK with the blocks of the queues named.
LoaderTyped ==
    /\ picture \in [View -> URL \cup {NoURL}]
    /\ current \in [View -> 0 .. Len(loads)]
    /\ loads \in Seq(Load)
    /\ operations \in Seq(Operation)
    /\ \A o \in DOMAIN operations : operations[o].handlers \subseteq DOMAIN loads
    /\ URLOperations \in [URL -> 0 .. Len(operations)]
    /\ memory \in SUBSET URL /\ disk \in SUBSET URL /\ failedURLs \in SUBSET URL
    /\ ioQueue \in Seq(IOBlock(DOMAIN loads))
    /\ mainQueue \in Seq(MainBlock(DOMAIN loads))
    /\ failures \in Seq(URL) /\ raced \in BOOLEAN

LEMMA LoaderTypes == (LoaderTypeOK <=> LoaderTyped) /\ (LoaderTypeOK' <=> LoaderTyped')
BY DEF LoaderTyped, LoaderTypeOK, IOBlock, MainBlock, DiskBlock, HandlersBlock

\* A block stays one when loads are added.
LEMMA BlocksStay ==
    ASSUME NEW A, NEW B, A \subseteq B
    PROVE  /\ Seq(IOBlock(A)) \subseteq Seq(IOBlock(B))
           /\ Seq(MainBlock(A)) \subseteq Seq(MainBlock(B))
<1>1. IOBlock(A) \subseteq IOBlock(B) BY DEF IOBlock
<1>2. MainBlock(A) \subseteq MainBlock(B) BY DEF MainBlock, DiskBlock, HandlersBlock
<1> QED BY <1>1, <1>2

-----------------------------------------------------------------------------
(* What the queues' steps leave alone.                                      *)

\* No load of a view is added, cancelled or given another address; a picture
\* that comes is the one its view waits for.
Calm ==
    /\ current' = current
    /\ loads' \in Seq(Load)
    /\ Len(loads') = Len(loads)
    /\ \A l \in 1 .. Len(loads) :
            /\ loads'[l].url = loads[l].url
            /\ loads'[l].view = loads[l].view
            /\ loads'[l].cancelled = loads[l].cancelled
    /\ \A view \in View :
            \/ picture'[view] = picture[view]
            \/ current[view] # 0 /\ picture'[view] = loads[current[view]].url

\* Then each view keeps its load, and loads the addresses they are known under.
LEMMA CalmKeeps ==
    ASSUME LoaderInv, Calm
    PROVE  /\ OneLoadPerView' /\ CurrentIsOwn'
           /\ operations' = operations => HandlersOfURL'
           /\ mainQueue' = mainQueue => BlocksOfURL'
<1>1. /\ loads \in Seq(Load) /\ DOMAIN loads = 1 .. Len(loads)
      /\ DOMAIN loads' = DOMAIN loads /\ Len(loads) \in Nat
      /\ current \in [View -> 0 .. Len(loads)]
  BY DEF LoaderInv, LoaderTypes, LoaderTypeOK, Calm
<1>2. OneLoadPerView' BY <1>1 DEF OneLoadPerView, LoaderInv, Calm
<1>3. CurrentIsOwn' BY <1>1 DEF CurrentIsOwn, LoaderInv, Calm
<1>4. ASSUME operations' = operations PROVE HandlersOfURL'
  <2>1. \A o \in DOMAIN operations : operations[o].handlers \subseteq DOMAIN loads
    BY DEF LoaderInv, LoaderTypeOK
  <2> QED BY <1>1, <1>4, <2>1 DEF HandlersOfURL, LoaderInv, Calm
<1>5. ASSUME mainQueue' = mainQueue PROVE BlocksOfURL'
  <2>1. mainQueue \in Seq(MainBlock(DOMAIN loads)) BY LoaderTypes DEF LoaderInv, LoaderTyped
  <2>2. \A i \in DOMAIN mainQueue : mainQueue[i].kind = "handlers" =>
            mainQueue[i].loads \subseteq DOMAIN loads
    BY <2>1 DEF MainBlock, DiskBlock, HandlersBlock
  <2> QED BY <1>1, <1>5, <2>2 DEF BlocksOfURL, LoaderInv, Calm
<1> QED BY <1>2, <1>3, <1>4, <1>5

-----------------------------------------------------------------------------
(* The steps of the ioQueue.                                                *)

LEMMA QueryDiskKeeps ==
    ASSUME LoaderInv, QueryDisk
    PROVE  LoaderInv' /\ Calm
<1>1. LoaderTyped BY LoaderTypes DEF LoaderInv
<1>2. /\ loads' = loads /\ current' = current /\ picture' = picture
      /\ operations' = operations /\ URLOperations' = URLOperations
      /\ ioQueue # <<>> /\ ioQueue' = Tail(ioQueue)
      /\ disk' = disk /\ failedURLs' = failedURLs
      /\ failures' = failures /\ raced' = raced
  BY DEF QueryDisk
<1>3. Calm BY <1>1, <1>2 DEF Calm, LoaderTyped
<1>4. /\ Head(ioQueue) \in IOBlock(DOMAIN loads)
      /\ ioQueue' \in Seq(IOBlock(DOMAIN loads))
  BY <1>1, <1>2, Shortened DEF LoaderTyped
<1> DEFINE l == Head(ioQueue).load
           block == [kind |-> "disk", load |-> l, hit |-> loads[l].url \in disk]
<1>5. Head(ioQueue).kind = "query" BY DEF QueryDisk
<1>6. l \in DOMAIN loads BY <1>4, <1>5 DEF IOBlock
<1>7. loads[l] \in Load BY <1>1, <1>6 DEF LoaderTyped
<1>8. memory' \in SUBSET URL BY <1>1, <1>7 DEF QueryDisk, LoaderTyped, Load
<1>9. mainQueue' = mainQueue \/ mainQueue' = Append(mainQueue, block)
  BY DEF QueryDisk
<1>10. block \in MainBlock(DOMAIN loads) BY <1>6 DEF MainBlock, DiskBlock
<1>11. mainQueue' \in Seq(MainBlock(DOMAIN loads))
  <2>1. mainQueue \in Seq(MainBlock(DOMAIN loads)) BY <1>1 DEF LoaderTyped
  <2>2. Append(mainQueue, block) \in Seq(MainBlock(DOMAIN loads))
    BY <2>1, <1>10, Appended
  <2> HIDE DEF block
  <2> QED BY <2>1, <2>2, <1>9
<1>12. LoaderTyped' BY <1>1, <1>2, <1>4, <1>8, <1>11 DEF LoaderTyped
<1>13. BlocksOfURL'
  <2>1. mainQueue \in Seq(MainBlock(DOMAIN loads)) BY <1>1 DEF LoaderTyped
  <2>2. CASE mainQueue' = Append(mainQueue, block)
    <3>1. block.kind # "handlers" OBVIOUS
    <3>2. /\ Len(mainQueue') = Len(mainQueue) + 1
          /\ \A i \in 1 .. Len(mainQueue) : mainQueue'[i] = mainQueue[i]
          /\ mainQueue'[Len(mainQueue) + 1] = block
      BY <2>1, <2>2, <1>10, Appended
    <3> HIDE DEF block
    <3>3. DOMAIN mainQueue' = 1 .. Len(mainQueue) + 1 BY <3>2, <1>11
    <3>4. \A i \in 1 .. Len(mainQueue) + 1 :
                i \in DOMAIN mainQueue \/ i = Len(mainQueue) + 1
      BY <2>1
    <3> QED BY <1>2, <2>1, <3>1, <3>2, <3>3, <3>4 DEF BlocksOfURL, LoaderInv
  <2> QED BY <1>9, <2>2, <1>3, CalmKeeps
<1> QED BY <1>2, <1>3, <1>12, <1>13, CalmKeeps, LoaderTypes DEF LoaderInv, EntriesOfURL

LEMMA StoreToDiskKeeps ==
    ASSUME LoaderInv, StoreToDisk
    PROVE  LoaderInv' /\ Calm
<1>1. LoaderTyped BY LoaderTypes DEF LoaderInv
<1>2. /\ loads' = loads /\ current' = current /\ picture' = picture
      /\ operations' = operations /\ URLOperations' = URLOperations
      /\ ioQueue # <<>> /\ ioQueue' = Tail(ioQueue)
      /\ Head(ioQueue).kind = "store" /\ disk' = disk \cup {Head(ioQueue).url}
      /\ memory' = memory /\ failedURLs' = failedURLs
      /\ mainQueue' = mainQueue /\ failures' = failures /\ raced' = raced
  BY DEF StoreToDisk
<1>3. Calm BY <1>1, <1>2 DEF Calm, LoaderTyped
<1>4. /\ Head(ioQueue) \in IOBlock(DOMAIN loads)
      /\ ioQueue' \in Seq(IOBlock(DOMAIN loads))
  BY <1>1, <1>2, Shortened DEF LoaderTyped
<1>5. Head(ioQueue).url \in URL BY <1>2, <1>4 DEF IOBlock
<1>6. LoaderTyped' BY <1>1, <1>2, <1>4, <1>5 DEF LoaderTyped
<1> QED BY <1>2, <1>3, <1>6, CalmKeeps, LoaderTypes DEF LoaderInv, EntriesOfURL

-----------------------------------------------------------------------------
(* The steps of the session's and the operations' own queues.               *)

\* An operation changes, but not its address; its callbacks become no more.
LEMMA OperationChanges ==
    ASSUME LoaderInv, NEW o \in DOMAIN operations, NEW new \in Operation,
           new.url = operations[o].url, new.handlers \subseteq operations[o].handlers,
           operations' = [operations EXCEPT ![o] = new], loads' = loads
    PROVE  /\ operations' \in Seq(Operation)
           /\ Len(operations') = Len(operations)
           /\ \A n \in DOMAIN operations' : operations'[n].handlers \subseteq DOMAIN loads
           /\ \A n \in DOMAIN operations : operations'[n].url = operations[n].url
           /\ HandlersOfURL'
<1>1. LoaderTyped BY LoaderTypes DEF LoaderInv
<1>2. /\ operations \in Seq(Operation) /\ o \in 1 .. Len(operations)
      /\ \A n \in 1 .. Len(operations) : operations[n].handlers \subseteq DOMAIN loads
  BY <1>1 DEF LoaderTyped
<1>3. /\ operations' \in Seq(Operation)
      /\ Len(operations') = Len(operations)
      /\ \A n \in 1 .. Len(operations) :
            operations'[n] = IF n = o THEN new ELSE operations[n]
  BY <1>2, Replaced
<1>4. DOMAIN operations' = 1 .. Len(operations) /\ DOMAIN operations = 1 .. Len(operations)
  BY <1>2, <1>3
<1>5. \A n \in 1 .. Len(operations) :
        /\ operations'[n].url = operations[n].url
        /\ operations'[n].handlers \subseteq operations[n].handlers
  BY <1>3
<1>6. HandlersOfURL' BY <1>4, <1>5 DEF HandlersOfURL, LoaderInv
<1> QED BY <1>2, <1>3, <1>4, <1>5, <1>6

\* With the addresses of the operations the entries stay right.
LEMMA EntriesStay ==
    ASSUME LoaderInv, Len(operations') >= Len(operations),
           \A n \in DOMAIN operations : operations'[n].url = operations[n].url,
           \A url \in URL : URLOperations'[url] \in {0, URLOperations[url]}
    PROVE  EntriesOfURL'
<1>1. /\ operations \in Seq(Operation)
      /\ URLOperations \in [URL -> 0 .. Len(operations)]
  BY LoaderTypes DEF LoaderInv, LoaderTyped
<1> SUFFICES ASSUME NEW url \in URL, URLOperations'[url] # 0
             PROVE  operations'[URLOperations'[url]].url = url
  BY DEF EntriesOfURL
<1>2. URLOperations'[url] = URLOperations[url] /\ URLOperations[url] \in DOMAIN operations
  BY <1>1
<1> QED BY <1>2 DEF EntriesOfURL, LoaderInv

LEMMA CollectKeeps ==
    ASSUME LoaderInv, NEW o \in DOMAIN operations, NEW outcome \in Outcome,
           Collect(o, outcome)
    PROVE  LoaderInv' /\ Calm
<1>1. LoaderTyped BY LoaderTypes DEF LoaderInv
<1> DEFINE new == [operations[o] EXCEPT !.state = "called"]
           block == [kind |-> "handlers", loads |-> operations[o].handlers,
                     url |-> operations[o].url, outcome |-> outcome]
<1>2. /\ loads' = loads /\ current' = current /\ picture' = picture
      /\ operations' = [operations EXCEPT ![o] = new]
      /\ URLOperations' = URLOperations /\ ioQueue' = ioQueue
      /\ disk' = disk /\ memory' = memory /\ failedURLs' = failedURLs
      /\ mainQueue' = Append(mainQueue, block) /\ raced' = raced
  BY DEF Collect
<1>3. operations[o] \in Operation /\ operations[o].handlers \subseteq DOMAIN loads
  BY <1>1 DEF LoaderTyped
<1>4. new \in Operation /\ new.url = operations[o].url
      /\ new.handlers = operations[o].handlers
  BY <1>3 DEF Operation
<1>5. block \in MainBlock(DOMAIN loads) BY <1>3 DEF MainBlock, HandlersBlock, Operation
<1>6. failures' \in Seq(URL)
  <2>1. operations[o].url \in URL /\ failures \in Seq(URL)
    BY <1>1, <1>3 DEF Operation, LoaderTyped
  <2> QED BY <2>1, Appended DEF Collect
<1>7. Calm BY <1>1, <1>2 DEF Calm, LoaderTyped
<1>8. /\ mainQueue \in Seq(MainBlock(DOMAIN loads))
      /\ mainQueue' \in Seq(MainBlock(DOMAIN loads))
      /\ Len(mainQueue') = Len(mainQueue) + 1
      /\ \A i \in 1 .. Len(mainQueue) : mainQueue'[i] = mainQueue[i]
      /\ mainQueue'[Len(mainQueue) + 1] = block
  BY <1>1, <1>2, <1>5, Appended DEF LoaderTyped
<1>9. \A l \in block.loads : loads[l].url = block.url
  BY DEF LoaderInv, HandlersOfURL
<1> HIDE DEF new, block
<1>10. /\ operations' \in Seq(Operation)
       /\ Len(operations') = Len(operations)
       /\ \A n \in DOMAIN operations' : operations'[n].handlers \subseteq DOMAIN loads
       /\ \A n \in DOMAIN operations : operations'[n].url = operations[n].url
       /\ HandlersOfURL'
  BY <1>2, <1>4, OperationChanges
<1>11. LoaderTyped' BY <1>1, <1>2, <1>6, <1>8, <1>10 DEF LoaderTyped
<1>12. EntriesOfURL'
  <2>1. operations \in Seq(Operation) BY <1>1 DEF LoaderTyped
  <2> QED BY <1>2, <1>10, <2>1, EntriesStay
<1>13. BlocksOfURL'
  <2>1. DOMAIN mainQueue' = 1 .. Len(mainQueue) + 1 BY <1>8
  <2>2. \A i \in 1 .. Len(mainQueue) + 1 :
                i \in DOMAIN mainQueue \/ i = Len(mainQueue) + 1
    BY <1>8
  <2> QED BY <1>2, <1>8, <1>9, <2>1, <2>2 DEF BlocksOfURL, LoaderInv
<1> QED BY <1>7, <1>10, <1>11, <1>12, <1>13, CalmKeeps, LoaderTypes DEF LoaderInv

LEMMA FinishKeeps ==
    ASSUME LoaderInv, NEW o \in DOMAIN operations, Finish(o)
    PROVE  LoaderInv' /\ Calm
<1>1. LoaderTyped BY LoaderTypes DEF LoaderInv
<1> DEFINE new == [operations[o] EXCEPT !.state = "finished", !.handlers = {}]
<1>2. UNCHANGED <<picture, current, loads, URLOperations, memory, disk, failedURLs,
                  ioQueue, mainQueue, failures, raced>>
  BY DEF Finish
<1>3. operations[o] \in Operation BY <1>1 DEF LoaderTyped
<1>4. operations' = [operations EXCEPT ![o] = new] BY <1>1, <1>3 DEF Finish, LoaderTyped, Operation
<1>5. /\ new \in Operation /\ new.url = operations[o].url
      /\ new.handlers \subseteq operations[o].handlers
  BY <1>3 DEF Operation
<1> HIDE DEF new
<1>6. /\ operations' \in Seq(Operation)
      /\ Len(operations') = Len(operations)
      /\ \A n \in DOMAIN operations' : operations'[n].handlers \subseteq DOMAIN loads
      /\ \A n \in DOMAIN operations : operations'[n].url = operations[n].url
      /\ HandlersOfURL'
  BY <1>2, <1>4, <1>5, OperationChanges
<1>7. LoaderTyped' BY <1>1, <1>2, <1>6 DEF LoaderTyped
<1>8. Calm BY <1>1, <1>2 DEF Calm, LoaderTyped
<1>9. EntriesOfURL'
  <2>1. operations \in Seq(Operation) BY <1>1 DEF LoaderTyped
  <2> QED BY <1>2, <1>6, <2>1, EntriesStay
<1> QED BY <1>2, <1>6, <1>7, <1>8, <1>9, CalmKeeps, LoaderTypes DEF LoaderInv

LEMMA RemoveEntryKeeps ==
    ASSUME LoaderInv, NEW o \in DOMAIN operations, RemoveEntry(o)
    PROVE  LoaderInv' /\ Calm
<1>1. LoaderTyped BY LoaderTypes DEF LoaderInv
<1> DEFINE new == [operations[o] EXCEPT !.removed = TRUE]
<1>2. UNCHANGED <<picture, current, loads, memory, disk, failedURLs,
                  ioQueue, mainQueue, failures, raced>>
  BY DEF RemoveEntry
<1>3. operations[o] \in Operation BY <1>1 DEF LoaderTyped
<1>4. operations' = [operations EXCEPT ![o] = new] BY DEF RemoveEntry
<1>5. /\ new \in Operation /\ new.url = operations[o].url
      /\ new.handlers \subseteq operations[o].handlers
  BY <1>3 DEF Operation
<1> HIDE DEF new
<1>6. /\ operations' \in Seq(Operation)
      /\ Len(operations') = Len(operations)
      /\ \A n \in DOMAIN operations' : operations'[n].handlers \subseteq DOMAIN loads
      /\ \A n \in DOMAIN operations : operations'[n].url = operations[n].url
      /\ HandlersOfURL'
  BY <1>2, <1>4, <1>5, OperationChanges
<1>7. /\ URLOperations' \in [URL -> 0 .. Len(operations')]
      /\ \A url \in URL : URLOperations'[url] \in {0, URLOperations[url]}
  <2>1. URLOperations \in [URL -> 0 .. Len(operations)] /\ Len(operations) \in Nat
    BY <1>1 DEF LoaderTyped
  <2>2. URLOperations' = [URLOperations EXCEPT ![operations[o].url] = 0]
    BY DEF RemoveEntry
  <2> DEFINE gone == operations[o].url
  <2> HIDE DEF gone
  <2>3. URLOperations' = [URLOperations EXCEPT ![gone] = 0] BY <2>2 DEF gone
  <2>4. \A url \in URL : URLOperations'[url] = IF url = gone THEN 0 ELSE URLOperations[url]
    BY <2>1, <2>3
  <2>5. URLOperations' \in [URL -> 0 .. Len(operations)]
    <3>1. \A url \in URL : URLOperations'[url] \in 0 .. Len(operations) BY <2>1, <2>4
    <3>2. URLOperations' = [url \in URL |-> URLOperations'[url]] BY <2>1, <2>3
    <3> QED BY <3>1, <3>2
  <2> QED BY <1>6, <2>4, <2>5
<1>8. LoaderTyped' BY <1>1, <1>2, <1>6, <1>7 DEF LoaderTyped
<1>9. Calm BY <1>1, <1>2 DEF Calm, LoaderTyped
<1>10. EntriesOfURL'
  <2>1. operations \in Seq(Operation) BY <1>1 DEF LoaderTyped
  <2> QED BY <1>6, <1>7, <2>1, EntriesStay
<1> QED BY <1>2, <1>6, <1>8, <1>9, <1>10, CalmKeeps, LoaderTypes DEF LoaderInv

-----------------------------------------------------------------------------
(* The steps of the main queue.                                             *)

\* The end of a download's callbacks, or of a disk answer: a load goes on to
\* another stage, a block leaves the queue.
LEMMA BlockLeaves ==
    ASSUME LoaderInv, mainQueue # <<>>, mainQueue' = Tail(mainQueue),
           loads' \in Seq(Load), Len(loads') = Len(loads),
           \A l \in 1 .. Len(loads) : loads'[l].url = loads[l].url
    PROVE  /\ mainQueue' \in Seq(MainBlock(DOMAIN loads'))
           /\ BlocksOfURL'
           /\ Head(mainQueue) \in MainBlock(DOMAIN loads)
           /\ Head(mainQueue).kind = "handlers" =>
                \A l \in Head(mainQueue).loads : loads[l].url = Head(mainQueue).url
<1>1. /\ mainQueue \in Seq(MainBlock(DOMAIN loads)) /\ loads \in Seq(Load)
  BY LoaderTypes DEF LoaderInv, LoaderTyped
<1>2. /\ mainQueue' \in Seq(MainBlock(DOMAIN loads))
      /\ Len(mainQueue) \in Nat \ {0}
      /\ Len(mainQueue') = Len(mainQueue) - 1
      /\ \A i \in 1 .. Len(mainQueue) - 1 : mainQueue'[i] = mainQueue[i + 1]
      /\ Head(mainQueue) = mainQueue[1]
      /\ Head(mainQueue) \in MainBlock(DOMAIN loads)
  BY <1>1, Shortened
<1>3. DOMAIN loads' = DOMAIN loads /\ DOMAIN loads = 1 .. Len(loads) BY <1>1
<1>4. \A i \in DOMAIN mainQueue : mainQueue[i].kind = "handlers" =>
            mainQueue[i].loads \subseteq DOMAIN loads
  BY <1>1 DEF MainBlock, DiskBlock, HandlersBlock
<1>5. BlocksOfURL'
  <2> SUFFICES ASSUME NEW i \in DOMAIN mainQueue', mainQueue'[i].kind = "handlers",
                      NEW l \in mainQueue'[i].loads
               PROVE  loads'[l].url = mainQueue'[i].url
    BY DEF BlocksOfURL
  <2>1. i \in 1 .. Len(mainQueue) - 1 BY <1>2
  <2>2. i + 1 \in DOMAIN mainQueue /\ mainQueue'[i] = mainQueue[i + 1]
    BY <1>1, <1>2, <2>1
  <2>3. l \in 1 .. Len(loads) BY <1>3, <1>4, <2>2
  <2>4. loads[l].url = mainQueue[i + 1].url BY <2>2 DEF BlocksOfURL, LoaderInv
  <2> QED BY <2>2, <2>3, <2>4
<1>6. 1 \in DOMAIN mainQueue BY <1>1, <1>2
<1> QED BY <1>2, <1>3, <1>5, <1>6 DEF BlocksOfURL, LoaderInv

LEMMA RunHandlersKeeps ==
    ASSUME LoaderInv, RunHandlers
    PROVE  LoaderInv' /\ Calm
<1>1. LoaderTyped BY LoaderTypes DEF LoaderInv
<1> DEFINE block == Head(mainQueue)
           live == {l \in block.loads : ~loads[l].cancelled}
           loaded == live # {} /\ block.outcome = "image"
           store == [kind |-> "store", url |-> block.url]
<1>2. /\ mainQueue # <<>> /\ mainQueue' = Tail(mainQueue) /\ block.kind = "handlers"
      /\ UNCHANGED <<current, operations, URLOperations, disk, failures, raced>>
  BY DEF RunHandlers
<1>3. loads' = [l \in DOMAIN loads |->
                    IF l \in block.loads THEN [loads[l] EXCEPT !.stage = "done"]
                    ELSE loads[l]]
  BY DEF RunHandlers
<1>4. /\ loads' \in Seq(Load) /\ Len(loads') = Len(loads) /\ Len(loads) \in Nat
      /\ DOMAIN loads = 1 .. Len(loads) /\ DOMAIN loads' = 1 .. Len(loads)
      /\ \A l \in 1 .. Len(loads) :
            /\ loads'[l].url = loads[l].url
            /\ loads'[l].view = loads[l].view
            /\ loads'[l].cancelled = loads[l].cancelled
  <2>1. loads \in Seq(Load) /\ DOMAIN loads = 1 .. Len(loads) BY <1>1 DEF LoaderTyped
  <2>2. \A l \in DOMAIN loads : loads[l] \in Load BY <2>1
  <2>3. \A l \in DOMAIN loads :
            /\ loads'[l] \in Load
            /\ loads'[l].url = loads[l].url
            /\ loads'[l].view = loads[l].view
            /\ loads'[l].cancelled = loads[l].cancelled
    BY <1>3, <2>2 DEF Load
  <2>4. loads' \in [1 .. Len(loads) -> Load] BY <1>3, <2>1, <2>3
  <2>5. loads' \in Seq(Load) /\ Len(loads') = Len(loads) BY <2>1, <2>4
  <2> QED BY <2>1, <2>3, <2>4, <2>5
<1>5. /\ mainQueue' \in Seq(MainBlock(DOMAIN loads'))
      /\ BlocksOfURL'
      /\ block \in MainBlock(DOMAIN loads)
      /\ \A l \in block.loads : loads[l].url = block.url
  BY <1>2, <1>4, BlockLeaves
<1>6. block.loads \subseteq DOMAIN loads /\ block.url \in URL
  BY <1>2, <1>5 DEF MainBlock, DiskBlock, HandlersBlock
<1>7. picture' = [view \in View |->
                    IF loaded /\ \E l \in live : loads[l].view = view
                    THEN block.url ELSE picture[view]]
  BY DEF RunHandlers
<1>8. \A view \in View :
            \/ picture'[view] = picture[view]
            \/ current[view] # 0 /\ picture'[view] = loads[current[view]].url
  <2> SUFFICES ASSUME NEW view \in View, picture'[view] # picture[view]
               PROVE  current[view] # 0 /\ picture'[view] = loads[current[view]].url
    OBVIOUS
  <2>1. picture'[view] = block.url /\ \E l \in live : loads[l].view = view BY <1>7
  <2>2. PICK l \in live : loads[l].view = view BY <2>1
  <2>3. l \in block.loads /\ ~loads[l].cancelled /\ l \in 1 .. Len(loads) BY <1>4, <1>6
  <2>4. current[view] = l BY <1>4, <2>2, <2>3 DEF OneLoadPerView, LoaderInv
  <2> QED BY <1>5, <2>1, <2>3, <2>4
<1>9. Calm BY <1>2, <1>4, <1>8 DEF Calm
<1>10. picture' \in [View -> URL \cup {NoURL}] BY <1>1, <1>6, <1>7 DEF LoaderTyped
<1>11. /\ memory' \in SUBSET URL /\ failedURLs' \in SUBSET URL
  <2>1. memory' = IF loaded THEN memory \cup {block.url} ELSE memory BY DEF RunHandlers
  <2>2. failedURLs' = IF live # {} /\ block.outcome = "blocked"
                      THEN failedURLs \cup {block.url} ELSE failedURLs
    BY DEF RunHandlers
  <2> QED BY <1>1, <1>6, <2>1, <2>2 DEF LoaderTyped
<1>12. ioQueue' \in Seq(IOBlock(DOMAIN loads'))
  <2>1. ioQueue' = IF loaded THEN Append(ioQueue, store) ELSE ioQueue BY DEF RunHandlers
  <2>2. ioQueue \in Seq(IOBlock(DOMAIN loads)) BY <1>1 DEF LoaderTyped
  <2>3. store \in IOBlock(DOMAIN loads) BY <1>6 DEF IOBlock
  <2> HIDE DEF store, loaded
  <2>4. Append(ioQueue, store) \in Seq(IOBlock(DOMAIN loads)) BY <2>2, <2>3, Appended
  <2>5. DOMAIN loads' = DOMAIN loads BY <1>4
  <2> QED BY <2>1, <2>2, <2>4, <2>5
<1>13. LoaderTyped'
  <2>1. current' \in [View -> 0 .. Len(loads')] BY <1>1, <1>2, <1>4 DEF LoaderTyped
  <2>2. \A o \in DOMAIN operations' : operations'[o].handlers \subseteq DOMAIN loads'
    BY <1>1, <1>2, <1>4 DEF LoaderTyped
  <2> QED BY <1>1, <1>2, <1>4, <1>5, <1>10, <1>11, <1>12, <2>1, <2>2 DEF LoaderTyped
<1>14. EntriesOfURL' BY <1>2 DEF EntriesOfURL, LoaderInv
<1> QED BY <1>2, <1>5, <1>9, <1>13, <1>14, CalmKeeps, LoaderTypes DEF LoaderInv

\* A load joins the operation of its address or starts one.
LEMMA JoinKeeps ==
    ASSUME LoaderInv, NEW l \in DOMAIN loads, Join(l)
    PROVE  /\ loads' \in Seq(Load) /\ Len(loads') = Len(loads)
           /\ \A n \in 1 .. Len(loads) :
                /\ loads'[n].url = loads[n].url
                /\ loads'[n].view = loads[n].view
                /\ loads'[n].cancelled = loads[n].cancelled
           /\ operations' \in Seq(Operation)
           /\ \A o \in DOMAIN operations' : operations'[o].handlers \subseteq DOMAIN loads'
           /\ URLOperations' \in [URL -> 0 .. Len(operations')]
           /\ raced' \in BOOLEAN
           /\ HandlersOfURL'
           /\ EntriesOfURL'
<1>1. LoaderTyped BY LoaderTypes DEF LoaderInv
<1> DEFINE url == loads[l].url
           entry == URLOperations[url]
           joins == entry # 0 /\ operations[entry].state \notin {"finished", "cancelled"}
           joined == IF joins THEN entry ELSE Len(operations) + 1
           fresh == [url |-> url, handlers |-> {l}, removed |-> FALSE, state |-> "ready"]
           more == [operations[entry] EXCEPT !.handlers = @ \cup {l}]
           next == [loads[l] EXCEPT !.stage = "download", !.operation = joined]
<1>2. /\ loads \in Seq(Load) /\ DOMAIN loads = 1 .. Len(loads) /\ Len(loads) \in Nat
      /\ operations \in Seq(Operation) /\ DOMAIN operations = 1 .. Len(operations)
      /\ Len(operations) \in Nat
      /\ URLOperations \in [URL -> 0 .. Len(operations)]
      /\ \A o \in DOMAIN operations : operations[o].handlers \subseteq DOMAIN loads
  BY <1>1 DEF LoaderTyped
<1>3. loads[l] \in Load /\ url \in URL /\ l \in 1 .. Len(loads)
  <2>1. loads[l] \in Load /\ l \in 1 .. Len(loads) BY <1>2
  <2> QED BY <2>1 DEF Load
<1>4. entry \in 0 .. Len(operations) BY <1>2, <1>3
<1>5. joins => entry \in 1 .. Len(operations) BY <1>2, <1>4
<1>6. joined \in Nat \ {0} BY <1>2, <1>4, <1>5
<1>7. next \in Load /\ next.url = url /\ next.view = loads[l].view
      /\ next.cancelled = loads[l].cancelled
  BY <1>3, <1>6 DEF Load
<1>8. loads' = [loads EXCEPT ![l] = next] BY <1>2, <1>3 DEF Join, Load
<1>9. raced' \in BOOLEAN BY <1>1 DEF Join, LoaderTyped
<1>10. URLOperations' = [URLOperations EXCEPT ![url] = joined] BY DEF Join
<1>11. ASSUME joins
       PROVE  /\ entry \in DOMAIN operations /\ operations[entry] \in Operation
              /\ operations[entry].url = url /\ more \in Operation /\ more.url = url
              /\ more.handlers = operations[entry].handlers \cup {l}
              /\ operations' = [operations EXCEPT ![entry] = more]
  <2>1. entry \in DOMAIN operations /\ operations[entry] \in Operation
    BY <1>2, <1>5, <1>11
  <2>2. operations[entry].url = url BY <1>3, <1>11 DEF EntriesOfURL, LoaderInv
  <2>3. operations' = [operations EXCEPT ![entry] = more] BY <1>11 DEF Join
  <2>4. l \in Nat BY <1>3
  <2> QED BY <2>1, <2>2, <2>3, <2>4 DEF Operation
<1>12. ASSUME ~joins PROVE operations' = Append(operations, fresh)
  BY <1>12 DEF Join
<1>13. fresh \in Operation /\ fresh.url = url /\ fresh.handlers = {l} BY <1>3 DEF Operation
<1> HIDE DEF next, more, fresh
<1>14. /\ loads' \in Seq(Load) /\ Len(loads') = Len(loads)
       /\ \A n \in 1 .. Len(loads) : loads'[n] = IF n = l THEN next ELSE loads[n]
  BY <1>2, <1>3, <1>7, <1>8, Replaced
<1>15. \A n \in 1 .. Len(loads) :
            /\ loads'[n].url = loads[n].url
            /\ loads'[n].view = loads[n].view
            /\ loads'[n].cancelled = loads[n].cancelled
  BY <1>7, <1>14
<1>16. DOMAIN loads' = DOMAIN loads BY <1>2, <1>14
<1> DEFINE old(o) == operations'[o].url = operations[o].url
                     /\ operations'[o].handlers \subseteq operations[o].handlers
           new(o) == operations'[o].url = url
                     /\ \A n \in operations'[o].handlers :
                            n \in DOMAIN loads /\ loads[n].url = url
<1>17. /\ operations' \in Seq(Operation) /\ joined \in DOMAIN operations'
       /\ Len(operations') >= Len(operations)
       /\ DOMAIN operations' = 1 .. Len(operations')
       /\ \A o \in DOMAIN operations' : o # joined => o \in DOMAIN operations /\ old(o)
       /\ \A o \in DOMAIN operations : operations'[o].url = operations[o].url
       /\ new(joined)
  <2>0. operations \in Seq(Operation) /\ Len(operations) \in Nat BY <1>2
  <2>1. CASE joins
    <3>1. joined = entry /\ entry \in 1 .. Len(operations) BY <2>1, <1>5
    <3>2. /\ operations' \in Seq(Operation) /\ Len(operations') = Len(operations)
          /\ \A o \in 1 .. Len(operations) :
                operations'[o] = IF o = entry THEN more ELSE operations[o]
      <4>1. more \in Operation /\ operations' = [operations EXCEPT ![entry] = more]
        BY <1>11, <2>1
      <4> HIDE DEF entry
      <4> QED BY <4>1, <2>0, <3>1, Replaced
    <3>3. \A n \in more.handlers : n \in DOMAIN loads /\ loads[n].url = url
      <4>1. \A n \in operations[entry].handlers : n \in DOMAIN loads /\ loads[n].url = url
        BY <1>2, <1>11, <2>1 DEF HandlersOfURL, LoaderInv
      <4> QED BY <4>1, <1>11, <2>1
    <3>4. new(joined) BY <3>1, <3>2, <3>3, <1>11, <2>1
    <3>5. DOMAIN operations' = 1 .. Len(operations) BY <3>2
    <3>6. \A o \in 1 .. Len(operations) : operations'[o].url = operations[o].url
      BY <1>11, <2>1, <3>2
    <3>7. \A o \in 1 .. Len(operations) : o # joined => old(o) BY <3>1, <3>2
    <3> HIDE DEF old, new, joined
    <3> QED BY <1>2, <3>1, <3>2, <3>4, <3>5, <3>6, <3>7
  <2>2. CASE ~joins
    <3>1. joined = Len(operations) + 1 BY <2>2
    <3>2. /\ operations' \in Seq(Operation) /\ Len(operations') = Len(operations) + 1
          /\ \A o \in 1 .. Len(operations) : operations'[o] = operations[o]
          /\ operations'[Len(operations) + 1] = fresh
      <4>1. operations' = Append(operations, fresh) BY <1>12, <2>2
      <4> QED BY <4>1, <2>0, <1>13, Appended
    <3>3. DOMAIN operations' = 1 .. Len(operations) + 1 BY <3>2
    <3>4. new(joined) BY <1>13, <3>1, <3>2
    <3>5. \A o \in 1 .. Len(operations) + 1 :
                o # Len(operations) + 1 => o \in 1 .. Len(operations)
      BY <2>0
    <3>6. \A o \in 1 .. Len(operations) : old(o) BY <3>2
    <3>7. \A o \in 1 .. Len(operations) : operations'[o].url = operations[o].url BY <3>6
    <3>8. Len(operations) + 1 \in 1 .. Len(operations) + 1 BY <2>0
    <3>9. Len(operations') >= Len(operations) BY <2>0, <3>2
    <3>10. \A o \in DOMAIN operations' : o # joined => o \in DOMAIN operations /\ old(o)
      BY <1>2, <3>1, <3>3, <3>5, <3>6
    <3> HIDE DEF old, new, joined
    <3> QED BY <1>2, <3>1, <3>2, <3>3, <3>4, <3>7, <3>8, <3>9, <3>10
  <2> QED BY <2>1, <2>2
<1> HIDE DEF joined
<1>18. \A o \in DOMAIN operations' : operations'[o].handlers \subseteq DOMAIN loads'
  BY <1>2, <1>16, <1>17
<1>19. URLOperations' \in [URL -> 0 .. Len(operations')]
  <2> HIDE DEF url
  <2>1. joined \in 0 .. Len(operations') BY <1>6, <1>17
  <2>2. \A u \in URL : URLOperations'[u] = IF u = url THEN joined ELSE URLOperations[u]
    BY <1>2, <1>3, <1>10
  <2>3. Len(operations') \in Nat BY <1>17
  <2>4. \A u \in URL : URLOperations'[u] \in 0 .. Len(operations')
    BY <1>2, <1>17, <2>1, <2>2, <2>3
  <2>5. URLOperations' = [u \in URL |-> URLOperations'[u]] BY <1>2, <1>10
  <2> QED BY <2>4, <2>5
<1>20. HandlersOfURL'
  <2> SUFFICES ASSUME NEW o \in DOMAIN operations', NEW n \in operations'[o].handlers
               PROVE  loads'[n].url = operations'[o].url
    BY DEF HandlersOfURL
  <2>1. n \in 1 .. Len(loads) BY <1>2, <1>16, <1>18
  <2>2. CASE o = joined BY <1>15, <1>17, <2>1, <2>2
  <2>3. CASE o # joined
    <3>1. o \in DOMAIN operations /\ n \in operations[o].handlers
          /\ operations'[o].url = operations[o].url
      BY <1>17, <2>3
    <3> QED BY <1>15, <2>1, <3>1 DEF HandlersOfURL, LoaderInv
  <2> QED BY <2>2, <2>3
<1>21. EntriesOfURL'
  <2> SUFFICES ASSUME NEW u \in URL, URLOperations'[u] # 0
               PROVE  operations'[URLOperations'[u]].url = u
    BY DEF EntriesOfURL
  <2>1. CASE u = url BY <1>2, <1>3, <1>10, <1>17, <2>1
  <2>2. CASE u # url
    <3>1. URLOperations'[u] = URLOperations[u] BY <1>2, <1>10, <2>2
    <3> DEFINE o == URLOperations[u]
    <3>2. o \in DOMAIN operations /\ operations[o].url = u
      BY <1>2, <3>1 DEF EntriesOfURL, LoaderInv
    <3> QED BY <1>17, <3>1, <3>2
  <2> QED BY <2>1, <2>2
<1> QED BY <1>9, <1>14, <1>15, <1>17, <1>18, <1>19, <1>20, <1>21

LEMMA RunDiskAnswerKeeps ==
    ASSUME LoaderInv, RunDiskAnswer
    PROVE  LoaderInv' /\ Calm
<1>1. LoaderTyped BY LoaderTypes DEF LoaderInv
<1> DEFINE block == Head(mainQueue)
           l == block.load
           ends == loads[l].cancelled \/ block.hit
           next == [loads[l] EXCEPT !.stage = "done"]
<1>2. /\ mainQueue # <<>> /\ mainQueue' = Tail(mainQueue) /\ block.kind = "disk"
      /\ UNCHANGED <<current, memory, disk, failedURLs, ioQueue, failures>>
  BY DEF RunDiskAnswer
<1>3. /\ loads \in Seq(Load) /\ DOMAIN loads = 1 .. Len(loads) /\ Len(loads) \in Nat
      /\ mainQueue \in Seq(MainBlock(DOMAIN loads))
  BY <1>1 DEF LoaderTyped
<1>4. block \in MainBlock(DOMAIN loads) BY <1>2, <1>3, Shortened
<1>5. l \in DOMAIN loads /\ block.hit \in BOOLEAN
  BY <1>2, <1>4 DEF MainBlock, DiskBlock, HandlersBlock
<1>6. loads[l] \in Load BY <1>3, <1>5
<1>7. /\ loads' \in Seq(Load) /\ Len(loads') = Len(loads)
      /\ \A n \in 1 .. Len(loads) :
            /\ loads'[n].url = loads[n].url
            /\ loads'[n].view = loads[n].view
            /\ loads'[n].cancelled = loads[n].cancelled
      /\ operations' \in Seq(Operation)
      /\ \A o \in DOMAIN operations' : operations'[o].handlers \subseteq DOMAIN loads'
      /\ URLOperations' \in [URL -> 0 .. Len(operations')]
      /\ raced' \in BOOLEAN
      /\ operations' = operations \/ HandlersOfURL'
      /\ EntriesOfURL'
  <2>1. CASE ~ends
    <3>1. Join(l) BY <2>1 DEF RunDiskAnswer
    <3> QED BY <1>5, <3>1, JoinKeeps
  <2>2. CASE ends
    <3>1. /\ loads' = [loads EXCEPT ![l].stage = "done"]
          /\ UNCHANGED <<operations, URLOperations, raced>>
      BY <2>2 DEF RunDiskAnswer
    <3>2. loads' = [loads EXCEPT ![l] = next] BY <3>1
    <3>3. next \in Load /\ next.url = loads[l].url /\ next.view = loads[l].view
          /\ next.cancelled = loads[l].cancelled
      BY <1>6 DEF Load
    <3> HIDE DEF next, l
    <3>4. /\ loads' \in Seq(Load) /\ Len(loads') = Len(loads)
          /\ \A n \in 1 .. Len(loads) : loads'[n] = IF n = l THEN next ELSE loads[n]
      BY <1>3, <1>5, <3>2, <3>3, Replaced
    <3>5. \A n \in 1 .. Len(loads) :
            /\ loads'[n].url = loads[n].url
            /\ loads'[n].view = loads[n].view
            /\ loads'[n].cancelled = loads[n].cancelled
      BY <3>3, <3>4
    <3>6. DOMAIN loads' = DOMAIN loads BY <1>3, <3>4
    <3>7. EntriesOfURL' BY <3>1 DEF EntriesOfURL, LoaderInv
    <3>8. \A o \in DOMAIN operations' : operations'[o].handlers \subseteq DOMAIN loads'
      BY <1>1, <3>1, <3>6 DEF LoaderTyped
    <3> QED BY <1>1, <3>1, <3>4, <3>5, <3>7, <3>8 DEF LoaderTyped
  <2> QED BY <2>1, <2>2
<1>8. DOMAIN loads' = DOMAIN loads BY <1>3, <1>7
<1>9. picture' = IF block.hit /\ ~loads[l].cancelled
                 THEN [picture EXCEPT ![loads[l].view] = loads[l].url] ELSE picture
  BY DEF RunDiskAnswer
<1>10. picture' \in [View -> URL \cup {NoURL}] BY <1>1, <1>6, <1>9 DEF LoaderTyped, Load
<1>11. \A view \in View :
            \/ picture'[view] = picture[view]
            \/ current[view] # 0 /\ picture'[view] = loads[current[view]].url
  <2> SUFFICES ASSUME NEW view \in View, picture'[view] # picture[view]
               PROVE  current[view] # 0 /\ picture'[view] = loads[current[view]].url
    OBVIOUS
  <2>1. picture \in [View -> URL \cup {NoURL}] BY <1>1 DEF LoaderTyped
  <2>2. ~loads[l].cancelled /\ loads[l].view = view /\ picture'[view] = loads[l].url
    BY <1>9, <2>1
  <2>3. current[view] = l /\ l # 0 BY <1>3, <1>5, <2>2 DEF OneLoadPerView, LoaderInv
  <2> QED BY <2>2, <2>3
<1>12. Calm BY <1>2, <1>7, <1>11 DEF Calm
<1>13. mainQueue' \in Seq(MainBlock(DOMAIN loads')) /\ BlocksOfURL'
  BY <1>2, <1>7, BlockLeaves
<1>14. LoaderTyped'
  <2>1. current' \in [View -> 0 .. Len(loads')] BY <1>1, <1>2, <1>7 DEF LoaderTyped
  <2> QED BY <1>1, <1>2, <1>7, <1>8, <1>10, <1>13, <2>1 DEF LoaderTyped
<1>15. HandlersOfURL' BY <1>7, <1>12, CalmKeeps
<1> QED BY <1>7, <1>12, <1>13, <1>14, <1>15, CalmKeeps, LoaderTypes DEF LoaderInv

-----------------------------------------------------------------------------
(* A view is given an address.                                              *)

\* A load that takes its callback back leaves the operations their addresses.
LEMMA WithdrawShape ==
    ASSUME LoaderInv, NEW l \in DOMAIN loads
    PROVE  /\ Withdraw(l) \in Seq(Operation)
           /\ Len(Withdraw(l)) = Len(operations)
           /\ \A o \in DOMAIN operations :
                /\ Withdraw(l)[o].url = operations[o].url
                /\ Withdraw(l)[o].handlers \subseteq operations[o].handlers
<1>1. /\ operations \in Seq(Operation) /\ DOMAIN operations = 1 .. Len(operations)
      /\ \A o \in DOMAIN operations : operations[o].handlers \subseteq DOMAIN loads
  BY LoaderTypes DEF LoaderInv, LoaderTyped
<1> DEFINE o == loads[l].operation
           left == operations[o].handlers \ {l}
           new == [operations[o] EXCEPT !.handlers = left,
                                        !.state = IF left = {} THEN "cancelled" ELSE @]
<1>2. CASE Withdraw(l) = operations BY <1>1, <1>2
<1>3. CASE Withdraw(l) # operations
  <2>1. Withdraw(l) = [operations EXCEPT
                        ![o].handlers = left,
                        ![o].state = IF left = {} THEN "cancelled" ELSE @]
    BY <1>3 DEF Withdraw
  <2>2. o \in DOMAIN operations BY <1>1, <1>3, <2>1
  <2>3. operations[o] \in Operation BY <1>1, <2>2
  <2>4. new \in Operation /\ new.url = operations[o].url /\ new.handlers = left
    BY <2>3 DEF Operation
  <2>5. Withdraw(l) = [operations EXCEPT ![o] = new]
    BY <1>1, <2>1, <2>2, <2>3 DEF Operation
  <2>6. left \subseteq operations[o].handlers OBVIOUS
  <2> HIDE DEF new, left, o
  <2>7. /\ Withdraw(l) \in Seq(Operation) /\ Len(Withdraw(l)) = Len(operations)
        /\ \A n \in 1 .. Len(operations) :
                Withdraw(l)[n] = IF n = o THEN new ELSE operations[n]
    BY <1>1, <2>2, <2>4, <2>5, Replaced
  <2> QED BY <1>1, <2>4, <2>6, <2>7
<1> QED BY <1>2, <1>3

\* The view waits for the new load and no other; other views keep theirs.
GivenAddress(emptied, view, url) ==
    /\ current' = [current EXCEPT ![view] = Len(loads) + 1]
    /\ loads' \in Seq(Load) /\ Len(loads') = Len(loads) + 1
    /\ loads'[Len(loads) + 1].url = url
    /\ \A n \in 1 .. Len(loads) : loads'[n].url = loads[n].url
    /\ picture'[view] \in {NoURL, url}
    /\ \A v \in View : v # view => picture'[v] \in {NoURL, picture[v]}

LEMMA SetImageKeeps ==
    ASSUME LoaderInv, NEW emptied, NEW view \in View, NEW url \in URL,
           SetImage(emptied, view, url)
    PROVE  LoaderInv' /\ GivenAddress(emptied, view, url)
<1>1. LoaderTyped BY LoaderTypes DEF LoaderInv
<1> DEFINE old == current[view]
           l == Len(loads) + 1
           known == url \in failedURLs \cup memory
           new == [view |-> view, url |-> url, cancelled |-> FALSE, operation |-> 0,
                   stage |-> IF known THEN "done" ELSE "query"]
           stopped == [loads[old] EXCEPT !.cancelled = TRUE]
           cancelled == IF old = 0 THEN loads ELSE [loads EXCEPT ![old] = stopped]
           query == [kind |-> "query", load |-> l]
<1>2. /\ loads \in Seq(Load) /\ DOMAIN loads = 1 .. Len(loads) /\ Len(loads) \in Nat
      /\ operations \in Seq(Operation) /\ DOMAIN operations = 1 .. Len(operations)
      /\ current \in [View -> 0 .. Len(loads)] /\ old \in 0 .. Len(loads)
      /\ picture \in [View -> URL \cup {NoURL}]
  BY <1>1 DEF LoaderTyped
<1>3. /\ loads' = Append(cancelled, new)
      /\ operations' = (IF old = 0 THEN operations ELSE Withdraw(old))
      /\ current' = [current EXCEPT ![view] = l]
      /\ picture' = [v \in View |->
                        IF v = view /\ url \in memory \ failedURLs THEN url
                        ELSE IF v = view \/ v \in emptied THEN NoURL
                        ELSE picture[v]]
      /\ ioQueue' = (IF known THEN ioQueue ELSE Append(ioQueue, query))
      /\ UNCHANGED <<URLOperations, memory, disk, failedURLs, mainQueue, failures, raced>>
  BY DEF SetImage
<1>4. new \in Load /\ new.url = url /\ new.view = view BY DEF Load
<1>5. old # 0 => /\ old \in 1 .. Len(loads) /\ stopped \in Load /\ stopped.cancelled
                 /\ stopped.url = loads[old].url /\ stopped.view = loads[old].view
  <2> SUFFICES ASSUME old # 0
               PROVE  /\ old \in 1 .. Len(loads) /\ stopped \in Load /\ stopped.cancelled
                      /\ stopped.url = loads[old].url /\ stopped.view = loads[old].view
    OBVIOUS
  <2>1. old \in 1 .. Len(loads) BY <1>2
  <2>2. loads[old] \in Load BY <1>2, <2>1
  <2> HIDE DEF old
  <2> QED BY <2>1, <2>2 DEF Load
<1> HIDE DEF new, stopped
<1>6. /\ cancelled \in Seq(Load) /\ Len(cancelled) = Len(loads)
      /\ \A n \in 1 .. Len(loads) :
            cancelled[n] = IF n = old THEN stopped ELSE loads[n]
  <2>1. CASE old = 0 BY <1>2, <2>1
  <2>2. CASE old # 0
    <3> HIDE DEF old
    <3> QED BY <1>2, <1>5, <2>2, Replaced
  <2> QED BY <2>1, <2>2
<1> HIDE DEF cancelled
<1>7. /\ loads' \in Seq(Load) /\ Len(loads') = l
      /\ \A n \in 1 .. Len(loads) :
            loads'[n] = IF n = old THEN stopped ELSE loads[n]
      /\ loads'[l] = new
  <2>1. loads' = Append(cancelled, new) BY <1>3
  <2> QED BY <1>4, <1>6, <2>1, Appended
<1>8. \A n \in 1 .. Len(loads) :
        /\ loads'[n].url = loads[n].url /\ loads'[n].view = loads[n].view
        /\ n = old => loads'[n].cancelled
        /\ n # old => loads'[n].cancelled = loads[n].cancelled
  BY <1>5, <1>7
<1>9. DOMAIN loads' = 1 .. l /\ DOMAIN loads \subseteq DOMAIN loads' BY <1>2, <1>7
<1>10. GivenAddress(emptied, view, url)
  <2>1. loads'[l].url = url BY <1>4, <1>7
  <2>2. \A n \in 1 .. Len(loads) : loads'[n].url = loads[n].url BY <1>8
  <2>3. picture'[view] \in {NoURL, url} BY <1>3
  <2>4. \A v \in View : v # view => picture'[v] \in {NoURL, picture[v]} BY <1>3
  <2> QED BY <1>3, <1>7, <2>1, <2>2, <2>3, <2>4 DEF GivenAddress
<1>11. \A n \in 1 .. l : n = l \/ n \in 1 .. Len(loads) BY <1>2
<1>12. OneLoadPerView'
  <2> SUFFICES ASSUME NEW n \in 1 .. l, ~loads'[n].cancelled
               PROVE  current'[loads'[n].view] = n
    BY <1>9 DEF OneLoadPerView
  <2>1. CASE n = l BY <1>2, <1>3, <1>4, <1>7, <2>1
  <2>2. CASE n # l
    <3>1. n \in 1 .. Len(loads) BY <1>11, <2>2
    <3>2. n # old /\ ~loads[n].cancelled /\ loads'[n].view = loads[n].view
      BY <1>8, <3>1
    <3>3. current[loads[n].view] = n BY <1>2, <3>1, <3>2 DEF OneLoadPerView, LoaderInv
    <3>4. loads[n].view # view BY <3>2, <3>3
    <3>5. loads[n] \in Load BY <1>2, <3>1
    <3>6. loads[n].view \in View BY <3>5 DEF Load
    <3> QED BY <1>2, <1>3, <3>2, <3>3, <3>4, <3>6
  <2> QED BY <2>1, <2>2
<1>13. CurrentIsOwn'
  <2> SUFFICES ASSUME NEW v \in View, current'[v] # 0
               PROVE  loads'[current'[v]].view = v
    BY DEF CurrentIsOwn
  <2>1. CASE v = view BY <1>2, <1>3, <1>4, <1>7, <2>1
  <2>2. CASE v # view
    <3>1. current'[v] = current[v] BY <1>2, <1>3, <2>2
    <3>2. current[v] \in 1 .. Len(loads) BY <1>2, <3>1
    <3> QED BY <1>8, <3>1, <3>2 DEF CurrentIsOwn, LoaderInv
  <2> QED BY <2>1, <2>2
<1>14. /\ operations' \in Seq(Operation) /\ Len(operations') = Len(operations)
       /\ \A o \in DOMAIN operations :
            /\ operations'[o].url = operations[o].url
            /\ operations'[o].handlers \subseteq operations[o].handlers
  <2>1. CASE old = 0 BY <1>2, <1>3, <2>1
  <2>2. CASE old # 0
    <3>1. old \in DOMAIN loads /\ operations' = Withdraw(old) BY <1>2, <1>3, <1>5, <2>2
    <3> HIDE DEF old
    <3> QED BY <3>1, WithdrawShape
  <2> QED BY <2>1, <2>2
<1>15. DOMAIN operations' = DOMAIN operations BY <1>2, <1>14
<1>16. \A o \in DOMAIN operations : operations[o].handlers \subseteq DOMAIN loads
  BY <1>1 DEF LoaderTyped
<1>17. \A o \in DOMAIN operations' : operations'[o].handlers \subseteq DOMAIN loads'
  BY <1>9, <1>14, <1>15, <1>16
<1>18. HandlersOfURL'
  <2> SUFFICES ASSUME NEW o \in DOMAIN operations, NEW n \in operations'[o].handlers
               PROVE  loads'[n].url = operations'[o].url
    BY <1>15 DEF HandlersOfURL
  <2>1. n \in operations[o].handlers /\ n \in 1 .. Len(loads) BY <1>2, <1>14, <1>16
  <2> QED BY <1>8, <1>14, <2>1 DEF HandlersOfURL, LoaderInv
<1>19. EntriesOfURL' BY <1>2, <1>3, <1>14, EntriesStay
<1>20. BlocksOfURL'
  <2>1. mainQueue \in Seq(MainBlock(DOMAIN loads)) BY <1>1 DEF LoaderTyped
  <2>2. \A i \in DOMAIN mainQueue : mainQueue[i].kind = "handlers" =>
            mainQueue[i].loads \subseteq 1 .. Len(loads)
    BY <1>2, <2>1 DEF MainBlock, DiskBlock, HandlersBlock
  <2>3. \A n \in 1 .. Len(loads) : loads'[n].url = loads[n].url BY <1>8
  <2>4. mainQueue' = mainQueue BY <1>3
  <2>5. BlocksOfURL BY DEF LoaderInv
  <2> QED BY <2>2, <2>3, <2>4, <2>5 DEF BlocksOfURL
<1>21. /\ ioQueue' \in Seq(IOBlock(DOMAIN loads'))
       /\ mainQueue' \in Seq(MainBlock(DOMAIN loads'))
  <2>1. /\ Seq(IOBlock(DOMAIN loads)) \subseteq Seq(IOBlock(DOMAIN loads'))
        /\ Seq(MainBlock(DOMAIN loads)) \subseteq Seq(MainBlock(DOMAIN loads'))
    BY <1>9, BlocksStay
  <2>2. /\ ioQueue \in Seq(IOBlock(DOMAIN loads'))
        /\ mainQueue \in Seq(MainBlock(DOMAIN loads'))
    BY <1>1, <2>1 DEF LoaderTyped
  <2>3. l \in DOMAIN loads' BY <1>2, <1>9
  <2>4. query \in IOBlock(DOMAIN loads') BY <2>3 DEF IOBlock
  <2> HIDE DEF query, known
  <2>5. Append(ioQueue, query) \in Seq(IOBlock(DOMAIN loads')) BY <2>2, <2>4, Appended
  <2> QED BY <1>3, <2>2, <2>5
<1>22. current' \in [View -> 0 .. Len(loads')]
  <2>1. \A v \in View : current'[v] \in 0 .. l BY <1>2, <1>3
  <2> QED BY <1>2, <1>3, <1>7, <2>1
<1>23. picture' \in [View -> URL \cup {NoURL}] BY <1>2, <1>3
<1>24. URLOperations' \in [URL -> 0 .. Len(operations')] BY <1>1, <1>3, <1>14 DEF LoaderTyped
<1>25. LoaderTyped'
  BY <1>1, <1>3, <1>7, <1>14, <1>17, <1>21, <1>22, <1>23, <1>24 DEF LoaderTyped
<1> QED BY <1>10, <1>12, <1>13, <1>18, <1>19, <1>20, <1>25, LoaderTypes DEF LoaderInv

-----------------------------------------------------------------------------
(* The cells.                                                               *)

\* What the queues do leaves the views of a cell right.
LEMMA CalmRight ==
    ASSUME LoaderInv, Calm, row' = row,
           NEW c \in Cell, NEW view \in {"imageView", "imageProfile"}, Right(c, view)
    PROVE  Right(c, view)'
<1> DEFINE v == <<c, view>>
<1>1. v \in View BY DEF View
<1>2. current[v] \in 1 .. Len(loads)
  BY <1>1, LoaderTypes DEF LoaderInv, LoaderTyped, Right
<1>3. Address(c, view)' = Address(c, view) BY DEF Address
<1>4. current'[v] = current[v] /\ loads'[current[v]].url = loads[current[v]].url
  BY <1>2 DEF Calm
<1>5. picture'[v] = picture[v] \/ picture'[v] = loads[current[v]].url
  BY <1>1 DEF Calm
<1> QED BY <1>3, <1>4, <1>5 DEF Right

LEMMA CalmSetter ==
    ASSUME LoaderInv, Calm, UNCHANGED <<row, label, setting>>, NEW c \in Cell, SetterInv(c)
    PROVE  SetterInv(c)'
<1>1. /\ Right(c, "imageView") => Right(c, "imageView")'
      /\ Right(c, "imageProfile") => Right(c, "imageProfile")'
  BY CalmRight
<1>2. \A view \in {"imageView", "imageProfile"} : Address(c, view)' = Address(c, view)
  BY DEF Address
<1>3. Complete(c)' = Complete(c) BY <1>2 DEF Complete
<1> QED BY <1>1, <1>2, <1>3 DEF SetterInv

\* A view given an address leaves the others right, of cells whose row stays.
LEMMA GivenElsewhere ==
    ASSUME LoaderInv, NEW emptied, NEW target \in View, NEW url \in URL,
           GivenAddress(emptied, target, url),
           NEW c \in Cell, row'[c] = row[c],
           NEW view \in {"imageView", "imageProfile"}, target # <<c, view>>,
           Right(c, view)
    PROVE  Right(c, view)'
<1> DEFINE v == <<c, view>>
<1>1. v \in View /\ v # target BY DEF View
<1>2. /\ current \in [View -> 0 .. Len(loads)]
      /\ current[v] \in 1 .. Len(loads)
  BY <1>1, LoaderTypes DEF LoaderInv, LoaderTyped, Right
<1>3. Address(c, view)' = Address(c, view) BY DEF Address
<1>4. current'[v] = current[v] /\ loads'[current[v]].url = loads[current[v]].url
  BY <1>1, <1>2 DEF GivenAddress
<1>5. picture'[v] \in {NoURL, picture[v]} BY <1>1 DEF GivenAddress
<1> QED BY <1>2, <1>3, <1>4, <1>5 DEF Right

\* The view itself is right when the address is that of its row.
LEMMA GivenRight ==
    ASSUME LoaderInv, NEW emptied, NEW c \in Cell,
           NEW view \in {"imageView", "imageProfile"},
           GivenAddress(emptied, <<c, view>>, Address(c, view)')
    PROVE  Right(c, view)'
<1> DEFINE v == <<c, view>>
<1>1. v \in View BY DEF View
<1>2. /\ current \in [View -> 0 .. Len(loads)] /\ Len(loads) \in Nat
  BY LoaderTypes DEF LoaderInv, LoaderTyped
<1>3. current'[v] = Len(loads) + 1 BY <1>1, <1>2 DEF GivenAddress
<1> QED BY <1>2, <1>3 DEF Right, GivenAddress

\* A cell is dequeued: its first view is right if the setter goes on; the other
\* cells have no part in it.
LEMMA DequeueStep ==
    ASSUME CellsInv, NEW cell \in Cell, NEW photo \in Photo, Dequeue(cell, photo)
    PROVE  CellsInv'
<1>1. /\ setting = NoCell /\ uses < MaxUses /\ uses' = uses + 1
      /\ row' = [row EXCEPT ![cell] = photo] /\ label' = label
  BY DEF Dequeue
<1>2. /\ LoaderInv /\ row \in [Cell -> Photo \cup {NoPhoto}] /\ uses \in 0 .. MaxUses
      /\ label \in [Cell -> Photo \cup {NoPhoto}]
  BY DEF CellsInv, TypeOK
<1>3. /\ row' \in [Cell -> Photo \cup {NoPhoto}] /\ uses' \in 0 .. MaxUses
      /\ label' \in [Cell -> Photo \cup {NoPhoto}]
      /\ row'[cell] = photo /\ \A c \in Cell : c # cell => row'[c] = row[c]
  BY <1>1, <1>2, CellsAssumption
<1>4. /\ Address(cell, "imageView")' = Full[photo]
      /\ \A c \in Cell : c # cell =>
            \A view \in {"imageView", "imageProfile"} : Address(c, view)' = Address(c, view)
  BY <1>3, CellsAssumption DEF Address
<1>5. \A c \in Cell : setting # c BY <1>1, CellsAssumption
<1>6. CASE Full[photo] = NoURL
  <2>1. /\ picture' = [view \in View |-> IF view \in PrepareForReuse(cell) THEN NoURL
                                        ELSE picture[view]]
        /\ UNCHANGED <<setting, current, loads, operations, URLOperations, memory,
                       disk, failedURLs, ioQueue, mainQueue, failures, raced>>
    BY <1>6 DEF Dequeue
  <2>2. LoaderTyped BY <1>2, LoaderTypes DEF LoaderInv
  <2>3. picture' \in [View -> URL \cup {NoURL}] BY <2>1, <2>2 DEF LoaderTyped
  <2>4. LoaderTyped' BY <2>1, <2>2, <2>3 DEF LoaderTyped
  <2>5. LoaderInv'
    BY <1>2, <2>1, <2>4, LoaderTypes
    DEF LoaderInv, OneLoadPerView, CurrentIsOwn, HandlersOfURL, EntriesOfURL, BlocksOfURL
  <2>6. ASSUME NEW c \in Cell PROVE SetterInv(c)'
    <3>1. setting' # c BY <1>5, <2>1
    <3>2. CASE c = cell
      <4>1. ~Complete(c)' BY <1>4, <1>6, <3>2 DEF Complete
      <4> QED BY <3>1, <4>1 DEF SetterInv
    <3>3. CASE c # cell
      <4>1. \A view \in {"imageView", "imageProfile"} : <<c, view>> \in View
        BY DEF View
      <4>2. \A view \in {"imageView", "imageProfile"} : picture'[<<c, view>>] = picture[<<c, view>>]
        BY <2>1, <3>3, <4>1 DEF PrepareForReuse
      <4>3. \A view \in {"imageView", "imageProfile"} : Right(c, view) => Right(c, view)'
        BY <1>4, <2>1, <3>3, <4>2 DEF Right
      <4>4. Complete(c)' => Complete(c) BY <1>4, <1>5, <3>3 DEF Complete
      <4>5. row'[c] = row[c] /\ label'[c] = label[c] BY <1>1, <1>3, <3>3
      <4> QED BY <3>1, <4>3, <4>4, <4>5 DEF SetterInv, CellsInv
    <3> QED BY <3>2, <3>3
  <2>7. setting' \in Cell \cup {NoCell} BY <1>1, <2>1
  <2> QED BY <1>3, <2>5, <2>6, <2>7 DEF CellsInv, TypeOK, LoaderInv
<1>7. CASE Full[photo] # NoURL
  <2>1. /\ SetImage(PrepareForReuse(cell), <<cell, "imageView">>, Full[photo])
        /\ setting' = cell
    BY <1>7 DEF Dequeue
  <2>2. Full[photo] \in URL /\ <<cell, "imageView">> \in View
    BY <1>7, CellsAssumption DEF View
  <2>3. LoaderInv' /\ GivenAddress(PrepareForReuse(cell), <<cell, "imageView">>, Full[photo])
    BY <1>2, <2>1, <2>2, SetImageKeeps
  <2>4. ASSUME NEW c \in Cell PROVE SetterInv(c)'
    <3>1. CASE c = cell
      <4>1. ~Complete(c)' BY <2>1, <3>1 DEF Complete
      <4>2. Right(c, "imageView")' BY <1>2, <1>4, <2>3, <3>1, GivenRight
      <4> QED BY <1>4, <1>7, <3>1, <4>1, <4>2 DEF SetterInv
    <3>2. CASE c # cell
      <4>1. \A view \in {"imageView", "imageProfile"} : <<cell, "imageView">> # <<c, view>>
        BY <3>2
      <4>2. \A view \in {"imageView", "imageProfile"} : Right(c, view) => Right(c, view)'
        BY <1>2, <1>3, <2>2, <2>3, <3>2, <4>1, GivenElsewhere
      <4>3. Complete(c)' => Complete(c) BY <1>4, <1>5, <3>2 DEF Complete
      <4>4. row'[c] = row[c] /\ label'[c] = label[c] /\ setting' # c
        BY <1>1, <1>3, <2>1, <3>2
      <4> QED BY <4>2, <4>3, <4>4 DEF SetterInv, CellsInv
    <3> QED BY <3>1, <3>2
  <2> QED BY <1>3, <2>1, <2>3, <2>4 DEF CellsInv, TypeOK, LoaderInv
<1> QED BY <1>6, <1>7

\* The setter ends: with its second address the cell is complete.
LEMMA SetProfileStep ==
    ASSUME CellsInv, SetProfile
    PROVE  CellsInv'
<1> DEFINE cell == setting
           photo == row[cell]
<1>1. /\ cell # NoCell /\ setting' = NoCell /\ row' = row /\ uses' = uses
  BY DEF SetProfile
<1>2. /\ LoaderInv /\ row \in [Cell -> Photo \cup {NoPhoto}] /\ uses \in 0 .. MaxUses
      /\ label \in [Cell -> Photo \cup {NoPhoto}] /\ cell \in Cell
  BY <1>1 DEF CellsInv, TypeOK
<1>3. Address(cell, "imageView") # NoURL /\ Right(cell, "imageView")
  BY <1>2 DEF CellsInv, SetterInv
<1>4. photo \in Photo /\ Address(cell, "imageProfile") = Medium[photo]
  BY <1>2, <1>3 DEF Address
<1>5. \A c \in Cell : \A view \in {"imageView", "imageProfile"} :
            Address(c, view)' = Address(c, view)
  BY <1>1 DEF Address
<1>6. \A c \in Cell : setting' # c BY <1>1, CellsAssumption
<1>7. \A c \in Cell : c # cell => Complete(c)' = Complete(c)
  BY <1>5, <1>6 DEF Complete
<1>8. CASE Medium[photo] = NoURL
  <2>1. UNCHANGED <<label, loaderVars>> BY <1>8 DEF SetProfile
  <2>2. LoaderTyped' = LoaderTyped BY <2>1 DEF LoaderTyped, loaderVars
  <2>3. LoaderInv'
    BY <1>2, <2>1, <2>2, LoaderTypes
    DEF LoaderInv, OneLoadPerView, CurrentIsOwn, HandlersOfURL, EntriesOfURL, BlocksOfURL,
        loaderVars
  <2>4. ASSUME NEW c \in Cell PROVE SetterInv(c)'
    <3>1. CASE c = cell
      <4>1. ~Complete(c)' BY <1>4, <1>5, <1>8, <3>1 DEF Complete
      <4> QED BY <1>6, <4>1 DEF SetterInv
    <3>2. CASE c # cell
      <4>1. \A view \in {"imageView", "imageProfile"} : Right(c, view) => Right(c, view)'
        BY <1>5, <2>1 DEF Right, loaderVars
      <4> QED BY <1>1, <1>6, <1>7, <2>1, <3>2, <4>1 DEF SetterInv, CellsInv
    <3> QED BY <3>1, <3>2
  <2> QED BY <1>1, <1>2, <2>1, <2>3, <2>4 DEF CellsInv, TypeOK, LoaderInv
<1>9. CASE Medium[photo] # NoURL
  <2>1. /\ SetImage({}, <<cell, "imageProfile">>, Medium[photo])
        /\ label' = [label EXCEPT ![cell] = photo]
    BY <1>9 DEF SetProfile
  <2>2. Medium[photo] \in URL /\ <<cell, "imageProfile">> \in View
    BY <1>2, <1>4, <1>9, CellsAssumption DEF View
  <2>3. LoaderInv' /\ GivenAddress({}, <<cell, "imageProfile">>, Medium[photo])
    BY <1>2, <2>1, <2>2, SetImageKeeps
  <2>4. label' \in [Cell -> Photo \cup {NoPhoto}] BY <1>2, <1>4, <2>1
  <2>5. ASSUME NEW c \in Cell PROVE SetterInv(c)'
    <3>1. \A view \in {"imageView", "imageProfile"} :
                <<cell, "imageProfile">> # <<c, view>> /\ Right(c, view) => Right(c, view)'
      BY <1>1, <1>2, <2>2, <2>3, GivenElsewhere
    <3>2. CASE c = cell
      <4>1. label'[c] = row'[c] BY <1>1, <1>2, <2>1, <3>2
      <4>2. Right(c, "imageView")' BY <1>3, <3>1, <3>2
      <4>3. Right(c, "imageProfile")' BY <1>2, <1>4, <1>5, <2>3, <3>2, GivenRight
      <4> QED BY <1>6, <4>1, <4>2, <4>3 DEF SetterInv
    <3>3. CASE c # cell
      <4>1. \A view \in {"imageView", "imageProfile"} : Right(c, view) => Right(c, view)'
        BY <3>1, <3>3
      <4>2. label'[c] = label[c] BY <1>2, <2>1, <3>3
      <4> QED BY <1>1, <1>6, <1>7, <3>3, <4>1, <4>2 DEF SetterInv, CellsInv
    <3> QED BY <3>2, <3>3
  <2> QED BY <1>1, <1>2, <2>3, <2>4, <2>5 DEF CellsInv, TypeOK, LoaderInv
<1> QED BY <1>8, <1>9

LEMMA QueuesStep ==
    ASSUME CellsInv, MainQueueRuns \/ IOQueueRuns \/ DownloadsRun
    PROVE  CellsInv'
<1>1. LoaderInv BY DEF CellsInv
<1>2. LoaderInv' /\ Calm
  <2>1. CASE MainQueueRuns
    BY <1>1, <2>1, RunDiskAnswerKeeps, RunHandlersKeeps DEF MainQueueRuns, MainStep
  <2>2. CASE IOQueueRuns
    BY <1>1, <2>2, QueryDiskKeeps, StoreToDiskKeeps DEF IOQueueRuns, IOStep
  <2>3. CASE DownloadsRun
    BY <1>1, <2>3, CollectKeeps, FinishKeeps, RemoveEntryKeeps DEF DownloadsRun, DownloadStep
  <2> QED BY <2>1, <2>2, <2>3
<1>3. UNCHANGED <<row, label, setting, uses>>
  BY DEF MainQueueRuns, IOQueueRuns, DownloadsRun
<1>4. ASSUME NEW c \in Cell PROVE SetterInv(c)'
  BY <1>1, <1>2, <1>3, CalmSetter DEF CellsInv
<1> QED BY <1>2, <1>3, <1>4 DEF CellsInv, TypeOK, LoaderInv

LEMMA CellsInit == Init => CellsInv
<1> SUFFICES ASSUME Init PROVE CellsInv OBVIOUS
<1>1. LoaderTyped
  <2>1. /\ loads = <<>> /\ operations = <<>> /\ ioQueue = <<>> /\ mainQueue = <<>>
        /\ failures = <<>>
    BY DEF Init, LoaderInit
  <2>2. /\ loads \in Seq(Load) /\ operations \in Seq(Operation) /\ failures \in Seq(URL)
        /\ ioQueue \in Seq(IOBlock(DOMAIN loads))
        /\ mainQueue \in Seq(MainBlock(DOMAIN loads))
    BY <2>1
  <2>3. /\ Len(loads) = 0 /\ Len(operations) = 0 /\ DOMAIN operations = {} BY <2>1
  <2>4. /\ picture \in [View -> URL \cup {NoURL}]
        /\ current \in [View -> 0 .. Len(loads)]
        /\ URLOperations \in [URL -> 0 .. Len(operations)]
    BY <2>3 DEF Init, LoaderInit
  <2> QED BY <2>2, <2>3, <2>4, StoredAssumption DEF Init, LoaderInit, LoaderTyped
<1>2. OneLoadPerView /\ CurrentIsOwn /\ HandlersOfURL /\ EntriesOfURL /\ BlocksOfURL
  BY DEF Init, LoaderInit, OneLoadPerView, CurrentIsOwn, HandlersOfURL, EntriesOfURL,
         BlocksOfURL
<1>3. ASSUME NEW c \in Cell PROVE SetterInv(c)
  <2>1. setting # c /\ row[c] = NoPhoto BY CellsAssumption DEF Init
  <2>2. ~Complete(c) BY <2>1 DEF Complete, Address
  <2> QED BY <2>1, <2>2 DEF SetterInv
<1>4. TypeOK BY <1>1, LoaderTypes, CellsAssumption DEF Init, TypeOK
<1> QED BY <1>1, <1>2, <1>3, <1>4, LoaderTypes DEF CellsInv, LoaderInv

LEMMA CellsStep == CellsInv /\ [Next]_vars => CellsInv'
<1> SUFFICES ASSUME CellsInv, [Next]_vars PROVE CellsInv' OBVIOUS
<1>1. CASE \E c \in Cell, photo \in Photo : Dequeue(c, photo) BY <1>1, DequeueStep
<1>2. CASE SetProfile BY <1>2, SetProfileStep
<1>3. CASE MainQueueRuns \/ IOQueueRuns \/ DownloadsRun BY <1>3, QueuesStep
<1>4. CASE UNCHANGED vars
  <2>1. Calm
    BY <1>4, LoaderTypes DEF vars, loaderVars, Calm, CellsInv, LoaderInv, LoaderTyped
  <2>2. LoaderTyped' = LoaderTyped BY <1>4 DEF LoaderTyped, vars, loaderVars
  <2>3. LoaderInv'
    BY <1>4, <2>2, LoaderTypes
    DEF CellsInv, LoaderInv, OneLoadPerView, CurrentIsOwn, HandlersOfURL, EntriesOfURL,
        BlocksOfURL, vars, loaderVars
  <2>4. ASSUME NEW c \in Cell PROVE SetterInv(c)'
    BY <1>4, <2>1, CalmSetter DEF CellsInv, vars
  <2> QED BY <1>4, <2>3, <2>4 DEF CellsInv, TypeOK, LoaderInv, vars
<1> QED BY <1>1, <1>2, <1>3, <1>4 DEF Next

\* The invariant of cells and loader holds always.
THEOREM CellsInvariant == Spec => []CellsInv
BY CellsInit, CellsStep, PTL DEF Spec

\* Every variable of the cells and the image loader keeps its type: handlers,
\* queued blocks and views name loads there are, whatever is reused, cancelled,
\* joined or failed.
THEOREM CellsTypeOK == Spec => []TypeOK
<1>1. CellsInv => TypeOK BY DEF CellsInv
<1> QED BY <1>1, CellsInvariant, PTL

\* A cell whose photo has both addresses shows its name and no other photo's
\* picture, for any number of cells, photos, loads and failed downloads.
THEOREM CellsShowsItsRow == Spec => []ShowsItsRow
<1>1. CellsInv => ShowsItsRow
  <2> SUFFICES ASSUME CellsInv, NEW c \in Cell, Complete(c)
               PROVE  /\ label[c] = row[c]
                      /\ \A view \in {"imageView", "imageProfile"} :
                            picture[<<c, view>>] \in {NoURL, Address(c, view)}
    BY DEF ShowsItsRow
  <2>1. label[c] = row[c] /\ Right(c, "imageView") /\ Right(c, "imageProfile")
    BY DEF CellsInv, SetterInv
  <2> QED BY <2>1 DEF Right
<1> QED BY <1>1, CellsInvariant, PTL
=============================================================================
