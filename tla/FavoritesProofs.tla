--------------------------- MODULE FavoritesProofs --------------------------
(* Theorems about Favorites, for every set of photos, stamps and texts.     *)
EXTENDS Favorites, FiniteSetTheorems, WellFoundedInduction, TLAPS

\* The database of the favourites, with what is proved of it.
P == INSTANCE RealtimeDatabaseProofs
        WITH Path <- Key \cup {Stray}, Listened <- Key, Value <- Record

\* Appending to a sequence, whatever its elements are.
LEMMA Appended ==
    ASSUME NEW S, NEW s \in Seq(S), NEW e
    PROVE  /\ Append(s, e) \in Seq(S \cup {e})
           /\ \A i \in DOMAIN s : i \in DOMAIN Append(s, e) /\ Append(s, e)[i] = s[i]
           /\ Len(s) + 1 \in DOMAIN Append(s, e)
           /\ Append(s, e)[Len(s) + 1] = e
<1>1. s \in Seq(S \cup {e}) /\ e \in S \cup {e} OBVIOUS
<1> QED BY <1>1

\* A sequence that has a head keeps the other elements in its tail.
LEMMA Dequeued ==
    ASSUME NEW S, NEW s \in Seq(S), s # <<>>
    PROVE  /\ Tail(s) \in Seq(S)
           /\ \A i \in DOMAIN s :
                 \/ s[i] = Head(s)
                 \/ \E j \in DOMAIN Tail(s) : Tail(s)[j] = s[i]
<1>1. Tail(s) \in Seq(S) OBVIOUS
<1>2. ASSUME NEW i \in DOMAIN s, i # 1
      PROVE  i - 1 \in DOMAIN Tail(s) /\ Tail(s)[i - 1] = s[i]
  <2>1. i \in 1 .. Len(s) /\ Len(s) \in Nat /\ Len(Tail(s)) = Len(s) - 1 OBVIOUS
  <2>2. i - 1 \in 1 .. Len(Tail(s)) BY <1>2, <2>1
  <2> QED BY <1>1, <2>2
<1>3. Head(s) = s[1] OBVIOUS
<1> QED BY <1>1, <1>2, <1>3

-----------------------------------------------------------------------------
MainQueueIsSeq == \E S : mainQueue \in Seq(S)

ReloadQueued == \E i \in DOMAIN mainQueue : mainQueue[i] = Reload

\* A block is queued behind the others: what was queued still is.
LEMMA Queued ==
    ASSUME MainQueueIsSeq, NEW block, mainQueue' = Append(mainQueue, block)
    PROVE  /\ MainQueueIsSeq'
           /\ ReloadQueued => ReloadQueued'
           /\ block = Reload => ReloadQueued'
<1>1. PICK S : mainQueue \in Seq(S) BY DEF MainQueueIsSeq
<1>2. mainQueue' \in Seq(S \cup {block}) BY <1>1, Appended
<1>3. Reload' = Reload BY DEF Reload
<1>4. ReloadQueued => ReloadQueued' BY <1>1, <1>3, Appended DEF ReloadQueued
<1>5. block = Reload => ReloadQueued' BY <1>1, <1>3, Appended DEF ReloadQueued
<1> QED BY <1>2, <1>4, <1>5 DEF MainQueueIsSeq

CurrentInv == MainQueueIsSeq /\ ScreenCurrent

\* A step that leaves the rows and the search bar alone, and at most queues a
\* block, leaves the screen current.
LEMMA RowsUntouched ==
    ASSUME CurrentInv, UNCHANGED screen,
           \/ mainQueue' = mainQueue
           \/ \E block : mainQueue' = Append(mainQueue, block)
    PROVE  CurrentInv'
<1>1. loaded' = loaded /\ shown' = shown /\ Items' = Items BY DEF screen, Items
<1>2. CASE mainQueue' = mainQueue
  BY <1>1, <1>2 DEF CurrentInv, MainQueueIsSeq, ScreenCurrent, Reload
<1>3. ASSUME NEW block, mainQueue' = Append(mainQueue, block) PROVE CurrentInv'
  <2>1. MainQueueIsSeq' /\ (ReloadQueued => ReloadQueued')
    BY <1>3, Queued DEF CurrentInv
  <2> QED BY <1>1, <2>1 DEF CurrentInv, ScreenCurrent, ReloadQueued
<1> QED BY <1>2, <1>3

\* A step that queues a reload leaves the screen current, whatever it did.
LEMMA RowsReloaded ==
    ASSUME MainQueueIsSeq, mainQueue' = Append(mainQueue, Reload)
    PROVE  CurrentInv'
<1>1. MainQueueIsSeq' /\ ReloadQueued' BY Queued
<1> QED BY <1>1 DEF CurrentInv, ScreenCurrent, ReloadQueued

LEMMA CurrentInvNext ==
    ASSUME CurrentInv, [Next]_vars
    PROVE  CurrentInv'
<1>1. CASE OpenFavoritesTab
  <2>1. shown' = Items' /\ mainQueue' = mainQueue
    BY <1>1 DEF OpenFavoritesTab, Items
  <2> QED BY <2>1 DEF CurrentInv, MainQueueIsSeq, ScreenCurrent
<1>2. ASSUME NEW t \in Text, TextDidChange(t) PROVE CurrentInv'
  BY <1>2, RowsReloaded DEF TextDidChange, CurrentInv
<1>3. ASSUME NEW photo \in Photo, OpenPhoto(photo) PROVE CurrentInv'
  BY <1>3, RowsUntouched DEF OpenPhoto, queues
<1>4. ASSUME NEW row, OpenRow(row) PROVE CurrentInv'
  BY <1>4, RowsUntouched DEF OpenRow, queues
<1>5. ASSUME NEW tab \in Tab, CloseDetail(tab) PROVE CurrentInv'
  BY <1>5, RowsUntouched DEF CloseDetail, queues
<1>6. ASSUME NEW tab \in Tab, TapStar(tab) PROVE CurrentInv'
  BY <1>6, RowsUntouched DEF TapStar
<1>7. CASE RunOperation
  BY <1>7, RowsUntouched DEF RunOperation, RaiseValueEvent
<1>8. CASE ClientReceives
  BY <1>8, RowsUntouched DEF ClientReceives, RaiseValueEvent
<1>9. CASE ConnectionStep \/ ServerStep \/ ForeignStep
  BY <1>9, RowsUntouched DEF ConnectionStep, ServerStep, ForeignStep, queues
<1>10. CASE RunValueEvent
  <2>1. PICK S : mainQueue \in Seq(S) BY DEF CurrentInv, MainQueueIsSeq
  <2>2. mainQueue # <<>> /\ mainQueue' = Append(Tail(mainQueue), Reload)
    BY <1>10 DEF RunValueEvent
  <2>3. Tail(mainQueue) \in Seq(S) BY <2>1, <2>2, Dequeued
  <2>4. mainQueue' \in Seq(S \cup {Reload})
        /\ \E i \in DOMAIN mainQueue' : mainQueue'[i] = Reload
    BY <2>2, <2>3, Appended
  <2>5. Reload' = Reload BY DEF Reload
  <2> QED BY <2>4, <2>5 DEF CurrentInv, MainQueueIsSeq, ScreenCurrent
<1>11. CASE RunReload
  <2>1. PICK S : mainQueue \in Seq(S) BY DEF CurrentInv, MainQueueIsSeq
  <2>2. mainQueue # <<>> /\ mainQueue' = Tail(mainQueue) /\ shown' = Items'
    BY <1>11 DEF RunReload, Items
  <2>3. mainQueue' \in Seq(S) BY <2>1, <2>2, Dequeued
  <2> QED BY <2>2, <2>3 DEF CurrentInv, MainQueueIsSeq, ScreenCurrent
<1>12. CASE Kill
  <2>1. mainQueue' = <<>> /\ ~loaded' BY <1>12 DEF Kill
  <2>2. mainQueue' \in Seq({}) BY <2>1
  <2> QED BY <2>1, <2>2 DEF CurrentInv, MainQueueIsSeq, ScreenCurrent
<1>13. ASSUME NEW row, TapMissingRow(row) PROVE CurrentInv'
  BY <1>12, <1>13 DEF TapMissingRow
<1>14. CASE UNCHANGED vars
  BY <1>14, RowsUntouched DEF vars, queues
<1> QED
  BY <1>1, <1>2, <1>3, <1>4, <1>5, <1>6, <1>7, <1>8, <1>9, <1>10, <1>11, <1>12,
     <1>13, <1>14 DEF Next, RunMainQueue

\* The rows on screen are the rows a tap indexes, or a reload is queued: for
\* every set of photos, stamps and texts, and any number of writes, troubles
\* and queued blocks.
THEOREM FavoritesScreenCurrent == Spec => []ScreenCurrent
<1>1. Init => CurrentInv
  <2>1. <<>> \in Seq({}) OBVIOUS
  <2> QED BY <2>1 DEF Init, CurrentInv, MainQueueIsSeq, ScreenCurrent
<1>2. CurrentInv => ScreenCurrent BY DEF CurrentInv
<1> QED BY <1>1, <1>2, CurrentInvNext, PTL DEF Spec
-----------------------------------------------------------------------------
(* The database below.                                                      *)

LEMMA Assumptions ==
    P!PathAssumption /\ P!AbsentAssumption /\ P!BoundsAssumption /\ P!UnknownAssumption
BY DatabaseAssumption
   DEF P!PathAssumption, P!AbsentAssumption, P!BoundsAssumption, P!UnknownAssumption,
       P!Data, DB!Data, P!Content, DB!Content

\* The actions are the same under both names.
LEMMA SameActions ==
    /\ \A path, value : DB!Set(path, value) => P!Set(path, value)
    /\ DB!Observe => P!Observe
    /\ DB!Connect => P!Connect
    /\ DB!Disconnect => P!Disconnect
    /\ DB!Kill => P!Kill
    /\ DB!Serve => P!Serve
    /\ DB!Receive => P!Receive
    /\ \A path, value : DB!ForeignWrite(path, value) => P!ForeignWrite(path, value)
<1> USE DEF DB!server, P!server, DB!client, P!client, DB!bounds, P!bounds
<1> USE DEF DB!Cardinality, P!Cardinality, DB!IsFiniteSet, P!IsFiniteSet
<1>1. \A path, value : DB!Set(path, value) => P!Set(path, value)
  BY DEF DB!Set, P!Set, DB!Put, P!Put
<1>2. DB!Observe => P!Observe BY DEF DB!Observe, P!Observe, DB!Listen, P!Listen
<1>3. DB!Connect => P!Connect
  BY DEF DB!Connect, P!Connect, DB!Listen, P!Listen, DB!Put, P!Put, DB!Out, P!Out,
         DB!Subsequence, P!Subsequence, DB!Nth, P!Nth
<1>4. DB!Disconnect => P!Disconnect BY DEF DB!Disconnect, P!Disconnect
<1>5. DB!Kill => P!Kill BY DEF DB!Kill, P!Kill
<1>6. DB!Serve => P!Serve
  <2> USE DEF DB!Update, P!Update, DB!DataMessage, P!DataMessage, DB!PutResponse,
              P!PutResponse, DB!Listen, P!Listen
  <2>1. DB!ServeListen => P!ServeListen
    BY DEF DB!ServeListen, P!ServeListen, DB!Snapshot, P!Snapshot, DB!ListenResponse,
           P!ListenResponse
  <2>2. DB!ServePut => P!ServePut BY DEF DB!ServePut, P!ServePut
  <2>3. DB!RefusePut => P!RefusePut BY DEF DB!RefusePut, P!RefusePut
  <2> QED BY <2>1, <2>2, <2>3 DEF DB!Serve, P!Serve
<1>7. DB!Receive => P!Receive
  <2> USE DEF DB!Reads, P!Reads
  <2>1. DB!ReceiveSnapshot => P!ReceiveSnapshot
    BY DEF DB!ReceiveSnapshot, P!ReceiveSnapshot
  <2>2. DB!ReceiveData => P!ReceiveData BY DEF DB!ReceiveData, P!ReceiveData
  <2>3. DB!ReceiveListenResponse => P!ReceiveListenResponse
    BY DEF DB!ReceiveListenResponse, P!ReceiveListenResponse, DB!Out, P!Out,
           DB!Subsequence, P!Subsequence, DB!Nth, P!Nth
  <2>4. DB!ReceiveAnswer => P!ReceiveAnswer 
    BY DEF DB!ReceiveAnswer, P!ReceiveAnswer, DB!SelectInSeq, P!SelectInSeq, DB!RemoveAt,
           P!RemoveAt, DB!Min, P!Min
  <2> QED BY <2>1, <2>2, <2>3, <2>4 DEF DB!Receive, P!Receive
<1>8. \A path, value : DB!ForeignWrite(path, value) => P!ForeignWrite(path, value)
  BY DEF DB!ForeignWrite, P!ForeignWrite, DB!Update, P!Update, DB!DataMessage,
         P!DataMessage
<1> QED BY <1>1, <1>2, <1>3, <1>4, <1>5, <1>6, <1>7, <1>8

LEMMA SameTypes ==
    /\ DB!Content = P!Content /\ DB!Data = P!Data
    /\ DB!View = P!View /\ DB!View = P!Shown(known, writes)
BY DEF DB!Content, P!Content, DB!Data, P!Data, DB!View, P!View, P!Shown

\* A step of Favorites is one of the database, or leaves it alone.
LEMMA DatabaseStep ==
    ASSUME TypeOK, [Next]_vars
    PROVE  [P!Next]_P!dbvars
<1>1. ASSUME UNCHANGED dbvars PROVE UNCHANGED P!dbvars BY <1>1 DEF dbvars, P!dbvars
<1>2. CASE RunOperation
  <2>1. Head(sharedQueue) \in Operation BY <1>2, Dequeued DEF RunOperation, TypeOK
  <2>2. CASE Head(sharedQueue).type = "set"
    <3>1. /\ Head(sharedQueue).path \in Key \cup {Stray}
          /\ Head(sharedQueue).value \in P!Content
      BY <2>1, <2>2, SameTypes DEF Operation, ObserveOp
    <3>2. P!Set(Head(sharedQueue).path, Head(sharedQueue).value)
      BY <1>2, <2>2, SameActions DEF RunOperation
    <3> QED BY <3>1, <3>2 DEF P!Next
  <2>3. CASE Head(sharedQueue).type = "observe"
    BY <1>2, <2>3, SameActions DEF RunOperation, P!Next
  <2> QED BY <1>2, <2>2, <2>3 DEF RunOperation
<1>3. CASE ClientReceives \/ ConnectionStep \/ ServerStep \/ Kill
  BY <1>3, SameActions DEF ClientReceives, ConnectionStep, ServerStep, Kill, P!Next
<1>4. CASE ForeignStep
  <2>1. PICK k \in Key, c \in DB!Content : DB!ForeignWrite(k, c) BY <1>4 DEF ForeignStep
  <2> QED BY <2>1, SameActions, SameTypes DEF P!Next
<1>5. ASSUME NEW row, OpenRow(row) \/ TapMissingRow(row) PROVE [P!Next]_P!dbvars
  BY <1>1, <1>3, <1>5 DEF OpenRow, TapMissingRow
<1>6. ASSUME \/ OpenFavoritesTab \/ RunMainQueue \/ UNCHANGED vars
             \/ \E t \in Text : TextDidChange(t)
             \/ \E photo \in Photo : OpenPhoto(photo)
             \/ \E tab \in Tab : CloseDetail(tab) \/ TapStar(tab)
      PROVE  UNCHANGED P!dbvars
  <2>1. UNCHANGED dbvars
    BY <1>6 DEF OpenFavoritesTab, RunMainQueue, RunValueEvent, RunReload, vars,
                TextDidChange, OpenPhoto, CloseDetail, TapStar
  <2> QED BY <1>1, <2>1
<1> QED BY <1>2, <1>3, <1>4, <1>5, <1>6 DEF Next

-----------------------------------------------------------------------------
(* The rows.                                                                *)

\* The elements at positions of a sequence are its own.
LEMMA SubsequenceOf ==
    ASSUME NEW s, NEW m \in Nat, NEW S \in SUBSET (1 .. m)
    PROVE  /\ Cardinality(S) \in Nat
           /\ DOMAIN DB!Subsequence(s, S) = 1 .. Cardinality(S)
           /\ \A n \in 1 .. Cardinality(S) : \E i \in S : DB!Subsequence(s, S)[n] = s[i]
           /\ S = {} => DB!Subsequence(s, S) = <<>>
<1> USE DEF DB!Cardinality, Cardinality, P!Cardinality, DB!IsFiniteSet, IsFiniteSet,
            P!IsFiniteSet
<1>1. DB!Subsequence(s, S) = [n \in 1 .. Cardinality(S) |-> s[P!Nth(S, n)]]
  BY DEF DB!Subsequence, DB!Nth, P!Nth
<1>2. \A n \in 1 .. Cardinality(S) : P!Nth(S, n) \in S BY Assumptions, P!NthIsIn
<1> HIDE DEF DB!Cardinality, Cardinality, P!Cardinality, DB!IsFiniteSet, IsFiniteSet,
             P!IsFiniteSet
<1>3. Cardinality(S) \in Nat
  <2>1. IsFiniteSet(1 .. m) BY FS_Interval
  <2> QED BY <2>1, FS_Subset, FS_CardinalityType
<1>4. ASSUME S = {} PROVE DB!Subsequence(s, S) = <<>>
  <2>1. Cardinality(S) = 0 BY <1>4, FS_EmptySet
  <2>2. 1 .. 0 = {} OBVIOUS
  <2>3. DB!Subsequence(s, S) = [n \in {} |-> s[P!Nth(S, n)]] BY <1>1, <2>1, <2>2
  <2> QED BY <2>3
<1> QED BY <1>1, <1>2, <1>3, <1>4

\* A row is a record, whatever the data and the text of the search.
LEMMA RowsAreRecords ==
    ASSUME NEW data \in DB!Data
    PROVE  \E n \in Nat : DOMAIN Rows(data) = 1 .. n
                          /\ \A i \in 1 .. n : Rows(data)[i] \in Record
<1> DEFINE S == {i \in DOMAIN KeyOrder : data[KeyOrder[i]] # Absent}
           present == DB!Subsequence(KeyOrder, S)
<1>1. PICK m \in Nat : DOMAIN KeyOrder = 1 .. m BY KeyAssumption
<1>2. S \in SUBSET (1 .. m) BY <1>1
<1>3. /\ Cardinality(S) \in Nat /\ DOMAIN present = 1 .. Cardinality(S)
      /\ \A n \in 1 .. Cardinality(S) : \E i \in S : present[n] = KeyOrder[i]
  BY <1>1, <1>2, SubsequenceOf
<1>4. Rows(data) = [i \in DOMAIN present |->
                       [photo |-> data[present[i]].photo, described |-> FALSE]]
  BY DEF Rows
<1>5. ASSUME NEW i \in S PROVE data[KeyOrder[i]].photo \in Photo
  <2>1. KeyOrder[i] \in Key BY DEF Key
  <2>2. data[KeyOrder[i]] \in DB!Content BY <2>1 DEF DB!Data
  <2>3. data[KeyOrder[i]] \in Record BY <2>2 DEF DB!Content
  <2> HIDE DEF S
  <2> QED BY <2>3 DEF Record
<1> HIDE DEF S, present
<1>6. ASSUME NEW n \in 1 .. Cardinality(S) PROVE Rows(data)[n] \in Record
  <2>1. data[present[n]].photo \in Photo BY <1>3, <1>5
  <2>2. Rows(data)[n] = [photo |-> data[present[n]].photo, described |-> FALSE]
    BY <1>3, <1>4
  <2> QED BY <2>1, <2>2 DEF Record
<1> QED BY <1>3, <1>4, <1>6

LEMMA FilteredAreRecords ==
    ASSUME NEW rows \in RowList, NEW t
    PROVE  \E n \in Nat : DOMAIN Filtered(rows, t) = 1 .. n
                          /\ \A i \in 1 .. n : Filtered(rows, t)[i] \in Record
<1>1. PICK data \in DB!Data : rows = Rows(data) BY DEF RowList
<1>2. PICK m \in Nat : DOMAIN rows = 1 .. m /\ \A i \in 1 .. m : rows[i] \in Record
  BY <1>1, RowsAreRecords
<1>3. PICK S \in SUBSET (1 .. m) : S = {i \in DOMAIN rows : rows[i].photo \in Matching[t]}
  BY <1>2
<1>4. Filtered(rows, t) = DB!Subsequence(rows, S) BY <1>3 DEF Filtered
<1>5. /\ Cardinality(S) \in Nat /\ DOMAIN Filtered(rows, t) = 1 .. Cardinality(S)
      /\ \A n \in 1 .. Cardinality(S) : \E i \in S : Filtered(rows, t)[n] = rows[i]
  <2>1. /\ Cardinality(S) \in Nat /\ DOMAIN DB!Subsequence(rows, S) = 1 .. Cardinality(S)
        /\ \A n \in 1 .. Cardinality(S) : \E i \in S : DB!Subsequence(rows, S)[n] = rows[i]
    BY SubsequenceOf
  <2> QED BY <1>4, <2>1
<1> QED BY <1>2, <1>3, <1>5

LEMMA EmptyLists == <<>> \in RowList /\ <<>> \in FilteredList
<1> DEFINE data == [k \in Key |-> Absent]
<1>1. data \in DB!Data BY DEF DB!Data, DB!Content
<1>2. PICK m \in Nat : DOMAIN KeyOrder = 1 .. m BY KeyAssumption
<1>3. {i \in DOMAIN KeyOrder : data[KeyOrder[i]] # Absent} = {} BY DEF Key
<1>4. DB!Subsequence(KeyOrder, {}) = <<>> BY <1>2, SubsequenceOf
<1>5. Rows(data) = <<>>
  <2>1. Rows(data) = [i \in DOMAIN <<>> |->
                         [photo |-> data[<<>>[i]].photo, described |-> FALSE]]
    BY <1>3, <1>4 DEF Rows
  <2> QED BY <2>1
<1>6. <<>> \in RowList BY <1>1, <1>5 DEF RowList
<1>7. Filtered(<<>>, NoText) = <<>>
  <2>1. {i \in DOMAIN <<>> : <<>>[i].photo \in Matching[NoText]} = {} OBVIOUS
  <2>2. DB!Subsequence(<<>>, {}) = <<>> BY <1>2, SubsequenceOf
  <2> QED BY <2>1, <2>2 DEF Filtered
<1> QED BY <1>6, <1>7, TextAssumption DEF FilteredList

-----------------------------------------------------------------------------
(* Types.                                                                   *)

LEMMA ViewTypeAfter ==
    ASSUME P!Inv'
    PROVE  /\ DB!View' \in DB!Data \cup {Unknown}
           /\ DB!View' # Unknown <=> known' # Unknown
<1>1. known' \in P!Data \cup {Unknown} /\ writes' \in Seq(P!Write)
  BY DEF P!Inv, P!Good, P!TypeOK
<1>2. /\ P!Shown(known', writes') \in P!Data \cup {Unknown}
      /\ P!Shown(known', writes') # Unknown <=> known' # Unknown
  BY <1>1, Assumptions, P!ShownType
<1>3. DB!View' = P!Shown(known', writes') BY DEF DB!View, P!Shown
<1> QED BY <1>2, <1>3, SameTypes

LEMMA ItemsType ==
    ASSUME TypeOK
    PROVE  /\ Items \in RowList \cup FilteredList
           /\ \A row \in DOMAIN Items : Items[row] \in Record
<1>1. ASSUME NEW rows \in RowList PROVE \A row \in DOMAIN rows : rows[row] \in Record
  <2>1. PICK data \in DB!Data : rows = Rows(data) BY DEF RowList
  <2> QED BY <2>1, RowsAreRecords
<1>2. ASSUME NEW rows \in FilteredList PROVE \A row \in DOMAIN rows : rows[row] \in Record
  <2>1. PICK all \in RowList, t \in Text : rows = Filtered(all, t) BY DEF FilteredList
  <2> QED BY <2>1, FilteredAreRecords
<1>3. Items \in RowList \cup FilteredList BY DEF TypeOK, Items
<1> QED BY <1>1, <1>2, <1>3

LEMMA QueuesType ==
    /\ Reload \in Block
    /\ ObserveOp \in Operation
    /\ \A data \in DB!Data : ValueEvent(data) \in Block
    /\ \A record \in Record : Upload(record) \in Operation
    /\ \A record \in Record, tab \in Tab : Removal(record, tab) \in Operation
<1>1. Reload \in Block /\ ObserveOp \in Operation BY DEF Block, Operation
<1>2. ASSUME NEW data \in DB!Data PROVE ValueEvent(data) \in Block
  BY DEF ValueEvent, Block, RowList
<1>3. ASSUME NEW record \in Record
      PROVE  KeyOf[record.photo] \in Key \cup {Stray}
  <2>1. record.photo \in Photo BY DEF Record
  <2> QED BY <2>1, KeyAssumption
<1>4. ASSUME NEW path \in Key \cup {Stray}, NEW value \in DB!Content
      PROVE  SetOp(path, value) \in Operation
  BY DEF SetOp, Operation
<1>5. \A record \in Record : record \in DB!Content BY DEF DB!Content
<1>6. Absent \in DB!Content BY DEF DB!Content
<1>7. \A record \in Record : Upload(record) \in Operation BY <1>3, <1>4, <1>5 DEF Upload
<1>8. \A record \in Record, tab \in Tab : Removal(record, tab) \in Operation
  BY <1>3, <1>4, <1>6 DEF Removal
<1> QED BY <1>1, <1>2, <1>7, <1>8

\* The types of what is on the main thread only, of the detail screens and of the
\* queues.
LEMMA TypeStep ==
    ASSUME TypeOK, P!Inv', [Next]_vars
    PROVE  TypeOK'
<1> USE DEF TypeOK
<1>1. CASE OpenFavoritesTab
  <2>1. shown' \in RowList \cup FilteredList BY <1>1, ItemsType DEF OpenFavoritesTab
  <2>2. sharedQueue' \in Seq(Operation) BY <1>1, QueuesType DEF OpenFavoritesTab
  <2> QED BY <1>1, <2>1, <2>2 DEF OpenFavoritesTab, history
<1>2. ASSUME NEW t \in Text, TextDidChange(t) PROVE TypeOK'
  <2>1. filtroPost' \in FilteredList BY <1>2 DEF TextDidChange, FilteredList
  <2>2. mainQueue' \in Seq(Block) BY <1>2, QueuesType DEF TextDidChange
  <2> QED BY <1>2, <2>1, <2>2 DEF TextDidChange, history
<1>3. ASSUME NEW tab \in Tab, NEW record \in Record, NEW selected \in BOOLEAN,
             detail' = [detail EXCEPT ![tab] = [record |-> record, selected |-> selected]]
      PROVE  detail' \in [Tab -> Detail \cup {Closed}]
  BY <1>3 DEF Detail
<1>4. ASSUME NEW photo \in Photo, OpenPhoto(photo) PROVE TypeOK'
  <2>1. [photo |-> photo, described |-> TRUE] \in Record BY DEF Record
  <2>2. "main" \in Tab BY DEF Tab
  <2>3. detail' \in [Tab -> Detail \cup {Closed}] BY <1>3, <1>4, <2>1, <2>2 DEF OpenPhoto
  <2> QED BY <1>4, <2>3 DEF OpenPhoto, screen, queues, history
<1>5. ASSUME NEW row, OpenRow(row) PROVE TypeOK'
  <2>1. Items[row] \in Record BY <1>5, ItemsType DEF OpenRow
  <2>2. "favorites" \in Tab BY DEF Tab
  <2>3. detail' \in [Tab -> Detail \cup {Closed}] BY <1>3, <1>5, <2>1, <2>2 DEF OpenRow
  <2> QED BY <1>5, <2>3 DEF OpenRow, screen, queues, history
<1>6. ASSUME NEW tab \in Tab, CloseDetail(tab) PROVE TypeOK'
  BY <1>6 DEF CloseDetail, screen, queues, history
<1>7. ASSUME NEW tab \in Tab, TapStar(tab) PROVE TypeOK'
  <2>1. detail[tab] \in Detail BY <1>7 DEF TapStar
  <2>2. PICK record \in Record : record = detail[tab].record BY <2>1 DEF Detail
  <2>3. PICK selected \in BOOLEAN : selected = ~detail[tab].selected BY <2>1 DEF Detail
  <2>4. detail' \in [Tab -> Detail \cup {Closed}]
    <3>1. detail' = [detail EXCEPT ![tab].selected = selected] BY <1>7, <2>3 DEF TapStar
    <3>2. [detail[tab] EXCEPT !.selected = selected] \in Detail BY <2>1 DEF Detail
    <3> QED BY <3>1, <3>2
  <2>5. sharedQueue' \in Seq(Operation)
    BY <1>7, <2>2, QueuesType DEF TapStar
  <2>6. told' \in [Key -> Alert \cup {Untold}]
    <3>1. record.photo \in Photo BY <2>2 DEF Record
    <3>2. [alert |-> IF selected THEN "saved" ELSE "deleted", photo |-> record.photo,
           tab |-> tab] \in Alert
      BY <3>1 DEF Alert
    <3> QED BY <1>7, <2>2, <2>3, <3>2 DEF TapStar
  <2> QED BY <1>7, <2>4, <2>5, <2>6 DEF TapStar, screen
<1>8. ASSUME RaiseValueEvent PROVE mainQueue' \in Seq(Block)
  <2>1. DB!View' # Unknown => ValueEvent(DB!View') \in Block
    BY ViewTypeAfter, QueuesType
  <2> QED BY <1>8, <2>1 DEF RaiseValueEvent
<1>9. CASE RunOperation
  <2>1. sharedQueue' \in Seq(Operation) BY <1>9, Dequeued DEF RunOperation
  <2> QED BY <1>8, <1>9, <2>1 DEF RunOperation, screen, history
<1>10. CASE ClientReceives
  BY <1>8, <1>10 DEF ClientReceives, screen, history
<1>11. CASE ConnectionStep \/ ServerStep \/ ForeignStep \/ UNCHANGED vars
  BY <1>11 DEF ConnectionStep, ServerStep, ForeignStep, vars, screen, queues, history
<1>12. CASE RunValueEvent
  <2>1. Head(mainQueue) \in Block /\ Tail(mainQueue) \in Seq(Block)
    BY <1>12, Dequeued DEF RunValueEvent
  <2>2. dataFirebase' \in RowList BY <1>12, <2>1 DEF RunValueEvent, Block, Reload
  <2>3. mainQueue' \in Seq(Block) BY <1>12, <2>1, QueuesType DEF RunValueEvent
  <2> QED BY <1>12, <2>2, <2>3 DEF RunValueEvent, history
<1>13. CASE RunReload
  <2>1. mainQueue' \in Seq(Block) BY <1>13, Dequeued DEF RunReload
  <2> QED BY <1>13, <2>1, ItemsType DEF RunReload, history
<1>14. CASE Kill
  <2>1. Unanswered \subseteq Key BY DEF Unanswered
  <2>2. detail' \in [Tab -> Detail \cup {Closed}] BY <1>14 DEF Kill
  <2>3. text' \in Text BY <1>14, TextAssumption DEF Kill
  <2>4. sharedQueue' \in Seq(Operation) /\ mainQueue' \in Seq(Block) BY <1>14 DEF Kill
  <2>5. lost' \subseteq Key /\ told' \in [Key -> Alert \cup {Untold}]
    BY <1>14, <2>1 DEF Kill
  <2>6. /\ dataFirebase' \in RowList /\ filtroPost' \in FilteredList
        /\ shown' \in RowList \cup FilteredList /\ loaded' \in BOOLEAN
    BY <1>14, EmptyLists DEF Kill
  <2> QED BY <2>2, <2>3, <2>4, <2>5, <2>6
<1>15. ASSUME NEW row, TapMissingRow(row) PROVE TypeOK'
  BY <1>14, <1>15 DEF TapMissingRow
<1> QED
  BY <1>1, <1>2, <1>4, <1>5, <1>6, <1>7, <1>9, <1>10, <1>11, <1>12, <1>13, <1>14, <1>15
     DEF Next, RunMainQueue

-----------------------------------------------------------------------------
(* The value events.                                                        *)

\* What the value blocks of the main queue leave behind as the rows of the list.
Leaves(rows) ==
    \/ /\ \A i \in DOMAIN mainQueue : mainQueue[i].type # "value"
       /\ dataFirebase = rows
    \/ \E i \in DOMAIN mainQueue :
          /\ mainQueue[i].type = "value" /\ mainQueue[i].rows = rows
          /\ \A j \in DOMAIN mainQueue : mainQueue[j].type = "value" => j <= i

\* Only the last value event counts, and it shows the present view.
EventInv == DB!View # Unknown => Leaves(Rows(DB!View))

\* The client listens, or is about to, only for a list that is loaded.
ListenInv ==
    \/ loaded
    \/ ~listening /\ \A i \in DOMAIN sharedQueue : sharedQueue[i].type # "observe"

LEMMA LeavesQueued ==
    ASSUME NEW S, mainQueue \in Seq(S), NEW block, mainQueue' = Append(mainQueue, block),
           dataFirebase' = dataFirebase, NEW rows
    PROVE  /\ block.type # "value" /\ Leaves(rows) => Leaves(rows)'
           /\ block.type = "value" /\ block.rows = rows => Leaves(rows)'
<1>1. PICK n \in Nat : n = Len(mainQueue) /\ DOMAIN mainQueue = 1 .. n OBVIOUS
<1>2. /\ DOMAIN mainQueue' = 1 .. n + 1 /\ mainQueue'[n + 1] = block
      /\ \A i \in 1 .. n : mainQueue'[i] = mainQueue[i]
  BY <1>1
<1>3. n + 1 \in 1 .. n + 1 /\ \A i \in 1 .. n + 1 : i = n + 1 \/ i \in 1 .. n BY <1>1
<1>4. \A i \in 1 .. n : i \in 1 .. n + 1 BY <1>1
<1>5. \A i \in 1 .. n + 1 : i <= n + 1 BY <1>1
<1>6. ASSUME block.type # "value", Leaves(rows) PROVE Leaves(rows)'
  <2>1. CASE /\ \A i \in DOMAIN mainQueue : mainQueue[i].type # "value"
             /\ dataFirebase = rows
    <3>1. \A i \in DOMAIN mainQueue' : mainQueue'[i].type # "value"
      BY <1>1, <1>2, <1>3, <1>6, <2>1
    <3> QED BY <2>1, <3>1 DEF Leaves
  <2>2. CASE \E i \in DOMAIN mainQueue :
                /\ mainQueue[i].type = "value" /\ mainQueue[i].rows = rows
                /\ \A j \in DOMAIN mainQueue : mainQueue[j].type = "value" => j <= i
    <3>1. PICK i \in 1 .. n :
                /\ mainQueue[i].type = "value" /\ mainQueue[i].rows = rows
                /\ \A j \in 1 .. n : mainQueue[j].type = "value" => j <= i
      BY <1>1, <2>2
    <3>2. i \in DOMAIN mainQueue' /\ mainQueue'[i].type = "value" /\ mainQueue'[i].rows = rows
      BY <1>2, <1>4, <3>1
    <3>3. \A j \in DOMAIN mainQueue' : mainQueue'[j].type = "value" => j <= i
      BY <1>2, <1>3, <1>6, <3>1
    <3> QED BY <3>2, <3>3 DEF Leaves
  <2> QED BY <1>6, <2>1, <2>2 DEF Leaves
<1>7. ASSUME block.type = "value", block.rows = rows PROVE Leaves(rows)'
  <2>1. \A j \in DOMAIN mainQueue' : mainQueue'[j].type = "value" => j <= n + 1
    BY <1>2, <1>5
  <2> QED BY <1>2, <1>3, <1>7, <2>1 DEF Leaves
<1> QED BY <1>6, <1>7

\* The block at the head runs: a value block puts its rows in place.
LEMMA LeavesRun ==
    ASSUME NEW S, mainQueue \in Seq(S), mainQueue # <<>>, NEW rows, Leaves(rows),
           NEW queue, queue = Tail(mainQueue), NEW data,
           data = IF Head(mainQueue).type = "value" THEN Head(mainQueue).rows
                  ELSE dataFirebase
    PROVE  \/ (\A i \in DOMAIN queue : queue[i].type # "value") /\ data = rows
           \/ \E i \in DOMAIN queue :
                 /\ queue[i].type = "value" /\ queue[i].rows = rows
                 /\ \A j \in DOMAIN queue : queue[j].type = "value" => j <= i
<1>1. PICK n \in Nat \ {0} : n = Len(mainQueue) /\ DOMAIN mainQueue = 1 .. n OBVIOUS
<1>2. /\ DOMAIN queue = 1 .. n - 1 /\ Head(mainQueue) = mainQueue[1]
      /\ \A i \in 1 .. n - 1 : queue[i] = mainQueue[i + 1]
  BY <1>1
<1>3. \A i \in 1 .. n - 1 : i + 1 \in 1 .. n BY <1>1
<1>4. \A i \in 1 .. n : i = 1 \/ (i - 1 \in 1 .. n - 1 /\ (i - 1) + 1 = i) BY <1>1
<1>5. 1 \in 1 .. n BY <1>1
<1>6. CASE \A i \in DOMAIN mainQueue : mainQueue[i].type # "value"
  <2>1. dataFirebase = rows BY <1>6 DEF Leaves
  <2>2. \A i \in DOMAIN queue : queue[i].type # "value" BY <1>1, <1>2, <1>3, <1>6
  <2>3. Head(mainQueue).type # "value" BY <1>1, <1>2, <1>5, <1>6
  <2> QED BY <2>1, <2>2, <2>3
<1>7. CASE \E i \in DOMAIN mainQueue :
              /\ mainQueue[i].type = "value" /\ mainQueue[i].rows = rows
              /\ \A j \in DOMAIN mainQueue : mainQueue[j].type = "value" => j <= i
  <2>1. PICK i \in 1 .. n :
              /\ mainQueue[i].type = "value" /\ mainQueue[i].rows = rows
              /\ \A j \in 1 .. n : mainQueue[j].type = "value" => j <= i
    BY <1>1, <1>7
  <2>2. CASE i = 1
    <3>1. ASSUME NEW j \in 1 .. n - 1, queue[j].type = "value" PROVE FALSE
      <4>1. j + 1 <= 1 BY <1>2, <1>3, <2>1, <2>2, <3>1
      <4> QED BY <1>1, <4>1
    <3> QED BY <1>2, <2>1, <2>2, <3>1
  <2>3. CASE i # 1
    <3>1. /\ i - 1 \in DOMAIN queue /\ queue[i - 1].type = "value"
          /\ queue[i - 1].rows = rows
      BY <1>2, <1>4, <2>1, <2>3
    <3>2. ASSUME NEW j \in 1 .. n - 1, queue[j].type = "value" PROVE j <= i - 1
      <4>1. j + 1 <= i BY <1>2, <1>3, <2>1, <3>2
      <4> QED BY <1>1, <4>1
    <3> QED BY <1>2, <3>1, <3>2
  <2> QED BY <2>2, <2>3
<1> QED BY <1>6, <1>7 DEF Leaves

\* A step that changes neither the view nor the rows, and queues no value event.
LEMMA EventsUntouched ==
    ASSUME TypeOK, EventInv, UNCHANGED <<writes, known, dataFirebase>>,
           mainQueue' = mainQueue \/ mainQueue' = Append(mainQueue, Reload)
    PROVE  EventInv'
<1>1. DB!View' = DB!View BY DEF DB!View
<1>2. PICK rows : rows = Rows(DB!View) OBVIOUS
<1>3. Rows(DB!View)' = rows BY <1>1, <1>2 DEF Rows
<1>4. Leaves(rows) => Leaves(rows)'
  <2>1. CASE mainQueue' = mainQueue BY <2>1 DEF Leaves
  <2>2. CASE mainQueue' = Append(mainQueue, Reload)
    <3>1. mainQueue \in Seq(Block) BY DEF TypeOK
    <3>2. Reload.type # "value" BY DEF Reload
    <3> QED BY <2>2, <3>1, <3>2, LeavesQueued
  <2> QED BY <2>1, <2>2
<1> QED BY <1>1, <1>2, <1>3, <1>4 DEF EventInv

\* A step of the client raises a value event when the view changes.
LEMMA EventsRaised ==
    ASSUME TypeOK, EventInv, RaiseValueEvent, dataFirebase' = dataFirebase
    PROVE  EventInv'
<1>1. mainQueue \in Seq(Block) BY DEF TypeOK
<1>2. PICK view : view = DB!View' OBVIOUS
<1>3. PICK rows : rows = Rows(view) OBVIOUS
<1>4. Rows(DB!View)' = rows BY <1>2, <1>3 DEF Rows
<1>5. CASE view # DB!View /\ view # Unknown
  <2>1. mainQueue' = Append(mainQueue, ValueEvent(view))
    BY <1>2, <1>5 DEF RaiseValueEvent
  <2>2. ValueEvent(view).type = "value" /\ ValueEvent(view).rows = rows
    BY <1>3 DEF ValueEvent
  <2>3. Leaves(rows)' BY <1>1, <2>1, <2>2, LeavesQueued
  <2> QED BY <1>4, <2>3 DEF EventInv
<1>6. CASE view = DB!View
  <2>1. mainQueue' = mainQueue BY <1>2, <1>6 DEF RaiseValueEvent
  <2>2. Leaves(rows) => Leaves(rows)' BY <2>1 DEF Leaves
  <2>3. view # Unknown => Leaves(rows) BY <1>3, <1>6 DEF EventInv
  <2> QED BY <1>2, <1>4, <2>2, <2>3 DEF EventInv
<1>7. CASE view = Unknown BY <1>2, <1>7 DEF EventInv
<1> QED BY <1>5, <1>6, <1>7

LEMMA EventStep ==
    ASSUME TypeOK, EventInv, [Next]_vars
    PROVE  EventInv'
<1>1. mainQueue \in Seq(Block) BY DEF TypeOK
<1>2. CASE RunOperation \/ ClientReceives
  BY <1>2, EventsRaised DEF RunOperation, ClientReceives, screen
<1>3. CASE ConnectionStep \/ ServerStep \/ ForeignStep
  <2>1. DB!Connect \/ DB!Disconnect \/ DB!Serve
        \/ \E k \in Key, content \in DB!Content : DB!ForeignWrite(k, content)
    BY <1>3 DEF ConnectionStep, ServerStep, ForeignStep
  <2>2. UNCHANGED <<writes, known>>
    BY <2>1 DEF DB!Connect, DB!Disconnect, DB!Serve, DB!ServeListen, DB!ServePut,
                DB!RefusePut, DB!ForeignWrite, DB!client
  <2>3. UNCHANGED <<dataFirebase, mainQueue>>
    BY <1>3 DEF ConnectionStep, ServerStep, ForeignStep, screen, queues
  <2> QED BY <2>2, <2>3, EventsUntouched
<1>4. CASE RunValueEvent \/ RunReload
  <2>0. known' = known /\ writes' = writes BY <1>4 DEF RunValueEvent, RunReload, dbvars
  <2>1. DB!View' = DB!View BY <2>0 DEF DB!View
  <2>2. PICK rows : rows = Rows(DB!View) OBVIOUS
  <2>3. Rows(DB!View)' = rows BY <2>1, <2>2 DEF Rows
  <2>4. mainQueue # <<>>
        /\ dataFirebase' = IF Head(mainQueue).type = "value" THEN Head(mainQueue).rows
                           ELSE dataFirebase
    BY <1>4 DEF RunValueEvent, RunReload, Reload
  <2>5. PICK data : data = dataFirebase' OBVIOUS
  <2>6. PICK queue : queue = Tail(mainQueue) OBVIOUS
  <2>7. ASSUME Leaves(rows)
        PROVE  \/ (\A i \in DOMAIN queue : queue[i].type # "value") /\ data = rows
               \/ \E i \in DOMAIN queue :
                     /\ queue[i].type = "value" /\ queue[i].rows = rows
                     /\ \A j \in DOMAIN queue : queue[j].type = "value" => j <= i
    BY <1>1, <2>4, <2>5, <2>6, <2>7, LeavesRun
  <2>8. CASE RunReload
    <3>1. mainQueue' = queue BY <2>6, <2>8 DEF RunReload
    <3>2. Leaves(rows) => Leaves(rows)' BY <2>5, <2>7, <3>1 DEF Leaves
    <3> QED BY <2>1, <2>2, <2>3, <3>2 DEF EventInv
  <2>9. CASE RunValueEvent
    <3>1. mainQueue' = Append(queue, Reload) BY <2>6, <2>9 DEF RunValueEvent
    <3>2. PICK n \in Nat : n = Len(queue) /\ DOMAIN queue = 1 .. n
      BY <1>1, <2>4, <2>6
    <3>3. queue \in Seq(Block) BY <1>1, <2>4, <2>6, Dequeued
    <3>4. /\ DOMAIN mainQueue' = 1 .. n + 1 /\ mainQueue'[n + 1] = Reload
          /\ \A i \in 1 .. n : mainQueue'[i] = queue[i]
      BY <3>1, <3>2, <3>3
    <3>5. \A i \in 1 .. n + 1 : i = n + 1 \/ i \in 1 .. n BY <3>2
    <3>6. \A i \in 1 .. n : i \in 1 .. n + 1 BY <3>2
    <3>7. Reload.type # "value" BY DEF Reload
    <3>8. ASSUME Leaves(rows), \A i \in DOMAIN queue : queue[i].type # "value", data = rows
          PROVE  Leaves(rows)'
      <4>1. \A i \in DOMAIN mainQueue' : mainQueue'[i].type # "value"
        BY <3>2, <3>4, <3>5, <3>7, <3>8
      <4> QED BY <2>5, <3>8, <4>1 DEF Leaves
    <3>9. ASSUME NEW i \in DOMAIN queue, queue[i].type = "value", queue[i].rows = rows,
                 \A j \in DOMAIN queue : queue[j].type = "value" => j <= i
          PROVE  Leaves(rows)'
      <4>1. /\ i \in DOMAIN mainQueue' /\ mainQueue'[i].type = "value"
            /\ mainQueue'[i].rows = rows
        BY <3>2, <3>4, <3>6, <3>9
      <4>2. \A j \in DOMAIN mainQueue' : mainQueue'[j].type = "value" => j <= i
        BY <3>2, <3>4, <3>5, <3>7, <3>9
      <4> QED BY <4>1, <4>2 DEF Leaves
    <3>10. Leaves(rows) => Leaves(rows)' BY <2>7, <3>8, <3>9
    <3> QED BY <2>1, <2>2, <2>3, <3>10 DEF EventInv
  <2> QED BY <1>4, <2>8, <2>9
<1>5. CASE Kill
  <2>1. DB!View' = Unknown BY <1>5 DEF Kill, DB!Kill, DB!View
  <2> QED BY <2>1 DEF EventInv
<1>6. ASSUME NEW row, OpenRow(row) \/ TapMissingRow(row) PROVE EventInv'
  BY <1>5, <1>6, EventsUntouched DEF OpenRow, TapMissingRow, screen, queues, dbvars
<1>7. CASE \/ OpenFavoritesTab \/ UNCHANGED vars
           \/ \E t \in Text : TextDidChange(t)
           \/ \E photo \in Photo : OpenPhoto(photo)
           \/ \E tab \in Tab : CloseDetail(tab) \/ TapStar(tab)
  <2>1. /\ UNCHANGED <<writes, known, dataFirebase>>
        /\ mainQueue' = mainQueue \/ mainQueue' = Append(mainQueue, Reload)
    BY <1>7 DEF OpenFavoritesTab, vars, TextDidChange, OpenPhoto, CloseDetail, TapStar,
                screen, queues, dbvars
  <2> QED BY <2>1, EventsUntouched
<1> QED BY <1>2, <1>3, <1>4, <1>5, <1>6, <1>7 DEF Next, RunMainQueue

\* A list that is not loaded is not listened for.
LEMMA ListenStep ==
    ASSUME TypeOK, ListenInv, [Next]_vars
    PROVE  ListenInv'
<1>1. sharedQueue \in Seq(Operation) BY DEF TypeOK
<1>2. CASE loaded' BY <1>2 DEF ListenInv
<1>3. CASE Kill BY <1>3 DEF Kill, DB!Kill, ListenInv
<1>4. CASE ~loaded /\ ~loaded'
  <2>1. ~listening /\ \A i \in DOMAIN sharedQueue : sharedQueue[i].type # "observe"
    BY <1>4 DEF ListenInv
  <2>2. CASE RunOperation
    <3>1. sharedQueue # <<>> /\ sharedQueue' = Tail(sharedQueue) BY <2>2 DEF RunOperation
    <3>2. 1 \in DOMAIN sharedQueue /\ Head(sharedQueue) = sharedQueue[1]
      BY <1>1, <3>1
    <3>3. ~listening'
      <4>1. \E path, value : DB!Set(path, value) BY <2>1, <2>2, <3>2 DEF RunOperation
      <4> QED BY <2>1, <4>1 DEF DB!Set
    <3>4. PICK n \in Nat \ {0} : n = Len(sharedQueue) /\ DOMAIN sharedQueue = 1 .. n
      BY <1>1, <3>1
    <3>5. DOMAIN sharedQueue' = 1 .. n - 1
          /\ \A i \in 1 .. n - 1 : sharedQueue'[i] = sharedQueue[i + 1]
      BY <1>1, <3>1, <3>4
    <3>6. \A i \in 1 .. n - 1 : i + 1 \in 1 .. n BY <3>4
    <3>7. \A i \in DOMAIN sharedQueue' : sharedQueue'[i].type # "observe"
      BY <2>1, <3>4, <3>5, <3>6
    <3> QED BY <3>3, <3>7 DEF ListenInv
  <2>3. ASSUME NEW tab \in Tab, TapStar(tab) PROVE ListenInv'
    <3>1. ~listening' BY <2>1, <2>3 DEF TapStar, dbvars
    <3>2. PICK op : op.type = "set" /\ sharedQueue' = Append(sharedQueue, op)
      BY <2>3 DEF TapStar, Upload, Removal, SetOp
    <3>3. PICK n \in Nat : n = Len(sharedQueue) /\ DOMAIN sharedQueue = 1 .. n BY <1>1
    <3>4. /\ DOMAIN sharedQueue' = 1 .. n + 1 /\ sharedQueue'[n + 1] = op
          /\ \A i \in 1 .. n : sharedQueue'[i] = sharedQueue[i]
      BY <1>1, <3>2, <3>3
    <3>5. \A i \in 1 .. n + 1 : i = n + 1 \/ i \in 1 .. n BY <3>3
    <3>6. \A i \in DOMAIN sharedQueue' : sharedQueue'[i].type # "observe"
      BY <2>1, <3>2, <3>3, <3>4, <3>5
    <3> QED BY <3>1, <3>6 DEF ListenInv
  <2>4. CASE UNCHANGED <<listening, sharedQueue>> BY <2>1, <2>4 DEF ListenInv
  <2>5. CASE ClientReceives \/ ConnectionStep \/ ServerStep \/ ForeignStep
    <3>1. listening' = listening
      BY <2>5 DEF ClientReceives, ConnectionStep, ServerStep, ForeignStep, DB!Receive,
                  DB!ReceiveSnapshot, DB!ReceiveData, DB!ReceiveListenResponse,
                  DB!ReceiveAnswer, DB!Reads, DB!Connect, DB!Disconnect, DB!Serve,
                  DB!ServeListen, DB!ServePut, DB!RefusePut, DB!ForeignWrite, DB!client
    <3>2. sharedQueue' = sharedQueue
      BY <2>5 DEF ClientReceives, ConnectionStep, ServerStep, ForeignStep, queues
    <3> QED BY <2>4, <3>1, <3>2
  <2>6. CASE \/ RunMainQueue \/ UNCHANGED vars
             \/ \E t \in Text : TextDidChange(t)
             \/ \E photo \in Photo : OpenPhoto(photo)
             \/ \E row \in DOMAIN shown : OpenRow(row)
             \/ \E tab \in Tab : CloseDetail(tab)
    BY <2>4, <2>6 DEF RunMainQueue, RunValueEvent, RunReload, vars, TextDidChange,
                      OpenPhoto, OpenRow, CloseDetail, dbvars, queues
  <2>7. CASE OpenFavoritesTab BY <1>4, <2>7 DEF OpenFavoritesTab
  <2>8. ASSUME NEW row, TapMissingRow(row) PROVE ListenInv'
    BY <1>3, <2>8 DEF TapMissingRow
  <2> QED BY <1>3, <2>2, <2>3, <2>5, <2>6, <2>7, <2>8 DEF Next
<1>5. loaded /\ ~loaded' => Kill
  BY DEF Next, OpenFavoritesTab, TextDidChange, OpenPhoto, OpenRow, TapMissingRow,
         CloseDetail, TapStar, RunOperation, ClientReceives, ConnectionStep, ServerStep,
         ForeignStep, RunMainQueue, RunValueEvent, RunReload, screen, vars
<1> QED BY <1>2, <1>3, <1>4, <1>5 DEF TypeOK

-----------------------------------------------------------------------------
(* What the alerts say.                                                     *)

\* The operation stores something at the location.
Sets(op, k) == op.type = "set" /\ op.path = k

LastSet(queue, k, i) ==
    /\ i \in DOMAIN queue /\ Sets(queue[i], k)
    /\ \A j \in DOMAIN queue : Sets(queue[j], k) => j <= i

NoSet(queue, k) == \A i \in DOMAIN queue : ~Sets(queue[i], k)

\* An alert that AlertsAreTrue speaks of is true of a content.
Holds(alert, c) ==
    /\ alert.alert = "saved" => c # Absent /\ c.photo = alert.photo
    /\ alert.tab = "favorites" /\ alert.alert = "deleted" => c = Absent

\* What the last operation queued for a stamp will store there makes its alert
\* true; with none queued, what stands there does.
Honest(k) ==
    /\ \A i \in DOMAIN sharedQueue :
          LastSet(sharedQueue, k, i) => Holds(told[k], sharedQueue[i].value)
    /\ NoSet(sharedQueue, k) => \E c : P!Stands(k, c) /\ Holds(told[k], c)

HonestInv == \A k \in Key \ (lost \cup disturbed) : told[k] # Untold => Honest(k)

LEMMA SetsQueued ==
    ASSUME NEW S, NEW queue \in Seq(S), NEW op, NEW k
    PROVE  /\ Sets(op, k) =>
                 /\ ~NoSet(Append(queue, op), k)
                 /\ \A i \in DOMAIN Append(queue, op) :
                       LastSet(Append(queue, op), k, i) => Append(queue, op)[i] = op
           /\ ~Sets(op, k) =>
                 /\ NoSet(Append(queue, op), k) => NoSet(queue, k)
                 /\ \A i \in DOMAIN Append(queue, op) :
                       LastSet(Append(queue, op), k, i) =>
                          /\ i \in DOMAIN queue /\ LastSet(queue, k, i)
                          /\ Append(queue, op)[i] = queue[i]
<1>1. PICK n \in Nat : n = Len(queue) /\ DOMAIN queue = 1 .. n OBVIOUS
<1>2. PICK q : q = Append(queue, op) OBVIOUS
<1>3. /\ DOMAIN q = 1 .. n + 1 /\ q[n + 1] = op
      /\ \A i \in 1 .. n : q[i] = queue[i]
  BY <1>1, <1>2
<1>4. n + 1 \in 1 .. n + 1 /\ \A i \in 1 .. n + 1 : i = n + 1 \/ i \in 1 .. n BY <1>1
<1>5. \A i \in 1 .. n : i \in 1 .. n + 1 /\ ~(n + 1 <= i) BY <1>1
<1>6. Sets(op, k) <=> Sets(q[n + 1], k) BY <1>3
<1>7. \A i \in 1 .. n : Sets(q[i], k) <=> Sets(queue[i], k) BY <1>3 DEF Sets
<1>8. ASSUME Sets(q[n + 1], k)
      PROVE  /\ ~NoSet(q, k)
             /\ \A i \in DOMAIN q : LastSet(q, k, i) => q[i] = op
  <2>1. ~NoSet(q, k) BY <1>3, <1>4, <1>8 DEF NoSet
  <2>2. \A i \in DOMAIN q : LastSet(q, k, i) => i = n + 1
    BY <1>3, <1>4, <1>5, <1>8 DEF LastSet
  <2> QED BY <1>3, <2>1, <2>2
<1>9. ASSUME ~Sets(q[n + 1], k)
      PROVE  /\ NoSet(q, k) => NoSet(queue, k)
             /\ \A i \in DOMAIN q : LastSet(q, k, i) =>
                   i \in DOMAIN queue /\ LastSet(queue, k, i) /\ q[i] = queue[i]
  <2>1. NoSet(q, k) => NoSet(queue, k) BY <1>1, <1>3, <1>5, <1>7 DEF NoSet
  <2>2. ASSUME NEW i \in DOMAIN q, LastSet(q, k, i)
        PROVE  i \in 1 .. n /\ LastSet(queue, k, i)
    <3>1. i \in 1 .. n BY <1>3, <1>4, <1>9, <2>2 DEF LastSet
    <3> QED BY <1>1, <1>3, <1>5, <1>7, <2>2, <3>1 DEF LastSet
  <2> QED BY <1>1, <1>3, <2>1, <2>2
<1> QED BY <1>2, <1>6, <1>8, <1>9

LEMMA SetsRun ==
    ASSUME NEW S, NEW queue \in Seq(S), queue # <<>>, NEW k
    PROVE  /\ \A i \in DOMAIN Tail(queue) : LastSet(Tail(queue), k, i) =>
                 /\ i + 1 \in DOMAIN queue /\ LastSet(queue, k, i + 1)
                 /\ Tail(queue)[i] = queue[i + 1]
           /\ NoSet(Tail(queue), k) =>
                 IF Sets(queue[1], k) THEN LastSet(queue, k, 1) ELSE NoSet(queue, k)
<1>1. PICK n \in Nat \ {0} : n = Len(queue) /\ DOMAIN queue = 1 .. n OBVIOUS
<1>2. PICK q : q = Tail(queue) OBVIOUS
<1>3. DOMAIN q = 1 .. n - 1 /\ \A i \in 1 .. n - 1 : q[i] = queue[i + 1] BY <1>1, <1>2
<1>4. \A i \in 1 .. n - 1 : i + 1 \in 1 .. n BY <1>1
<1>5. 1 \in 1 .. n
      /\ \A i \in 1 .. n : i = 1 \/ (i - 1 \in 1 .. n - 1 /\ (i - 1) + 1 = i)
  BY <1>1
<1>6. \A i \in 1 .. n - 1 : Sets(q[i], k) <=> Sets(queue[i + 1], k) BY <1>3 DEF Sets
<1>7. ASSUME NEW i \in 1 .. n - 1, LastSet(q, k, i) PROVE LastSet(queue, k, i + 1)
  <2>1. Sets(queue[i + 1], k) BY <1>6, <1>7 DEF LastSet
  <2>2. ASSUME NEW j \in 1 .. n, Sets(queue[j], k) PROVE j <= i + 1
    <3>1. CASE j = 1 BY <1>1, <3>1
    <3>2. CASE j # 1
      <4>1. j - 1 \in 1 .. n - 1 /\ Sets(q[j - 1], k) BY <1>5, <1>6, <2>2, <3>2
      <4>2. j - 1 <= i BY <1>3, <1>7, <4>1 DEF LastSet
      <4> QED BY <1>1, <4>2
    <3> QED BY <3>1, <3>2
  <2> QED BY <1>1, <1>4, <2>1, <2>2 DEF LastSet
<1>8. ASSUME NoSet(q, k)
      PROVE  IF Sets(queue[1], k) THEN LastSet(queue, k, 1) ELSE NoSet(queue, k)
  <2>1. \A j \in 1 .. n : Sets(queue[j], k) => j = 1
    <3>1. ASSUME NEW j \in 1 .. n, Sets(queue[j], k), j # 1 PROVE FALSE
      <4>1. j - 1 \in 1 .. n - 1 /\ Sets(q[j - 1], k) BY <1>5, <1>6, <3>1
      <4> QED BY <1>3, <1>8, <4>1 DEF NoSet
    <3> QED BY <3>1
  <2> QED BY <1>1, <1>5, <2>1 DEF LastSet, NoSet
<1> QED BY <1>1, <1>2, <1>3, <1>4, <1>7, <1>8

\* Nothing of the client's queue or of the alerts changes, and the database runs.
LEMMA HonestRuns ==
    ASSUME P!Inv, HonestInv, P!Running, UNCHANGED <<told, lost, sharedQueue>>
    PROVE  HonestInv'
<1> SUFFICES ASSUME NEW k \in Key \ (lost' \cup disturbed'), told'[k] # Untold
             PROVE  Honest(k)'
  BY DEF HonestInv
<1>1. disturbed \subseteq disturbed' BY Assumptions, P!DisturbedGrows
<1>2. Honest(k) BY <1>1 DEF HonestInv
<1>3. ASSUME NEW c, P!Stands(k, c) PROVE P!Stands(k, c)'
  BY <1>3, Assumptions, P!StandsStep
<1> QED BY <1>2, <1>3 DEF Honest

\* An operation is queued: for a stamp it writes, its content makes the new alert
\* true; another stamp keeps its alert, or gets one that says nothing of contents.
LEMMA HonestQueues ==
    ASSUME TypeOK, P!Inv, HonestInv, UNCHANGED <<dbvars, lost>>,
           NEW op, sharedQueue' = Append(sharedQueue, op),
           \A k \in Key : IF Sets(op, k) THEN Holds(told'[k], op.value)
                          ELSE told'[k] = told[k] \/ \A c : Holds(told'[k], c)
    PROVE  HonestInv'
<1> SUFFICES ASSUME NEW k \in Key \ (lost' \cup disturbed'), told'[k] # Untold
             PROVE  Honest(k)'
  BY DEF HonestInv
<1>1. sharedQueue \in Seq(Operation) BY DEF TypeOK
<1>2. PICK queue : queue = Append(sharedQueue, op) OBVIOUS
<1>3. \A c : P!Stands(k, c) => P!Stands(k, c)'
  BY DEF dbvars, P!Stands, P!Unwritten, P!Newest
<1>4. CASE Sets(op, k)
  <2>1. ~NoSet(queue, k)
        /\ \A i \in DOMAIN queue : LastSet(queue, k, i) => queue[i] = op
    BY <1>1, <1>2, <1>4, SetsQueued
  <2>2. Holds(told'[k], op.value) BY <1>4
  <2> QED BY <1>2, <2>1, <2>2 DEF Honest
<1>5. CASE ~Sets(op, k)
  <2>1. /\ NoSet(queue, k) => NoSet(sharedQueue, k)
        /\ \A i \in DOMAIN queue : LastSet(queue, k, i) =>
              /\ i \in DOMAIN sharedQueue /\ LastSet(sharedQueue, k, i)
              /\ queue[i] = sharedQueue[i]
    BY <1>1, <1>2, <1>5, SetsQueued
  <2>2. CASE told'[k] = told[k]
    <3>1. Honest(k) BY <2>2 DEF HonestInv, dbvars
    <3> QED BY <1>2, <1>3, <2>1, <2>2, <3>1 DEF Honest
  <2>3. CASE \A c : Holds(told'[k], c)
    <3>1. P!TypeOK BY DEF P!Inv, P!Good
    <3>2. \E c : P!Stands(k, c) BY <3>1, Assumptions, P!SomethingStands
    <3> QED BY <1>3, <2>3, <3>2 DEF Honest
  <2> QED BY <1>5, <2>2, <2>3
<1> QED BY <1>4, <1>5

LEMMA HonestTap ==
    ASSUME TypeOK, P!Inv, HonestInv, NEW tab \in Tab, TapStar(tab)
    PROVE  HonestInv'
<1>1. detail[tab] \in Detail BY DEF TapStar, TypeOK
<1>2. PICK record \in Record : record = detail[tab].record BY <1>1 DEF Detail
<1>3. PICK selected \in BOOLEAN : selected = ~detail[tab].selected BY <1>1 DEF Detail
<1>4. PICK key \in Key : key = KeyOf[record.photo]
  BY <1>2, KeyAssumption DEF Record
<1>5. PICK alert : alert = [alert |-> IF selected THEN "saved" ELSE "deleted",
                            photo |-> record.photo, tab |-> tab]
  OBVIOUS
<1>6. PICK op : op = IF selected THEN Upload(record) ELSE Removal(record, tab) OBVIOUS
<1>7. /\ sharedQueue' = Append(sharedQueue, op)
      /\ told' = [told EXCEPT ![key] = alert]
      /\ UNCHANGED <<dbvars, lost>>
  BY <1>2, <1>3, <1>4, <1>5, <1>6 DEF TapStar
<1>8. \A k \in Key : told'[k] = IF k = key THEN alert ELSE told[k]
  BY <1>7 DEF TypeOK
<1>9. ASSUME NEW k \in Key
      PROVE  IF Sets(op, k) THEN Holds(told'[k], op.value)
             ELSE told'[k] = told[k] \/ \A c : Holds(told'[k], c)
  <2>1. k # Stray BY KeyAssumption
  <2>2. CASE selected
    <3>1. op.path = key /\ op.type = "set" /\ op.value = record
      BY <1>4, <1>6, <2>2 DEF Upload, SetOp
    <3>2. Holds(alert, record)
      BY <1>2, <1>5, <2>2, DatabaseAssumption DEF Holds
    <3> QED BY <1>8, <3>1, <3>2 DEF Sets
  <2>3. CASE ~selected /\ tab = "favorites"
    <3>1. op.path = key /\ op.type = "set" /\ op.value = Absent
      BY <1>4, <1>6, <2>3 DEF Removal, SetOp
    <3>2. Holds(alert, Absent) BY <1>5, <2>3 DEF Holds
    <3> QED BY <1>8, <3>1, <3>2 DEF Sets
  <2>4. CASE ~selected /\ tab # "favorites"
    <3>1. op.path = Stray BY <1>6, <2>4 DEF Removal, SetOp
    <3>2. ~Sets(op, k) BY <2>1, <3>1 DEF Sets
    <3>3. \A c : Holds(alert, c) BY <1>5, <2>4 DEF Holds
    <3> QED BY <1>8, <3>2, <3>3
  <2> QED BY <2>2, <2>3, <2>4
<1> QED BY <1>7, <1>9, HonestQueues

\* The operation at the head of the client's queue runs.
LEMMA HonestRunsOperation ==
    ASSUME TypeOK, P!Inv, HonestInv, RunOperation
    PROVE  HonestInv'
<1>1. /\ sharedQueue \in Seq(Operation) /\ sharedQueue # <<>>
      /\ sharedQueue' = Tail(sharedQueue) /\ UNCHANGED <<told, lost>>
  BY DEF RunOperation, TypeOK, history
<1>2. PICK op \in Operation : op = Head(sharedQueue) /\ op = sharedQueue[1]
                              /\ 1 \in DOMAIN sharedQueue
  BY <1>1
<1>3. PICK queue : queue = Tail(sharedQueue) OBVIOUS
<1>4. P!TypeOK BY DEF P!Inv, P!Good
<1>5. disturbed' = disturbed
  BY DEF RunOperation, DB!Observe, DB!Set
<1> SUFFICES ASSUME NEW k \in Key \ (lost \cup disturbed), told[k] # Untold
             PROVE  Honest(k)'
  BY <1>1, <1>5 DEF HonestInv
<1>6. Honest(k) BY DEF HonestInv
<1>7. /\ \A i \in DOMAIN queue : LastSet(queue, k, i) =>
            /\ i + 1 \in DOMAIN sharedQueue /\ LastSet(sharedQueue, k, i + 1)
            /\ queue[i] = sharedQueue[i + 1]
      /\ NoSet(queue, k) =>
            IF Sets(op, k) THEN LastSet(sharedQueue, k, 1) ELSE NoSet(sharedQueue, k)
  BY <1>1, <1>2, <1>3, SetsRun
<1>8. \A i \in DOMAIN queue : LastSet(queue, k, i) => Holds(told[k], queue[i].value)
  BY <1>6, <1>7 DEF Honest
<1>9. ASSUME NoSet(queue, k) PROVE \E c : P!Stands(k, c)' /\ Holds(told[k], c)
  <2>1. CASE op.type = "observe"
    <3>1. P!Observe BY <1>2, <2>1, SameActions DEF RunOperation
    <3>2. ~Sets(op, k) BY <2>1 DEF Sets
    <3>3. PICK c : P!Stands(k, c) /\ Holds(told[k], c) BY <1>6, <1>7, <1>9, <3>2 DEF Honest
    <3>4. P!Stands(k, c)' BY <1>5, <3>1, <3>3, Assumptions, P!StandsStep
    <3> QED BY <3>3, <3>4
  <2>2. CASE op.type = "set"
    <3>1. op.path \in Key \cup {Stray} /\ op.value \in P!Content
      BY <2>2, SameTypes DEF Operation, ObserveOp
    <3>2. P!Set(op.path, op.value) BY <1>2, <2>2, SameActions DEF RunOperation
    <3>3. /\ k = op.path => P!Stands(k, op.value)'
          /\ \A c : k # op.path /\ P!Stands(k, c) => P!Stands(k, c)'
      BY <1>4, <3>1, <3>2, Assumptions, P!StandsSet
    <3>4. CASE k = op.path
      <4>1. Sets(op, k) BY <2>2, <3>4 DEF Sets
      <4>2. Holds(told[k], op.value) BY <1>2, <1>6, <1>7, <1>9, <4>1 DEF Honest
      <4> QED BY <3>3, <3>4, <4>2
    <3>5. CASE k # op.path
      <4>1. ~Sets(op, k) BY <3>5 DEF Sets
      <4>2. PICK c : P!Stands(k, c) /\ Holds(told[k], c)
        BY <1>6, <1>7, <1>9, <4>1 DEF Honest
      <4> QED BY <3>3, <3>5, <4>2
    <3> QED BY <3>4, <3>5
  <2> QED BY <1>2, <2>1, <2>2 DEF RunOperation
<1> QED BY <1>1, <1>3, <1>8, <1>9 DEF Honest

\* A kill drops what is queued and unanswered, and nothing else.
LEMMA HonestKilled ==
    ASSUME P!Inv, HonestInv, Kill
    PROVE  HonestInv'
<1>1. /\ P!Kill /\ sharedQueue' = <<>> /\ lost' = lost \cup Unanswered
      /\ told' = told
  BY SameActions DEF Kill
<1>2. disturbed' = disturbed BY <1>1 DEF P!Kill
<1> SUFFICES ASSUME NEW k \in Key \ (lost' \cup disturbed'), told[k] # Untold
             PROVE  Honest(k)'
  BY <1>1 DEF HonestInv
<1>3. Honest(k) BY <1>1, <1>2 DEF HonestInv
<1>4. P!Unwritten(writes, k) /\ NoSet(sharedQueue, k)
  BY <1>1 DEF Unanswered, P!Unwritten, NoSet, Sets
<1>5. PICK c : P!Stands(k, c) /\ Holds(told[k], c) BY <1>3, <1>4 DEF Honest
<1>6. P!Stands(k, c)' BY <1>1, <1>4, <1>5, Assumptions, P!StandsStep
<1>7. \A i \in DOMAIN sharedQueue' : FALSE BY <1>1
<1> QED BY <1>1, <1>5, <1>6, <1>7 DEF Honest, LastSet

LEMMA HonestStep ==
    ASSUME TypeOK, P!Inv, HonestInv, [Next]_vars
    PROVE  HonestInv'
<1>1. ASSUME UNCHANGED <<dbvars, told, lost, sharedQueue>> PROVE HonestInv'
  <2>1. P!Running BY <1>1 DEF P!Running, P!dbvars, dbvars
  <2> QED BY <1>1, <2>1, HonestRuns
<1>2. CASE OpenFavoritesTab
  <2>1. \A k \in Key : ~Sets(ObserveOp, k) BY DEF Sets, ObserveOp
  <2>2. /\ sharedQueue' = Append(sharedQueue, ObserveOp)
        /\ UNCHANGED <<dbvars, lost>> /\ told' = told
    BY <1>2 DEF OpenFavoritesTab, history
  <2> QED BY <2>1, <2>2, HonestQueues
<1>3. CASE \/ \E t \in Text : TextDidChange(t)
           \/ \E photo \in Photo : OpenPhoto(photo)
           \/ \E row \in DOMAIN shown : OpenRow(row)
           \/ \E tab \in Tab : CloseDetail(tab)
           \/ RunMainQueue \/ UNCHANGED vars
  BY <1>1, <1>3 DEF TextDidChange, OpenPhoto, OpenRow, CloseDetail, RunMainQueue,
                    RunValueEvent, RunReload, vars, history, queues
<1>4. CASE ClientReceives \/ ConnectionStep \/ ServerStep \/ ForeignStep
  <2>1. P!Running
    <3>1. CASE ForeignStep
      <4>1. PICK k \in Key, c \in P!Content : DB!ForeignWrite(k, c)
        BY <3>1, SameTypes DEF ForeignStep
      <4>2. P!ForeignWrite(k, c) BY <4>1, SameActions
      <4> QED BY <4>2 DEF P!Running
    <3>2. CASE ClientReceives \/ ConnectionStep \/ ServerStep
      BY <3>2, SameActions DEF ClientReceives, ConnectionStep, ServerStep, P!Running
    <3> QED BY <1>4, <3>1, <3>2
  <2>2. UNCHANGED <<told, lost, sharedQueue>>
    BY <1>4 DEF ClientReceives, ConnectionStep, ServerStep, ForeignStep, history, queues
  <2> QED BY <2>1, <2>2, HonestRuns
<1>5. CASE Kill \/ \E row \in DOMAIN shown : TapMissingRow(row)
  BY <1>5, HonestKilled DEF TapMissingRow
<1> QED BY <1>2, <1>3, <1>4, <1>5, HonestTap, HonestRunsOperation DEF Next

-----------------------------------------------------------------------------
FavoritesInv ==
    P!Inv /\ TypeOK /\ CurrentInv /\ ListenInv /\ EventInv /\ HonestInv

LEMMA FavoritesInit == Init => FavoritesInv
<1> SUFFICES ASSUME Init PROVE FavoritesInv OBVIOUS
<1>1. P!Inv
  <2>1. P!Init BY DEF Init, DB!Init, P!Init
  <2> QED BY <2>1, Assumptions, P!InvInit
<1>2. TypeOK
  <2>1. dataFirebase \in RowList /\ filtroPost \in FilteredList
        /\ shown \in RowList \cup FilteredList /\ loaded \in BOOLEAN /\ lost \subseteq Key
    BY EmptyLists DEF Init
  <2>2. text \in Text BY TextAssumption DEF Init
  <2>3. detail \in [Tab -> Detail \cup {Closed}] /\ told \in [Key -> Alert \cup {Untold}]
    BY DEF Init
  <2>4. sharedQueue \in Seq(Operation) /\ mainQueue \in Seq(Block) BY DEF Init
  <2> QED BY <2>1, <2>2, <2>3, <2>4 DEF TypeOK
<1>3. CurrentInv
  <2>1. <<>> \in Seq({}) OBVIOUS
  <2> QED BY <2>1 DEF Init, CurrentInv, MainQueueIsSeq, ScreenCurrent
<1>4. ListenInv BY DEF Init, DB!Init, ListenInv
<1>5. EventInv BY DEF Init, DB!Init, EventInv, DB!View
<1>6. HonestInv BY DEF Init, HonestInv
<1> QED BY <1>1, <1>2, <1>3, <1>4, <1>5, <1>6 DEF FavoritesInv

LEMMA FavoritesStep == FavoritesInv /\ [Next]_vars => FavoritesInv'
<1> SUFFICES ASSUME FavoritesInv, [Next]_vars PROVE FavoritesInv' OBVIOUS
<1> USE DEF FavoritesInv
<1>1. P!Inv'
  <2>1. [P!Next]_P!dbvars BY DatabaseStep
  <2> QED BY <2>1, Assumptions, P!InvStep
<1>2. TypeOK' BY <1>1, TypeStep
<1>3. CurrentInv' BY CurrentInvNext
<1>4. ListenInv' BY ListenStep
<1>5. EventInv' BY EventStep
<1>6. HonestInv' BY HonestStep
<1> QED BY <1>1, <1>2, <1>3, <1>4, <1>5, <1>6

LEMMA FavoritesInvMeans == FavoritesInv => ScreenMatchesDatabase /\ AlertsAreTrue
<1> SUFFICES ASSUME FavoritesInv PROVE ScreenMatchesDatabase /\ AlertsAreTrue OBVIOUS
<1>1. ASSUME mainQueue = <<>>, text = NoText, DB!View # Unknown
      PROVE  shown = Rows(DB!View)
  <2>1. DOMAIN mainQueue = {} BY <1>1
  <2>2. dataFirebase = Rows(DB!View) BY <1>1, <2>1 DEF FavoritesInv, EventInv, Leaves
  <2>3. known # Unknown BY <1>1 DEF DB!View
  <2>4. listening BY <2>3 DEF FavoritesInv, P!Inv, P!Good, P!Wire
  <2>5. loaded BY <2>4 DEF FavoritesInv, ListenInv
  <2>6. shown = Items BY <2>1, <2>5 DEF FavoritesInv, CurrentInv, ScreenCurrent
  <2> QED BY <1>1, <2>2, <2>6 DEF Items
<1>2. ASSUME NEW k \in Key \ lost, Believable(k)
      PROVE  SavedIsTrue(k) /\ (told[k].tab = "favorites" => DeletedIsTrue(k))
  <2>1. /\ told[k] # Untold /\ sharedQueue = <<>> /\ DB!View # Unknown
        /\ k \notin disturbed
    BY <1>2 DEF Believable
  <2>2. Honest(k) BY <2>1 DEF FavoritesInv, HonestInv
  <2>3. NoSet(sharedQueue, k) BY <2>1 DEF NoSet
  <2>4. PICK c : P!Stands(k, c) /\ Holds(told[k], c) BY <2>2, <2>3 DEF Honest
  <2>5. P!Inv /\ P!View # Unknown BY <2>1, SameTypes DEF FavoritesInv
  <2>6. P!View[k] = c BY <2>1, <2>4, <2>5, Assumptions, P!StandsShown
  <2>7. DB!View[k] = c BY <2>6, SameTypes
  <2> QED BY <2>4, <2>7 DEF SavedIsTrue, DeletedIsTrue, Holds
<1> QED BY <1>1, <1>2 DEF ScreenMatchesDatabase, AlertsAreTrue

\* The database's invariant and, on top of it, types, rows, events and alerts.
THEOREM FavoritesInvariant == Spec => []FavoritesInv
BY FavoritesInit, FavoritesStep, PTL DEF Spec

\* What is on the main thread, on the detail screens and in the two queues is of
\* its type: a row opened is always a record, an operation queued always one that
\* the client can run.
THEOREM FavoritesTypeOK == Spec => []TypeOK
<1>1. FavoritesInv => TypeOK BY DEF FavoritesInv
<1> QED BY <1>1, FavoritesInvariant, PTL

\* With nothing left in the main queue and no search, the rows on screen are those
\* of the database as the client shows it.
THEOREM FavoritesScreenMatchesDatabase == Spec => []ScreenMatchesDatabase
<1>1. FavoritesInv => ScreenMatchesDatabase BY FavoritesInvMeans
<1> QED BY <1>1, FavoritesInvariant, PTL

\* The alerts about saving from either tab and removing from the favourites tab
\* are true from when the client has run the operation, over lost connections,
\* answers and other photos, unless a kill, a refusal or another client undid it.
THEOREM FavoritesAlertsAreTrue == Spec => []AlertsAreTrue
<1>1. FavoritesInv => AlertsAreTrue BY FavoritesInvMeans
<1> QED BY <1>1, FavoritesInvariant, PTL
=============================================================================
