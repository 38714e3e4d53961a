------------------------------ MODULE Favorites -----------------------------
(***************************************************************************)
(* The favourites of the app: the list (FavoriteSection), the detail       *)
(* screens of both tabs from which a photo is saved or removed (DetailVC), *)
(* the four Firebase operations of NetworkService, and the Realtime        *)
(* Database behind them.                                                   *)
(*                                                                         *)
(* Three threads of work interleave: the user's actions and the blocks of  *)
(* the main queue, the serial queue on which the Firebase client runs, and *)
(* the connection to the server.  A write goes from a tap through the      *)
(* client's queue to the server; a value event comes back through the main *)
(* queue, and only its second block there reloads the rows.                *)
(***************************************************************************)
EXTENDS Integers, Sequences, FiniteSets, SequencesExt

CONSTANTS
    Photo,
    KeyOrder,       \* the created_at stamps, in the order of the children
    KeyOf,          \* KeyOf[p]: the stamp under which p is stored
    Stray,          \* the location "data<created_at>", beside "data/..."
    Text,           \* texts for the search bar of the list
    NoText,         \* the empty search bar
    Matching,       \* Matching[t]: the photos whose user and date contain t
    Absent, Unknown, Closed, Untold,
    MaxWrites, MaxTroubles,
    MaxBlocks       \* bound: blocks in the main queue when the user types

Key == {KeyOrder[i] : i \in DOMAIN KeyOrder}

ASSUME KeyAssumption ==
    KeyOrder \in Seq(Key) /\ KeyOf \in [Photo -> Key] /\ Stray \notin Key
ASSUME TextAssumption == NoText \in Text /\ Matching \in [Text -> SUBSET Photo]

VARIABLES
    dataFirebase,   \* FavoriteSection.dataFirebase
    filtroPost,     \* FavoriteSection.filtroPost
    text,           \* the search bar; non-empty only while the search is active
    shown,          \* the rows of the collection view since its last reload
    loaded,         \* viewDidLoad of FavoriteSection has run
    detail,         \* per tab, the DetailVC on its navigation stack
    sharedQueue,    \* blocks queued for the Firebase client
    mainQueue,      \* blocks queued for the main thread
    told,           \* history: per stamp, what the last alert told the user
    lost            \* history: stamps whose write a kill dropped unanswered

VARIABLES saved, served, uplink, downlink, connected, listening, listenUnacked,
          writes, known, made, troubles, disturbed

\* A record under "data".  Only whether it has its description is of interest:
\* it is written as "descriptionImagen" and read as "desctiptionImagen".
Record == [photo : Photo, described : BOOLEAN]

DB == INSTANCE RealtimeDatabase
        WITH Path <- Key \cup {Stray}, Listened <- Key, Value <- Record

ASSUME DatabaseAssumption ==
    /\ Absent \notin Record /\ Unknown \notin DB!Data
    /\ MaxWrites \in Nat /\ MaxTroubles \in Nat

screen == <<dataFirebase, filtroPost, text, shown, loaded>>
queues == <<sharedQueue, mainQueue>>
history == <<told, lost>>
dbvars == <<saved, served, uplink, downlink, connected, listening,
            listenUnacked, writes, known, made, troubles, disturbed>>
vars == <<screen, detail, queues, history, dbvars>>

-----------------------------------------------------------------------------
Tab == {"main", "favorites"}

Detail == [record : Record, selected : BOOLEAN]

\* What the alert of a tap said: the photo is saved, or the record deleted.
Alert == [alert : {"saved", "deleted"}, photo : Photo, tab : Tab]

\* The children of a snapshot as downloadData reads them, in key order.
Rows(data) ==
    LET present == DB!Subsequence(KeyOrder, {i \in DOMAIN KeyOrder :
                                                data[KeyOrder[i]] # Absent})
    IN  [i \in DOMAIN present |->
            [photo |-> data[present[i]].photo, described |-> FALSE]]

Filtered(rows, t) ==
    DB!Subsequence(rows, {i \in DOMAIN rows : rows[i].photo \in Matching[t]})

RowList == {Rows(data) : data \in DB!Data}
FilteredList == {Filtered(rows, t) : rows \in RowList, t \in Text}

\* The list the data source methods use at this moment.
Items == IF text # NoText THEN filtroPost ELSE dataFirebase

Reload == [type |-> "reload"]
ValueEvent(data) == [type |-> "value", rows |-> Rows(data)]
Block == {Reload} \cup [type : {"value"}, rows : RowList]

ObserveOp == [type |-> "observe"]
SetOp(path, value) == [type |-> "set", path |-> path, value |-> value]
Operation == {ObserveOp} \cup
             [type : {"set"}, path : Key \cup {Stray}, value : DB!Content]

TypeOK ==
    /\ dataFirebase \in RowList
    /\ filtroPost \in FilteredList
    /\ text \in Text
    /\ shown \in RowList \cup FilteredList
    /\ loaded \in BOOLEAN
    /\ detail \in [Tab -> Detail \cup {Closed}]
    /\ sharedQueue \in Seq(Operation)
    /\ mainQueue \in Seq(Block)
    /\ told \in [Key -> Alert \cup {Untold}]
    /\ lost \subseteq Key

-----------------------------------------------------------------------------
Init ==
    /\ DB!Init
    /\ dataFirebase = <<>>
    /\ filtroPost = <<>>
    /\ text = NoText
    /\ shown = <<>>
    /\ loaded = FALSE
    /\ detail = [tab \in Tab |-> Closed]
    /\ sharedQueue = <<>>
    /\ mainQueue = <<>>
    /\ told = [k \in Key |-> Untold]
    /\ lost = {}

-----------------------------------------------------------------------------
(* The user. *)

\* The favourites tab is opened for the first time: viewDidLoad starts the
\* observer and reloads the (empty) rows.
OpenFavoritesTab ==
    /\ ~loaded
    /\ loaded' = TRUE
    /\ sharedQueue' = Append(sharedQueue, ObserveOp)
    /\ shown' = Items
    /\ UNCHANGED <<dataFirebase, filtroPost, text, detail, mainQueue, history,
                   dbvars>>

\* textDidChange filters the rows and queues the reload.  A cancelled search
\* clears the search bar, which is a change of the text too.
TextDidChange(t) ==
    /\ loaded
    /\ t # text
    /\ Len(mainQueue) < MaxBlocks
    /\ text' = t
    /\ filtroPost' = Filtered(dataFirebase, t)
    /\ mainQueue' = Append(mainQueue, Reload)
    /\ UNCHANGED <<dataFirebase, shown, loaded, detail, sharedQueue, history,
                   dbvars>>

\* A photo of the search tab: its detail never starts as a favourite.
OpenPhoto(photo) ==
    /\ detail["main"] = Closed
    /\ detail' = [detail EXCEPT !["main"] =
                    [record |-> [photo |-> photo, described |-> TRUE],
                     selected |-> FALSE]]
    /\ UNCHANGED <<screen, queues, history, dbvars>>

\* A row of the list: the screen shows `shown', the code indexes Items.
OpenRow(row) ==
    /\ detail["favorites"] = Closed
    /\ row \in DOMAIN Items
    /\ detail' = [detail EXCEPT !["favorites"] =
                    [record |-> Items[row], selected |-> TRUE]]
    /\ UNCHANGED <<screen, queues, history, dbvars>>

CloseDetail(tab) ==
    /\ detail[tab] # Closed
    /\ detail' = [detail EXCEPT ![tab] = Closed]
    /\ UNCHANGED <<screen, queues, history, dbvars>>

\* uploadFireBase and removeFirebase, each for both types.  removeFirebase for
\* a photo of the search tab leaves out the slash of the path.
Upload(record) == SetOp(KeyOf[record.photo], record)

\* Mutant: the slash is missing from both removals.
RemovalStray(record, tab) == SetOp(Stray, Absent)

Removal(record, tab) ==
    SetOp(IF tab = "favorites" THEN KeyOf[record.photo] ELSE Stray, Absent)

\* addFavoritesButtonTapped: the operation is queued, the alert shown at once.
TapStar(tab) ==
    /\ detail[tab] # Closed
    /\ made + Len(SelectSeq(sharedQueue, LAMBDA op : op.type = "set")) < MaxWrites
    /\ LET record == detail[tab].record
           selected == ~detail[tab].selected
       IN  /\ detail' = [detail EXCEPT ![tab].selected = selected]
           /\ sharedQueue' = Append(sharedQueue,
                                IF selected THEN Upload(record)
                                            ELSE Removal(record, tab))
           /\ told' = [told EXCEPT ![KeyOf[record.photo]] =
                        [alert |-> IF selected THEN "saved" ELSE "deleted",
                         photo |-> record.photo, tab |-> tab]]
    /\ UNCHANGED <<screen, mainQueue, lost, dbvars>>

-----------------------------------------------------------------------------
(* The Firebase client, on its own queue. *)

\* Mutant: a value event overtakes what the main queue holds.
RaiseValueEventFirst ==
    mainQueue' = IF DB!View' # DB!View /\ DB!View' # Unknown
                 THEN <<ValueEvent(DB!View')>> \o mainQueue
                 ELSE mainQueue

\* A step of the client raises a value event when the view changes.
RaiseValueEvent ==
    mainQueue' = IF DB!View' # DB!View /\ DB!View' # Unknown
                 THEN Append(mainQueue, ValueEvent(DB!View'))
                 ELSE mainQueue

RunOperation ==
    /\ sharedQueue # <<>>
    /\ LET op == Head(sharedQueue)
       IN  \/ op.type = "observe" /\ DB!Observe
           \/ op.type = "set" /\ DB!Set(op.path, op.value)
    /\ sharedQueue' = Tail(sharedQueue)
    /\ RaiseValueEvent
    /\ UNCHANGED <<screen, detail, history>>

\* Mutant: what arrives from the server raises no event.
ClientReceivesSilently ==
    /\ DB!Receive
    /\ UNCHANGED <<screen, detail, queues, history>>

ClientReceives ==
    /\ DB!Receive
    /\ RaiseValueEvent
    /\ UNCHANGED <<screen, detail, sharedQueue, history>>

\* The connection and the server, and other installations of the app.
ConnectionStep ==
    /\ DB!Connect \/ DB!Disconnect
    /\ UNCHANGED <<screen, detail, queues, history>>

ServerStep ==
    /\ DB!Serve
    /\ UNCHANGED <<screen, detail, queues, history>>

ForeignStep ==
    /\ \E k \in Key, content \in DB!Content : DB!ForeignWrite(k, content)
    /\ UNCHANGED <<screen, detail, queues, history>>

-----------------------------------------------------------------------------
(* The main queue. *)

\* Mutants: the rows are not emptied first, or not reloaded.
RunValueEventAppends ==
    /\ mainQueue # <<>> /\ Head(mainQueue).type = "value"
    /\ dataFirebase' = dataFirebase \o Head(mainQueue).rows
    /\ mainQueue' = Append(Tail(mainQueue), Reload)
    /\ UNCHANGED <<filtroPost, text, shown, loaded, detail, sharedQueue, history,
                   dbvars>>

RunValueEventNoReload ==
    /\ mainQueue # <<>> /\ Head(mainQueue).type = "value"
    /\ dataFirebase' = Head(mainQueue).rows
    /\ mainQueue' = Tail(mainQueue)
    /\ UNCHANGED <<filtroPost, text, shown, loaded, detail, sharedQueue, history,
                   dbvars>>

\* The value block empties and rebuilds dataFirebase, and queues the reload.
\* It leaves filtroPost as it was.
RunValueEvent ==
    /\ mainQueue # <<>> /\ Head(mainQueue).type = "value"
    /\ dataFirebase' = Head(mainQueue).rows
    /\ mainQueue' = Append(Tail(mainQueue), Reload)
    /\ UNCHANGED <<filtroPost, text, shown, loaded, detail, sharedQueue, history,
                   dbvars>>

RunReload ==
    /\ mainQueue # <<>> /\ Head(mainQueue) = Reload
    /\ shown' = Items
    /\ mainQueue' = Tail(mainQueue)
    /\ UNCHANGED <<dataFirebase, filtroPost, text, loaded, detail, sharedQueue,
                   history, dbvars>>

RunMainQueue == RunValueEvent \/ RunReload

-----------------------------------------------------------------------------
Unanswered ==
    {k \in Key : \/ \E i \in DOMAIN writes : writes[i].path = k
                 \/ \E i \in DOMAIN sharedQueue :
                        sharedQueue[i].type = "set" /\ sharedQueue[i].path = k}

\* The app is killed, and started again with nothing on screen.
Kill ==
    /\ DB!Kill
    /\ dataFirebase' = <<>>
    /\ filtroPost' = <<>>
    /\ text' = NoText
    /\ shown' = <<>>
    /\ loaded' = FALSE
    /\ detail' = [tab \in Tab |-> Closed]
    /\ sharedQueue' = <<>>
    /\ mainQueue' = <<>>
    /\ lost' = lost \cup Unanswered
    /\ UNCHANGED told

\* A row on screen that Items no longer has: the array subscript traps.
TapMissingRow(row) ==
    /\ detail["favorites"] = Closed
    /\ row \notin DOMAIN Items
    /\ Kill

Next ==
    \/ OpenFavoritesTab
    \/ \E t \in Text : TextDidChange(t)
    \/ \E photo \in Photo : OpenPhoto(photo)
    \/ \E row \in DOMAIN shown : OpenRow(row) \/ TapMissingRow(row)
    \/ \E tab \in Tab : CloseDetail(tab) \/ TapStar(tab)
    \/ RunOperation
    \/ ClientReceives
    \/ ConnectionStep
    \/ ServerStep
    \/ ForeignStep
    \/ RunMainQueue
    \/ Kill

Spec == Init /\ [][Next]_vars

\* Serial queues run what they hold, the client reconnects, the server answers.
Fairness ==
    /\ WF_vars(RunOperation)
    /\ WF_vars(RunMainQueue)
    /\ WF_vars(ClientReceives)
    /\ WF_vars(DB!Connect /\ ConnectionStep)
    /\ WF_vars(ServerStep)

FairSpec == Spec /\ Fairness

-----------------------------------------------------------------------------
\* The rows on screen are the rows the data source indexes, or a reload is on
\* its way: only between a change of the rows and its queued reload can a tap
\* open another row than the one shown, or one that is not there.
\* (downloadData, filtroContenido and the data source of FavoriteSection.)
ScreenCurrent ==
    loaded => \/ shown = Items
              \/ \E i \in DOMAIN mainQueue : mainQueue[i] = Reload

\* With nothing left in the main queue and no search, the rows on screen are
\* exactly what the client shows of the database, in key order: no value event
\* is lost, doubled or applied late, and a finished search leaves nothing behind.
ScreenMatchesDatabase ==
    mainQueue = <<>> /\ text = NoText /\ DB!View # Unknown => shown = Rows(DB!View)

\* An alert is true when the client's queue has run its operation.
Believable(k) == told[k] # Untold /\ sharedQueue = <<>> /\ DB!View # Unknown
                 /\ k \notin disturbed

SavedIsTrue(k) ==
    told[k].alert = "saved" =>
        DB!View[k] # Absent /\ DB!View[k].photo = told[k].photo

DeletedIsTrue(k) == told[k].alert = "deleted" => DB!View[k] = Absent

\* The alerts of addFavoritesButtonTapped tell the truth about saving from either
\* tab and about removing from the favourites tab: what the last tap did is what
\* the database shows from then on, through lost connections and answers, unless
\* another installation wrote there, the server refused the write or a kill
\* dropped it.
AlertsAreTrue ==
    \A k \in Key \ lost : Believable(k) =>
        /\ SavedIsTrue(k)
        /\ told[k].tab = "favorites" => DeletedIsTrue(k)

\* "La imagen fue eliminada de favoritos exitosamente", as DetailVC tells the
\* user after a removal from any tab.
DeletedAlertIsTrue == \A k \in Key \ lost : Believable(k) => DeletedIsTrue(k)

\* The list ends up showing the server's favourites for good, whatever was
\* typed, saved, removed, lost and reconnected before, once the user leaves the
\* search bar empty.
ListEventuallyShowsSaved ==
    <>[](loaded /\ text = NoText) => <>[](shown = Rows(saved))
=============================================================================
