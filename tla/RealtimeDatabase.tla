-------------------------- MODULE RealtimeDatabase --------------------------
(***************************************************************************)
(* The Firebase Realtime Database as this app uses it: one client (FRepo   *)
(* with its FWriteTree and its FPersistentConnection), the server, and the *)
(* websocket between them, an ordered stream each way that can be lost.    *)
(*                                                                         *)
(* The client shows its own writes at once.  It keeps each of them in the  *)
(* write tree, on top of what it knows of the server's data, until the     *)
(* server has answered the put; after a reconnect it sends its listen and  *)
(* every unanswered put again.  Nothing is kept on disk (persistence is    *)
(* off by default, and the app does not enable it).                        *)
(***************************************************************************)
EXTENDS Integers, Sequences, FiniteSets, SequencesExt

CONSTANTS
    Path,           \* the locations that are written
    Listened,       \* those below the location the client listens at
    Value,          \* what can be stored at a location
    Absent,         \* nothing is stored there
    Unknown,        \* the client has no server data yet
    MaxWrites,      \* bound: writes of this client
    MaxTroubles     \* bound: lost connections, kills, refused or foreign writes

ASSUME PathAssumption == Listened \subseteq Path
ASSUME AbsentAssumption == Absent \notin Value
ASSUME BoundsAssumption == MaxWrites \in Nat /\ MaxTroubles \in Nat

VARIABLES
    saved,          \* the server's data
    served,         \* the server sends updates over this connection
    uplink,         \* messages to the server
    downlink,       \* messages to the client
    connected,
    listening,      \* the client has a listen (FPersistentConnection.listens)
    listenUnacked,  \* unackedListensCount > 0
    writes,         \* FWriteTree.allWrites, see Write below
    known,          \* the server data in the sync tree
    made,           \* writes made so far
    troubles,       \* troubles so far
    disturbed       \* history: the locations another client has written, or
                    \* at which the server refused a write of this client

server == <<saved, served>>
wires == <<uplink, downlink>>
client == <<connected, listening, listenUnacked, writes, known>>
bounds == <<made, troubles>>
dbvars == <<saved, served, uplink, downlink, connected, listening,
            listenUnacked, writes, known, made, troubles, disturbed>>

-----------------------------------------------------------------------------
Content == Value \cup {Absent}      \* removeValue is setValue(nil)
Data == [Listened -> Content]

ASSUME UnknownAssumption == Unknown \notin Data

\* A write is in the write tree until its onComplete runs.  Until the server
\* answers, it is also in outstandingPuts ("out"); an answer that waits for the
\* listens is in putsToAck ("ok" or "refused").
Write == [path : Path, value : Content, status : {"out", "ok", "refused"}]

Put(path, value) == [type |-> "put", path |-> path, value |-> value]
Listen == [type |-> "listen"]

DataMessage(path) == [type |-> "data", path |-> path, value |-> saved'[path]]
Snapshot == [type |-> "snapshot", data |-> [path \in Listened |-> saved[path]]]
ListenResponse == [type |-> "listened"]
PutResponse(status) == [type |-> "answer", status |-> status]

Uplink == [type : {"put"}, path : Path, value : Content] \cup {Listen}
Downlink ==
    [type : {"data"}, path : Listened, value : Content]
    \cup [type : {"snapshot"}, data : Data]
    \cup {ListenResponse}
    \cup [type : {"answer"}, status : {"ok", "refused"}]

TypeOK ==
    /\ saved \in [Path -> Content]
    /\ served \in BOOLEAN
    /\ uplink \in Seq(Uplink)
    /\ downlink \in Seq(Downlink)
    /\ connected \in BOOLEAN
    /\ listening \in BOOLEAN
    /\ listenUnacked \in BOOLEAN
    /\ writes \in Seq(Write)
    /\ known \in Data \cup {Unknown}
    /\ made \in 0 .. MaxWrites
    /\ troubles \in 0 .. MaxTroubles
    /\ disturbed \subseteq Path

\* What the listener is shown: the server data under the client's own writes.
\* Without server data there is no complete view, and so no value event.
View ==
    IF known = Unknown THEN Unknown
    ELSE [path \in Listened |->
            LET mine == {i \in DOMAIN writes : writes[i].path = path}
            IN  IF mine = {} THEN known[path]
                ELSE writes[CHOOSE i \in mine : \A j \in mine : j <= i].value]

-----------------------------------------------------------------------------
Init ==
    /\ saved = [path \in Path |-> Absent]
    /\ served = FALSE
    /\ uplink = <<>>
    /\ downlink = <<>>
    /\ connected = FALSE
    /\ listening = FALSE
    /\ listenUnacked = FALSE
    /\ writes = <<>>
    /\ known = Unknown
    /\ made = 0
    /\ troubles = 0
    /\ disturbed = {}

\* The client.  A write enters the write tree and outstandingPuts, and is sent
\* when there is a connection.
Set(path, value) ==
    /\ made < MaxWrites
    /\ made' = made + 1
    /\ writes' = Append(writes, [path |-> path, value |-> value, status |-> "out"])
    /\ uplink' = IF connected THEN Append(uplink, Put(path, value)) ELSE uplink
    /\ UNCHANGED <<server, downlink, connected, listening, listenUnacked, known,
                   troubles, disturbed>>

Observe ==
    /\ ~listening
    /\ listening' = TRUE
    /\ uplink' = IF connected THEN Append(uplink, Listen) ELSE uplink
    /\ listenUnacked' = connected
    /\ UNCHANGED <<server, downlink, connected, writes, known, bounds, disturbed>>

\* The n-th of a set of positions.
Nth(S, n) == CHOOSE i \in S : Cardinality({j \in S : j <= i}) = n

\* The elements of a sequence at a set of positions, in their order.
Subsequence(s, S) == [n \in 1 .. Cardinality(S) |-> s[Nth(S, n)]]

\* outstandingPuts, sorted by their numbers.
Out == Subsequence(writes, {i \in DOMAIN writes : writes[i].status = "out"})

\* Mutant: cancelSentTransactions cancels every put.
DisconnectCancels ==
    /\ connected
    /\ troubles < MaxTroubles
    /\ troubles' = troubles + 1
    /\ connected' = FALSE
    /\ listenUnacked' = FALSE
    /\ served' = FALSE
    /\ uplink' = <<>>
    /\ downlink' = <<>>
    /\ writes' = <<>>
    /\ UNCHANGED <<saved, listening, known, made, disturbed>>

\* onDisconnect forgets the connection and the listens it was waiting for; the
\* writes stay, and so do the answers in putsToAck.
Disconnect ==
    /\ connected
    /\ troubles < MaxTroubles
    /\ troubles' = troubles + 1
    /\ connected' = FALSE
    /\ listenUnacked' = FALSE
    /\ served' = FALSE
    /\ uplink' = <<>>
    /\ downlink' = <<>>
    /\ UNCHANGED <<saved, listening, writes, known, made, disturbed>>

\* Mutants: restoreState forgets the puts, or the listens.
Restore(listen, messages) ==
    /\ ~connected
    /\ connected' = TRUE
    /\ listenUnacked' = listen
    /\ uplink' = messages
    /\ UNCHANGED <<server, downlink, listening, writes, known, bounds, disturbed>>

ConnectWithoutPuts ==
    Restore(listening, IF listening THEN <<Listen>> ELSE <<>>)
ConnectWithoutListens ==
    Restore(FALSE, [i \in DOMAIN Out |-> Put(Out[i].path, Out[i].value)])

\* restoreState: the listens first, then the unanswered puts in their order.
Connect ==
    /\ ~connected
    /\ connected' = TRUE
    /\ listenUnacked' = listening
    /\ uplink' = (IF listening THEN <<Listen>> ELSE <<>>)
                 \o [i \in DOMAIN Out |-> Put(Out[i].path, Out[i].value)]
    /\ UNCHANGED <<server, downlink, listening, writes, known, bounds, disturbed>>

\* The app is killed and started again: only the server remembers.
Kill ==
    /\ troubles < MaxTroubles
    /\ troubles' = troubles + 1
    /\ connected' = FALSE
    /\ listening' = FALSE
    /\ listenUnacked' = FALSE
    /\ served' = FALSE
    /\ uplink' = <<>>
    /\ downlink' = <<>>
    /\ writes' = <<>>
    /\ known' = Unknown
    /\ UNCHANGED <<saved, made, disturbed>>

-----------------------------------------------------------------------------
(* The server (outside the repository): it answers in order, and it sends   *)
(* the update of the data before the answer to the put that caused it.      *)

Update(path) == IF served /\ path \in Listened THEN <<DataMessage(path)>> ELSE <<>>

ServeListen ==
    /\ uplink # <<>> /\ Head(uplink) = Listen
    /\ uplink' = Tail(uplink)
    /\ served' = TRUE
    /\ downlink' = downlink \o <<Snapshot, ListenResponse>>
    /\ UNCHANGED <<saved, client, bounds, disturbed>>

ServePut ==
    /\ uplink # <<>> /\ Head(uplink).type = "put"
    /\ uplink' = Tail(uplink)
    /\ saved' = [saved EXCEPT ![Head(uplink).path] = Head(uplink).value]
    /\ downlink' = downlink \o Update(Head(uplink).path) \o <<PutResponse("ok")>>
    /\ UNCHANGED <<served, client, bounds, disturbed>>

\* The security rules refuse the write.
RefusePut ==
    /\ uplink # <<>> /\ Head(uplink).type = "put"
    /\ troubles < MaxTroubles
    /\ troubles' = troubles + 1
    /\ uplink' = Tail(uplink)
    /\ downlink' = Append(downlink, PutResponse("refused"))
    /\ disturbed' = disturbed \cup {Head(uplink).path}
    /\ UNCHANGED <<server, client, made>>

\* Another installation of the app writes to the same database.
ForeignWrite(path, value) ==
    /\ saved[path] # value
    /\ troubles < MaxTroubles
    /\ troubles' = troubles + 1
    /\ saved' = [saved EXCEPT ![path] = value]
    /\ downlink' = downlink \o Update(path)
    /\ disturbed' = disturbed \cup {path}
    /\ UNCHANGED <<served, uplink, client, made>>

-----------------------------------------------------------------------------
(* The client reads its end of the connection. *)

Reads(type) ==
    /\ downlink # <<>> /\ Head(downlink).type = type
    /\ downlink' = Tail(downlink)
    /\ UNCHANGED <<server, uplink, connected, listening, bounds, disturbed>>

\* onDataUpdate
ReceiveSnapshot ==
    /\ Reads("snapshot")
    /\ known' = Head(downlink).data
    /\ UNCHANGED <<listenUnacked, writes>>

\* Mutant: an update of one location replaces everything known.
ReceiveDataWhole ==
    /\ Reads("data")
    /\ known' = Head(downlink).value
    /\ UNCHANGED <<listenUnacked, writes>>

ReceiveData ==
    /\ Reads("data")
    /\ known' = [known EXCEPT ![Head(downlink).path] = Head(downlink).value]
    /\ UNCHANGED <<listenUnacked, writes>>

\* The listen is answered: the answers to puts that waited for it are handed
\* on (ackPuts), which takes their writes out of the write tree.
ReceiveListenResponse ==
    /\ Reads("listened")
    /\ listenUnacked' = FALSE
    /\ writes' = Out
    /\ UNCHANGED known

\* A put is answered, the oldest unanswered one.  Its write leaves the write
\* tree now, or when the listens are answered.
ReceiveAnswer ==
    /\ Reads("answer")
    /\ LET i == SelectInSeq(writes, LAMBDA w : w.status = "out")
       IN  writes' = IF listenUnacked
                     THEN [writes EXCEPT ![i].status = Head(downlink).status]
                     ELSE RemoveAt(writes, i)
    /\ UNCHANGED <<listenUnacked, known>>

Receive ==
    \/ ReceiveSnapshot
    \/ ReceiveData
    \/ ReceiveListenResponse
    \/ ReceiveAnswer

Serve == ServeListen \/ ServePut \/ RefusePut

Next ==
    \/ \E path \in Path, value \in Content : Set(path, value)
    \/ Observe
    \/ Connect
    \/ Disconnect
    \/ Kill
    \/ Serve
    \/ \E path \in Path, value \in Content : ForeignWrite(path, value)
    \/ Receive

Spec == Init /\ [][Next]_dbvars

\* The client reconnects for as long as it is not connected, the server answers
\* what it receives, and both sides read what arrives.
Fairness ==
    /\ WF_dbvars(Connect)
    /\ WF_dbvars(Serve)
    /\ WF_dbvars(Receive)

FairSpec == Spec /\ Fairness

-----------------------------------------------------------------------------
\* No flicker: while the client knows the server's data, what it shows at a
\* location changes only in a step in which the user writes -- not when an
\* accepted write leaves the write tree, not when its answer was lost and the
\* put is sent again, not when the connection comes back while answers wait for
\* the listen -- unless another client wrote there or a write there was refused.
\* (The order in restoreState, putsToAck in sendPut and sendListen, ackWrite.)
NoFlicker ==
    [][\A path \in Listened \ disturbed :
          View # Unknown /\ View' # Unknown /\ View'[path] # View[path]
          => made' = made + 1]_dbvars

\* When everything is answered and read, the client shows the server's data:
\* no update and no answer was missed over any number of lost connections.
QuietMeansEqual ==
    served /\ uplink = <<>> /\ downlink = <<>> =>
        /\ writes = <<>>
        /\ View = [path \in Listened |-> saved[path]]

\* A client that listens ends up with the server's data for good.
EventuallyEqual ==
    <>[](listening => View = [path \in Listened |-> saved[path]])
=============================================================================
