----------------------- MODULE RealtimeDatabaseProofs -----------------------
(* Theorems about RealtimeDatabase, for any locations and values and any     *)
(* number of writes, lost connections, kills and foreign writes.            *)
EXTENDS RealtimeDatabase, FiniteSetTheorems, SequenceTheorems,
        WellFoundedInduction, TLAPS

-----------------------------------------------------------------------------
(* Positions in the write tree.                                             *)

\* The n-th position from k + 1 on.
LEMMA NthOut ==
    ASSUME NEW k \in Nat, NEW l \in Nat, NEW n \in 1 .. l - k
    PROVE  Nth(k + 1 .. l, n) = k + n
<1>1. ASSUME NEW i \in k + 1 .. l
      PROVE  Cardinality({j \in k + 1 .. l : j <= i}) = i - k
  <2>1. {j \in k + 1 .. l : j <= i} = k + 1 .. i OBVIOUS
  <2>2. Cardinality(k + 1 .. i) = IF k + 1 > i THEN 0 ELSE i - (k + 1) + 1
    BY FS_Interval
  <2>3. ~(k + 1 > i) /\ i - (k + 1) + 1 = i - k OBVIOUS
  <2>4. Cardinality(k + 1 .. i) = i - k BY <2>2, <2>3
  <2> QED BY <2>1, <2>4
<1>2. k + n \in k + 1 .. l OBVIOUS
<1>3. \A i \in k + 1 .. l : Cardinality({j \in k + 1 .. l : j <= i}) = n <=> i = k + n
  BY <1>1
<1> QED BY <1>2, <1>3 DEF Nth

LEMMA LeastNumber ==
    ASSUME NEW T \in SUBSET Nat, T # {}
    PROVE  \E k \in T : \A y \in T : k <= y
<1> DEFINE R == {ss \in Nat \X Nat : ss[1] < ss[2]}
<1>1. IsWellFoundedOn(OpToRel(<, Nat), Nat) BY NatLessThanWellFounded
<1>2. OpToRel(<, Nat) = R BY DEF OpToRel
<1>3. PICK k \in T : \A y \in T : <<y, k>> \notin R BY <1>1, <1>2, WFMin
<1>4. \A y \in T : ~(y < k) BY <1>3
<1> QED BY <1>4

\* The n-th position of a set is one of it.
LEMMA NthIsIn ==
    ASSUME NEW m \in Nat, NEW S \in SUBSET (1 .. m), NEW n \in 1 .. Cardinality(S)
    PROVE  Nth(S, n) \in S
<1> DEFINE upto(i) == {j \in S : j <= i}
<1>0. \A j \in S : j \in Nat /\ 1 <= j /\ j <= m OBVIOUS
<1>1. ASSUME NEW i \in Nat
      PROVE  IsFiniteSet(upto(i)) /\ Cardinality(upto(i)) \in Nat
  <2>1. IsFiniteSet(1 .. m) BY FS_Interval
  <2>2. upto(i) \subseteq 1 .. m OBVIOUS
  <2> QED BY <2>1, <2>2, FS_Subset, FS_CardinalityType
<1>2. upto(m) = S BY <1>0
<1>3. Cardinality(S) \in Nat BY <1>1, <1>2
<1>4. PICK T : T = {i \in 0 .. m : Cardinality(upto(i)) >= n} OBVIOUS
<1>5. T \in SUBSET Nat /\ m \in T BY <1>2, <1>3, <1>4
<1>6. PICK i \in T : \A y \in T : i <= y BY <1>5, LeastNumber
<1>7. i \in 0 .. m /\ Cardinality(upto(i)) >= n BY <1>4
<1>8. i # 0
  <2>0. \A j \in S : ~(j <= 0) BY <1>0
  <2>1. upto(0) = {} BY <2>0
  <2>2. Cardinality(upto(0)) = 0 BY <2>1, FS_EmptySet
  <2> QED BY <1>7, <2>2
<1>9. i - 1 \in 0 .. m /\ i - 1 \notin T BY <1>5, <1>6, <1>7, <1>8
<1>10. i \in Nat /\ i - 1 \in Nat BY <1>7, <1>9
<1>11. Cardinality(upto(i - 1)) < n
  <2>1. ~(Cardinality(upto(i - 1)) >= n) BY <1>4, <1>9
  <2> HIDE DEF upto
  <2> QED BY <1>1, <1>10, <2>1
<1>12. \A j \in S : j <= i <=> j <= i - 1 \/ j = i BY <1>0, <1>10
<1>13. i \in S
  <2>1. ASSUME i \notin S PROVE FALSE
    <3>1. upto(i) = upto(i - 1) BY <1>12, <2>1
    <3> HIDE DEF upto
    <3> QED BY <1>1, <1>7, <1>10, <1>11, <3>1
  <2> QED BY <2>1
<1>14. upto(i) = upto(i - 1) \cup {i} /\ i \notin upto(i - 1)
  <2>1. \A j \in S : j \in upto(i) <=> j \in upto(i - 1) \/ j = i BY <1>12
  <2>2. i \in upto(i) /\ i \notin upto(i - 1) BY <1>10, <1>13
  <2>3. upto(i) \subseteq S /\ upto(i - 1) \subseteq S OBVIOUS
  <2> HIDE DEF upto
  <2> QED BY <1>13, <2>1, <2>2, <2>3
<1>15. Cardinality(upto(i)) = n
  <2> HIDE DEF upto
  <2>1. Cardinality(upto(i)) = Cardinality(upto(i - 1)) + 1
    BY <1>1, <1>10, <1>14, FS_AddElement
  <2> QED BY <1>1, <1>7, <1>10, <1>11, <2>1
<1> QED BY <1>13, <1>15 DEF Nth

\* The unanswered writes are those behind the k answered ones.
LEMMA OutIs ==
    ASSUME writes \in Seq(Write), NEW k \in 0 .. Len(writes),
           \A i \in DOMAIN writes : writes[i].status = "out" <=> i > k
    PROVE  /\ Out \in Seq(Write)
           /\ Len(Out) = Len(writes) - k
           /\ \A n \in 1 .. Len(writes) - k : Out[n] = writes[k + n]
<1>1. PICK l \in Nat : l = Len(writes) OBVIOUS
<1>2. {i \in DOMAIN writes : writes[i].status = "out"} = k + 1 .. l BY <1>1
<1>3. Cardinality(k + 1 .. l) = l - k
  <2>1. Cardinality(k + 1 .. l) = IF k + 1 > l THEN 0 ELSE l - (k + 1) + 1
    BY FS_Interval
  <2> QED BY <1>1, <2>1
<1>4. Out = [n \in 1 .. l - k |-> writes[Nth(k + 1 .. l, n)]]
  BY <1>2, <1>3 DEF Out, Subsequence
<1>5. \A n \in 1 .. l - k : Nth(k + 1 .. l, n) = k + n BY NthOut
<1>6. \A n \in 1 .. l - k : k + n \in DOMAIN writes /\ writes[k + n] \in Write BY <1>1
<1>7. Out \in [1 .. l - k -> Write] BY <1>4, <1>5, <1>6
<1>8. l - k \in Nat BY <1>1
<1> QED BY <1>1, <1>4, <1>5, <1>7, <1>8

\* The oldest unanswered write.
LEMMA FirstOut ==
    ASSUME writes \in Seq(Write), NEW k \in 0 .. Len(writes) - 1,
           \A i \in DOMAIN writes : writes[i].status = "out" <=> i > k
    PROVE  SelectInSeq(writes, LAMBDA w : w.status = "out") = k + 1
<1>1. PICK l \in Nat : l = Len(writes) OBVIOUS
<1>2. {i \in 1 .. Len(writes) : writes[i].status = "out"} = k + 1 .. l BY <1>1
<1>3. k + 1 \in k + 1 .. l /\ \A i \in k + 1 .. l : k + 1 <= i BY <1>1
<1>4. Min(k + 1 .. l) = k + 1 BY <1>3 DEF Min
<1> QED BY <1>2, <1>3, <1>4 DEF SelectInSeq

-----------------------------------------------------------------------------
(* Counting the messages of a type along a queue.                           *)

\* c[i] is the number of a queue's messages of a type up to the i-th, counted
\* on from c[0].
Counts(c, s, type) ==
    /\ c \in [0 .. Len(s) -> Nat]
    /\ \A i \in 1 .. Len(s) : c[i] = c[i - 1] + (IF s[i].type = type THEN 1 ELSE 0)
    /\ \A i \in 0 .. Len(s) : \A j \in i .. Len(s) : c[i] <= c[j]

LEMMA CountsEmpty ==
    ASSUME NEW type, NEW n \in Nat
    PROVE  \E c : Counts(c, <<>>, type) /\ c[0] = n
<1> DEFINE c == [i \in 0 .. 0 |-> n]
<1>1. Counts(c, <<>>, type) /\ c[0] = n BY DEF Counts
<1> HIDE DEF c
<1> QED BY <1>1

LEMMA CountsTail ==
    ASSUME NEW S, NEW s \in Seq(S), s # <<>>, NEW type, NEW c, Counts(c, s, type)
    PROVE  \E d : /\ Counts(d, Tail(s), type)
                  /\ \A i \in 0 .. Len(s) - 1 : d[i] = c[i + 1]
<1>1. PICK n \in Nat : n = Len(s) /\ n >= 1 OBVIOUS
<1>2. Tail(s) \in Seq(S) /\ Len(Tail(s)) = n - 1 BY <1>1
<1>3. \A i \in 1 .. n - 1 : Tail(s)[i] = s[i + 1] BY <1>1
<1> DEFINE d == [i \in 0 .. n - 1 |-> c[i + 1]]
<1>4. c \in [0 .. n -> Nat] BY <1>1 DEF Counts
<1>5. d \in [0 .. n - 1 -> Nat] BY <1>1, <1>4
<1>6. ASSUME NEW i \in 1 .. n - 1
      PROVE  d[i] = d[i - 1] + (IF Tail(s)[i].type = type THEN 1 ELSE 0)
  <2>1. i + 1 \in 1 .. n /\ (i + 1) - 1 = i /\ i \in 0 .. n - 1 /\ i - 1 \in 0 .. n - 1
        /\ (i - 1) + 1 = i
    BY <1>1
  <2>2. c[i + 1] = c[(i + 1) - 1] + (IF s[i + 1].type = type THEN 1 ELSE 0)
    BY <1>1, <2>1 DEF Counts
  <2>3. d[i] = c[i + 1] /\ d[i - 1] = c[i] BY <2>1
  <2> QED BY <1>3, <2>1, <2>2, <2>3
<1>7. ASSUME NEW i \in 0 .. n - 1, NEW j \in i .. n - 1 PROVE d[i] <= d[j]
  <2>1. i + 1 \in 0 .. n /\ j + 1 \in i + 1 .. n /\ j \in 0 .. n - 1 BY <1>1
  <2>2. c[i + 1] <= c[j + 1] BY <1>1, <2>1 DEF Counts
  <2> QED BY <2>1, <2>2
<1>8. Counts(d, Tail(s), type) BY <1>2, <1>5, <1>6, <1>7 DEF Counts
<1>9. \A i \in 0 .. Len(s) - 1 : d[i] = c[i + 1] BY <1>1
<1> HIDE DEF d
<1> QED BY <1>8, <1>9

LEMMA CountsAppend ==
    ASSUME NEW S, NEW s \in Seq(S), NEW e \in S, NEW type, NEW c, Counts(c, s, type)
    PROVE  \E d : /\ Counts(d, Append(s, e), type)
                  /\ \A i \in 0 .. Len(s) : d[i] = c[i]
                  /\ d[Len(s) + 1] = c[Len(s)] + (IF e.type = type THEN 1 ELSE 0)
<1>1. PICK n \in Nat : n = Len(s) OBVIOUS
<1>2. PICK t : t = Append(s, e) OBVIOUS
<1>3. Len(t) = n + 1 /\ (\A i \in 1 .. n : t[i] = s[i]) /\ t[n + 1] = e BY <1>1, <1>2
<1>4. c \in [0 .. n -> Nat] BY <1>1 DEF Counts
<1>5. PICK x \in Nat : x = c[n] + (IF e.type = type THEN 1 ELSE 0) BY <1>4
<1> DEFINE d == [i \in 0 .. n + 1 |-> IF i <= n THEN c[i] ELSE x]
<1>6. d \in [0 .. n + 1 -> Nat] BY <1>1, <1>4
<1>7. ASSUME NEW i \in 1 .. n + 1
      PROVE  d[i] = d[i - 1] + (IF t[i].type = type THEN 1 ELSE 0)
  <2>1. CASE i <= n
    <3>1. i \in 1 .. n /\ i - 1 <= n /\ i - 1 \in 0 .. n + 1 /\ i \in 0 .. n + 1
      BY <1>1, <2>1
    <3>2. c[i] = c[i - 1] + (IF s[i].type = type THEN 1 ELSE 0) BY <1>1, <3>1 DEF Counts
    <3> QED BY <1>3, <2>1, <3>1, <3>2
  <2>2. CASE ~(i <= n)
    <3>1. i = n + 1 /\ i - 1 = n /\ n + 1 \in 0 .. n + 1 /\ n \in 0 .. n + 1 BY <1>1, <2>2
    <3> QED BY <1>3, <1>5, <3>1
  <2> QED BY <2>1, <2>2
<1>8. ASSUME NEW i \in 0 .. n + 1, NEW j \in i .. n + 1 PROVE d[i] <= d[j]
  <2>1. CASE j <= n
    <3>1. i \in 0 .. n /\ j \in i .. n /\ i <= n /\ j \in 0 .. n + 1 BY <1>1, <2>1
    <3>2. c[i] <= c[j] BY <1>1, <3>1 DEF Counts
    <3> QED BY <2>1, <3>1, <3>2
  <2>2. CASE ~(j <= n) /\ i <= n
    <3>1. i \in 0 .. n /\ n \in i .. n /\ j \in 0 .. n + 1 BY <1>1, <2>2
    <3>2. c[i] <= c[n] BY <1>1, <3>1 DEF Counts
    <3>3. c[n] <= x BY <1>4, <1>5
    <3>4. c[i] \in Nat /\ c[n] \in Nat BY <1>4, <3>1
    <3> QED BY <2>2, <3>1, <3>2, <3>3, <3>4
  <2>3. CASE ~(j <= n) /\ ~(i <= n)
    <3>1. i = j BY <1>1, <2>3
    <3>2. d[i] \in Nat BY <1>6
    <3> QED BY <3>1, <3>2
  <2> QED BY <2>1, <2>2, <2>3
<1>9. Counts(d, t, type) BY <1>3, <1>6, <1>7, <1>8 DEF Counts
<1>10. (\A i \in 0 .. n : d[i] = c[i]) /\ d[n + 1] = x BY <1>1
<1> HIDE DEF d
<1> QED BY <1>1, <1>2, <1>5, <1>9, <1>10

\* Counting on from another number.
LEMMA CountsShift ==
    ASSUME NEW S, NEW s \in Seq(S), NEW type, NEW c, Counts(c, s, type), NEW k \in Nat,
           k <= c[0]
    PROVE  \E d : Counts(d, s, type) /\ \A i \in 0 .. Len(s) : d[i] = c[i] - k
<1>1. PICK n \in Nat : n = Len(s) OBVIOUS
<1> DEFINE d == [i \in 0 .. n |-> c[i] - k]
<1>2. c \in [0 .. n -> Nat] BY <1>1 DEF Counts
<1>3. ASSUME NEW i \in 0 .. n PROVE c[i] - k \in Nat
  <2>1. c[0] <= c[i] BY <1>1 DEF Counts
  <2> QED BY <1>2, <2>1
<1>4. d \in [0 .. n -> Nat] BY <1>3
<1>5. ASSUME NEW i \in 1 .. n
      PROVE  d[i] = d[i - 1] + (IF s[i].type = type THEN 1 ELSE 0)
  <2>1. i \in 0 .. n /\ i - 1 \in 0 .. n OBVIOUS
  <2>2. c[i] = c[i - 1] + (IF s[i].type = type THEN 1 ELSE 0) BY <1>1 DEF Counts
  <2>3. c[i] \in Nat /\ c[i - 1] \in Nat BY <1>2, <2>1
  <2> QED BY <2>1, <2>2, <2>3
<1>6. ASSUME NEW i \in 0 .. n, NEW j \in i .. n PROVE d[i] <= d[j]
  <2>1. j \in 0 .. n OBVIOUS
  <2>2. c[i] <= c[j] BY <1>1 DEF Counts
  <2>3. c[i] \in Nat /\ c[j] \in Nat BY <1>2, <2>1
  <2> QED BY <2>1, <2>2, <2>3
<1>7. Counts(d, s, type) BY <1>1, <1>4, <1>5, <1>6 DEF Counts
<1>8. \A i \in 0 .. Len(s) : d[i] = c[i] - k BY <1>1
<1> HIDE DEF d
<1> QED BY <1>7, <1>8

-----------------------------------------------------------------------------
(* The messages.                                                            *)

LEMMA UplinkTypes ==
    ASSUME NEW m \in Uplink
    PROVE  /\ m.type \in {"put", "listen"}
           /\ m.type = "put" => m.path \in Path /\ m.value \in Content
           /\ m.type = "listen" <=> m = Listen
BY DEF Uplink, Listen

LEMMA DownlinkTypes ==
    ASSUME NEW m \in Downlink
    PROVE  /\ m.type \in {"data", "snapshot", "listened", "answer"}
           /\ m.type = "data" => m.path \in Listened /\ m.value \in Content
           /\ m.type = "snapshot" => m.data \in Data
           /\ m.type = "answer" => m.status \in {"ok", "refused"}
           /\ m.type = "listened" <=> m = ListenResponse
BY DEF Downlink, ListenResponse

LEMMA MessageTypes ==
    /\ \A path \in Path, value \in Content :
        Put(path, value) \in Uplink /\ Put(path, value).type = "put"
        /\ Put(path, value).path = path /\ Put(path, value).value = value
    /\ Listen \in Uplink /\ Listen.type = "listen"
    /\ ListenResponse \in Downlink /\ ListenResponse.type = "listened"
    /\ \A status \in {"ok", "refused"} :
        PutResponse(status) \in Downlink /\ PutResponse(status).type = "answer"
        /\ PutResponse(status).status = status
BY DEF Put, Listen, ListenResponse, PutResponse, Uplink, Downlink

LEMMA SnapshotType ==
    ASSUME saved \in [Path -> Content]
    PROVE  Snapshot \in Downlink /\ Snapshot.type = "snapshot" /\ Snapshot.data \in Data
           /\ \A p \in Listened : Snapshot.data[p] = saved[p]
<1>1. [path \in Listened |-> saved[path]] \in Data BY PathAssumption DEF Data
<1> QED BY <1>1 DEF Snapshot, Downlink

LEMMA DataMessageType ==
    ASSUME saved' \in [Path -> Content], NEW path \in Listened
    PROVE  DataMessage(path) \in Downlink /\ DataMessage(path).type = "data"
           /\ DataMessage(path).path = path /\ DataMessage(path).value = saved'[path]
<1>1. saved'[path] \in Content BY PathAssumption
<1> QED BY <1>1 DEF DataMessage, Downlink

LEMMA AppendShape ==
    ASSUME NEW S, NEW s \in Seq(S), NEW e \in S
    PROVE  /\ Append(s, e) \in Seq(S)
           /\ Len(Append(s, e)) = Len(s) + 1
           /\ \A i \in 1 .. Len(s) : Append(s, e)[i] = s[i]
           /\ Append(s, e)[Len(s) + 1] = e
OBVIOUS

LEMMA TailShape ==
    ASSUME NEW S, NEW s \in Seq(S), s # <<>>
    PROVE  /\ Tail(s) \in Seq(S)
           /\ Len(s) \in Nat \ {0}
           /\ Len(Tail(s)) = Len(s) - 1
           /\ \A i \in 1 .. Len(s) - 1 : Tail(s)[i] = s[i + 1]
           /\ Head(s) = s[1]
           /\ Head(s) \in S
OBVIOUS

-----------------------------------------------------------------------------
(* The writes on their way: the unanswered ones are those whose answers, and *)
(* then those whose puts, are on the wires, in the order of the write tree.  *)

\* a[i] writes are answered up to the i-th message to the client, u[i] up to the
\* i-th message to the server.
Pipe(a, u) ==
    /\ Counts(a, downlink, "answer")
    /\ Counts(u, uplink, "put")
    /\ u[0] = a[Len(downlink)]
    /\ u[Len(uplink)] <= Len(writes)
    /\ connected => u[Len(uplink)] = Len(writes)
    /\ \A i \in DOMAIN writes : writes[i].status = "out" <=> i > a[0]
    /\ \A i \in DOMAIN uplink : uplink[i].type = "put" =>
          writes[u[i]].path = uplink[i].path /\ writes[u[i]].value = uplink[i].value

ListenSent == \E i \in DOMAIN uplink : uplink[i].type = "listen"
ListenAnswered == \E i \in DOMAIN downlink : downlink[i].type = "listened"

\* Connections and listens.
Wire ==
    /\ ~connected => uplink = <<>> /\ downlink = <<>> /\ ~served
    /\ served => listening
    /\ known # Unknown => listening
    /\ listenUnacked => connected /\ listening /\ (ListenSent \/ ListenAnswered)
    /\ connected /\ listening /\ ~served => listenUnacked /\ ListenSent
    /\ ListenSent => listening
    /\ \A i \in DOMAIN writes :
          writes[i].status # "out" => listening /\ (connected => listenUnacked)
    /\ ~served => \A q \in DOMAIN downlink : downlink[q].type = "answer"

LEMMA PipeBounds ==
    ASSUME TypeOK, NEW a, NEW u, Pipe(a, u)
    PROVE  /\ Len(downlink) \in Nat /\ Len(uplink) \in Nat /\ Len(writes) \in Nat
           /\ a \in [0 .. Len(downlink) -> Nat] /\ u \in [0 .. Len(uplink) -> Nat]
           /\ a[0] \in Nat /\ u[0] \in Nat
           /\ \A i \in 0 .. Len(downlink) : a[i] \in Nat /\ a[0] <= a[i] /\ a[i] <= u[0]
           /\ \A i \in 0 .. Len(uplink) : u[i] \in Nat /\ u[0] <= u[i] /\ u[i] <= Len(writes)
           /\ a[0] \in 0 .. Len(writes)
           /\ u[0] <= Len(writes)
<1>1. PICK n \in Nat : n = Len(downlink) BY DEF TypeOK
<1>2. PICK m \in Nat : m = Len(uplink) BY DEF TypeOK
<1>3. PICK l \in Nat : l = Len(writes) BY DEF TypeOK
<1>4. a \in [0 .. n -> Nat] /\ u \in [0 .. m -> Nat] BY <1>1, <1>2 DEF Pipe, Counts
<1>5. \A i \in 0 .. n : \A j \in i .. n : a[i] <= a[j] BY <1>1 DEF Pipe, Counts
<1>6. \A i \in 0 .. m : \A j \in i .. m : u[i] <= u[j] BY <1>2 DEF Pipe, Counts
<1>7. u[0] = a[n] /\ u[m] <= l BY <1>1, <1>2, <1>3 DEF Pipe
<1>8. 0 \in 0 .. n /\ 0 \in 0 .. m /\ n \in 0 .. n /\ m \in 0 .. m OBVIOUS
<1>9. a[0] \in Nat /\ u[0] \in Nat /\ a[n] \in Nat /\ u[m] \in Nat BY <1>4, <1>8
<1>10. ASSUME NEW i \in 0 .. n PROVE a[i] \in Nat /\ a[0] <= a[i] /\ a[i] <= u[0]
  <2>1. i \in 0 .. n /\ n \in i .. n OBVIOUS
  <2> QED BY <1>4, <1>5, <1>7, <1>8, <2>1
<1>11. ASSUME NEW i \in 0 .. m PROVE u[i] \in Nat /\ u[0] <= u[i] /\ u[i] <= l
  <2>1. i \in 0 .. m /\ m \in i .. m OBVIOUS
  <2>2. u[i] \in Nat /\ u[0] <= u[i] /\ u[i] <= u[m] BY <1>4, <1>6, <1>8, <2>1
  <2> QED BY <1>7, <1>9, <2>2
<1>12. a[0] <= u[0] /\ u[0] <= l BY <1>8, <1>10, <1>11
<1>13. a[0] \in 0 .. l BY <1>9, <1>12
<1> QED BY <1>1, <1>2, <1>3, <1>4, <1>9, <1>10, <1>11, <1>12, <1>13

\* A put on its way is that of an unanswered write.
LEMMA PutLabel ==
    ASSUME TypeOK, NEW a, NEW u, Pipe(a, u), NEW i \in DOMAIN uplink,
           uplink[i].type = "put"
    PROVE  u[i] = u[i - 1] + 1 /\ u[i] \in 1 .. Len(writes) /\ u[i] > u[0] /\ u[i] > a[0]
<1>1. i \in 1 .. Len(uplink) /\ i - 1 \in 0 .. Len(uplink) /\ i \in 0 .. Len(uplink)
  BY DEF TypeOK
<1>2. u[i] = u[i - 1] + 1 BY <1>1 DEF Pipe, Counts
<1>3. /\ u[i] \in Nat /\ u[i] <= Len(writes) /\ u[i - 1] \in Nat /\ u[0] <= u[i - 1]
      /\ u[0] \in Nat /\ a[0] \in Nat /\ Len(writes) \in Nat
  BY <1>1, PipeBounds
<1>4. a[0] <= u[0] BY PipeBounds
<1> QED BY <1>2, <1>3, <1>4

\* What the user does.
LEMMA PipeSet ==
    ASSUME TypeOK, Wire, NEW a, NEW u, Pipe(a, u), NEW path \in Path, NEW value \in Content,
           Set(path, value)
    PROVE  \E v : Pipe(a, v)' /\ v[0] = u[0]
<1> DEFINE w == [path |-> path, value |-> value, status |-> "out"]
<1>1. /\ writes' = Append(writes, w) /\ downlink' = downlink /\ connected' = connected
      /\ uplink' = IF connected THEN Append(uplink, Put(path, value)) ELSE uplink
  BY DEF Set, client
<1>2. w \in Write /\ w.path = path /\ w.value = value /\ w.status = "out" BY DEF Write
<1>3. writes \in Seq(Write) /\ uplink \in Seq(Uplink) /\ downlink \in Seq(Downlink)
  BY DEF TypeOK
<1> HIDE DEF w
<1>4. PICK l \in Nat : l = Len(writes) BY <1>3
<1>5. /\ writes' \in Seq(Write) /\ Len(writes') = l + 1
      /\ \A i \in 1 .. l : writes'[i] = writes[i]
      /\ writes'[l + 1] = w
  BY <1>1, <1>2, <1>3, <1>4, AppendShape
<1>6. a[0] \in Nat /\ a[0] <= l BY <1>4, PipeBounds
<1>7. \A i \in DOMAIN writes' : writes'[i].status = "out" <=> i > a[0]
  <2> SUFFICES ASSUME NEW i \in 1 .. l + 1 PROVE writes'[i].status = "out" <=> i > a[0]
    BY <1>5
  <2>1. CASE i \in 1 .. l BY <1>3, <1>4, <1>5, <2>1 DEF Pipe
  <2>2. CASE i = l + 1 BY <1>2, <1>5, <1>6, <2>2
  <2> QED BY <1>4, <2>1, <2>2
<1>8. ASSUME NEW i \in DOMAIN uplink, uplink[i].type = "put"
      PROVE  writes'[u[i]].path = uplink[i].path /\ writes'[u[i]].value = uplink[i].value
  <2>1. u[i] \in 1 .. l BY <1>4, <1>8, PutLabel
  <2> QED BY <1>5, <1>8, <2>1 DEF Pipe
<1>9. CASE ~connected
  <2>1. u[Len(uplink)] <= l + 1
    <3>1. u[Len(uplink)] \in Nat /\ u[Len(uplink)] <= l BY <1>4, PipeBounds
    <3> QED BY <1>4, <3>1
  <2>2. Pipe(a, u)' BY <1>1, <1>5, <1>7, <1>8, <1>9, <2>1 DEF Pipe
  <2> QED BY <2>2
<1>10. CASE connected
  <2>1. PICK m : m = Put(path, value) OBVIOUS
  <2>2. m \in Uplink /\ m.type = "put" /\ m.path = path /\ m.value = value
    BY <2>1, MessageTypes
  <2>3. uplink' = Append(uplink, m) BY <1>1, <1>10, <2>1
  <2>4. PICK n \in Nat : n = Len(uplink) BY <1>3
  <2>5. /\ uplink' \in Seq(Uplink) /\ Len(uplink') = n + 1
        /\ \A i \in 1 .. n : uplink'[i] = uplink[i]
        /\ uplink'[n + 1] = m
    BY <1>3, <2>2, <2>3, <2>4, AppendShape
  <2>6. Counts(u, uplink, "put") /\ u[n] = l BY <1>4, <1>10, <2>4 DEF Pipe
  <2>7. PICK v : /\ Counts(v, Append(uplink, m), "put")
                 /\ \A i \in 0 .. Len(uplink) : v[i] = u[i]
                 /\ v[Len(uplink) + 1] = u[Len(uplink)] + (IF m.type = "put" THEN 1 ELSE 0)
    BY <1>3, <2>2, <2>6, CountsAppend
  <2>8. v[n + 1] = l + 1 /\ v[0] = u[0] BY <2>2, <2>4, <2>6, <2>7
  <2>9. ASSUME NEW i \in DOMAIN uplink', uplink'[i].type = "put"
        PROVE  writes'[v[i]].path = uplink'[i].path /\ writes'[v[i]].value = uplink'[i].value
    <3>1. CASE i \in 1 .. n
      <4>1. v[i] = u[i] /\ uplink'[i] = uplink[i] /\ i \in DOMAIN uplink
        BY <1>3, <2>4, <2>5, <2>7, <3>1
      <4> QED BY <1>8, <2>9, <4>1
    <3>2. CASE i = n + 1 BY <1>2, <1>5, <2>2, <2>5, <2>8, <3>2
    <3> QED BY <2>4, <2>5, <3>1, <3>2
  <2>10. Pipe(a, v)'
    <3>1. Counts(v, uplink', "put") BY <2>3, <2>7
    <3>2. v[Len(uplink')] = Len(writes') /\ v[Len(uplink')] <= Len(writes')
      BY <1>4, <1>5, <2>5, <2>8
    <3>3. v[0] = a[Len(downlink')] /\ Counts(a, downlink', "answer") BY <1>1, <2>8 DEF Pipe
    <3> QED BY <1>7, <2>9, <3>1, <3>2, <3>3 DEF Pipe
  <2> QED BY <2>8, <2>10
<1> QED BY <1>9, <1>10

LEMMA PipeObserve ==
    ASSUME TypeOK, NEW a, NEW u, Pipe(a, u), Observe
    PROVE  \E v : Pipe(a, v)' /\ v[0] = u[0]
<1>1. /\ writes' = writes /\ downlink' = downlink /\ connected' = connected
      /\ uplink' = IF connected THEN Append(uplink, Listen) ELSE uplink
  BY DEF Observe
<1>2. CASE ~connected
  <2>1. Pipe(a, u)' BY <1>1, <1>2 DEF Pipe
  <2> QED BY <2>1
<1>3. CASE connected
  <2>1. uplink \in Seq(Uplink) BY DEF TypeOK
  <2>2. PICK m : m = Listen OBVIOUS
  <2>3. m \in Uplink /\ m.type = "listen" BY <2>2, MessageTypes
  <2>4. PICK n \in Nat : n = Len(uplink) BY <2>1
  <2>5. uplink' = Append(uplink, m) BY <1>1, <1>3, <2>2
  <2>6. /\ Len(uplink') = n + 1 /\ uplink' \in Seq(Uplink)
        /\ \A i \in 1 .. n : uplink'[i] = uplink[i]
        /\ uplink'[n + 1] = m
    BY <2>1, <2>3, <2>4, <2>5, AppendShape
  <2>7. Counts(u, uplink, "put") BY DEF Pipe
  <2>8. PICK v : /\ Counts(v, Append(uplink, m), "put")
                 /\ \A i \in 0 .. Len(uplink) : v[i] = u[i]
                 /\ v[Len(uplink) + 1] = u[Len(uplink)] + (IF m.type = "put" THEN 1 ELSE 0)
    BY <2>1, <2>3, <2>7, CountsAppend
  <2>9. u[n] \in Nat BY <2>4, PipeBounds
  <2>10. v[n + 1] = u[n] /\ v[0] = u[0] BY <2>3, <2>4, <2>8, <2>9
  <2>11. ASSUME NEW i \in DOMAIN uplink', uplink'[i].type = "put"
         PROVE  writes[v[i]].path = uplink'[i].path /\ writes[v[i]].value = uplink'[i].value
    <3>1. i # n + 1 BY <2>3, <2>6, <2>11
    <3>2. i \in 1 .. n BY <2>4, <2>6, <3>1
    <3>3. i \in DOMAIN uplink /\ v[i] = u[i] /\ uplink'[i] = uplink[i]
      BY <2>1, <2>4, <2>6, <2>8, <3>2
    <3> QED BY <2>11, <3>3 DEF Pipe
  <2>12. Pipe(a, v)'
    <3>1. Counts(v, uplink', "put") BY <2>5, <2>8
    <3>2. v[Len(uplink')] = u[Len(uplink)] BY <2>4, <2>6, <2>10
    <3> QED BY <1>1, <2>10, <2>11, <3>1, <3>2 DEF Pipe
  <2> QED BY <2>10, <2>12
<1> QED BY <1>2, <1>3

\* A lost connection, and a new one.
LEMMA PipeDropped ==
    ASSUME TypeOK, NEW a, NEW u, Pipe(a, u), ~connected',
           uplink' = <<>>, downlink' = <<>>, writes' = writes \/ writes' = <<>>
    PROVE  \E b, v : Pipe(b, v)' /\ b[0] <= a[0] /\ (writes' = writes => b[0] = a[0])
<1>1. a[0] \in Nat /\ a[0] <= Len(writes) /\ Len(writes) \in Nat BY PipeBounds
<1>2. PICK k \in Nat : /\ k <= a[0] /\ k <= Len(writes')
                       /\ writes' = writes => k = a[0]
                       /\ \A i \in DOMAIN writes' : writes'[i].status = "out" <=> i > k
  <2>1. CASE writes' = writes BY <1>1, <2>1 DEF Pipe
  <2>2. CASE writes' # writes
    <3>1. writes' = <<>> BY <2>2
    <3>2. Len(writes') = 0 /\ DOMAIN writes' = {} BY <3>1
    <3> QED BY <1>1, <2>2, <3>2
  <2> QED BY <2>1, <2>2
<1>3. PICK b : Counts(b, <<>>, "answer") /\ b[0] = k BY CountsEmpty
<1>4. PICK v : Counts(v, <<>>, "put") /\ v[0] = k BY CountsEmpty
<1>5. Len(downlink') = 0 /\ Len(uplink') = 0 /\ DOMAIN uplink' = {} OBVIOUS
<1>6. Pipe(b, v)' BY <1>2, <1>3, <1>4, <1>5 DEF Pipe
<1> QED BY <1>2, <1>3, <1>6

\* restoreState sends the unanswered puts again, the listen first.
LEMMA PipeConnect ==
    ASSUME TypeOK, Wire, NEW a, NEW u, Pipe(a, u), Connect
    PROVE  \E v : Pipe(a, v)' /\ uplink' \in Seq(Uplink)
                  /\ (listening <=> ListenSent') /\ downlink = <<>>
<1>1. /\ ~connected /\ writes' = writes /\ downlink' = downlink /\ connected'
      /\ uplink' = (IF listening THEN <<Listen>> ELSE <<>>)
                   \o [i \in DOMAIN Out |-> Put(Out[i].path, Out[i].value)]
  BY DEF Connect, server, bounds
<1>2. downlink = <<>> BY <1>1 DEF Wire
<1>3. PICK k \in Nat : k = a[0] BY PipeBounds
<1>4. PICK l \in Nat : l = Len(writes) /\ k <= l BY <1>3, PipeBounds
<1>5. \A i \in DOMAIN writes : writes[i].status = "out" <=> i > k BY <1>3 DEF Pipe
<1>6. writes \in Seq(Write) BY DEF TypeOK
<1>7. Out \in Seq(Write) /\ Len(Out) = l - k /\ \A n \in 1 .. l - k : Out[n] = writes[k + n]
  BY <1>4, <1>5, <1>6, OutIs
<1>8. PICK puts : puts = [i \in DOMAIN Out |-> Put(Out[i].path, Out[i].value)] OBVIOUS
<1>9. /\ puts \in Seq(Uplink) /\ Len(puts) = l - k
      /\ \A n \in 1 .. l - k : /\ puts[n].type = "put" /\ puts[n].path = writes[k + n].path
                               /\ puts[n].value = writes[k + n].value
  <2>1. ASSUME NEW n \in 1 .. l - k
        PROVE  /\ Out[n] = writes[k + n] /\ writes[k + n] \in Write
               /\ writes[k + n].path \in Path /\ writes[k + n].value \in Content
    <3>1. k + n \in 1 .. l BY <1>4
    <3>2. writes[k + n] \in Write BY <1>4, <1>6, <3>1
    <3> QED BY <1>7, <3>2 DEF Write
  <2>2. ASSUME NEW n \in 1 .. l - k
        PROVE  /\ Put(Out[n].path, Out[n].value) \in Uplink
               /\ Put(Out[n].path, Out[n].value).type = "put"
               /\ Put(Out[n].path, Out[n].value).path = writes[k + n].path
               /\ Put(Out[n].path, Out[n].value).value = writes[k + n].value
    BY <2>1, MessageTypes
  <2>3. DOMAIN Out = 1 .. l - k BY <1>7
  <2>4. puts \in [1 .. l - k -> Uplink] BY <1>8, <2>2, <2>3
  <2>5. l - k \in Nat BY <1>4
  <2>6. puts \in Seq(Uplink) /\ Len(puts) = l - k BY <2>4, <2>5
  <2> QED BY <1>8, <2>2, <2>3, <2>6
<1>10. PICK s : s = IF listening THEN <<Listen>> ELSE <<>> OBVIOUS
<1>11. PICK d \in {0, 1} : d = IF listening THEN 1 ELSE 0 OBVIOUS
<1>12. /\ s \in Seq(Uplink) /\ Len(s) = d
       /\ \A i \in 1 .. d : s[i].type = "listen"
  BY <1>10, <1>11, MessageTypes
<1>13. PICK n \in Nat : n = d + (l - k) BY <1>4, <1>11
<1>14. /\ uplink' \in Seq(Uplink) /\ Len(uplink') = n
       /\ \A i \in 1 .. n : uplink'[i] = IF i <= d THEN s[i] ELSE puts[i - d]
  <2>1. uplink' = s \o puts BY <1>1, <1>8, <1>10
  <2>0. s \in Seq(Uplink) /\ puts \in Seq(Uplink) BY <1>9, <1>12
  <2>2. /\ s \o puts \in Seq(Uplink) /\ Len(s \o puts) = Len(s) + Len(puts)
        /\ \A i \in 1 .. Len(s) + Len(puts) :
              (s \o puts)[i] = IF i <= Len(s) THEN s[i] ELSE puts[i - Len(s)]
    BY <2>0, ConcatProperties
  <2>3. Len(s) + Len(puts) = n BY <1>9, <1>12, <1>13
  <2> QED BY <1>12, <2>1, <2>2, <2>3
<1>15. /\ \A i \in 1 .. d : uplink'[i].type = "listen"
       /\ \A i \in d + 1 .. n : /\ uplink'[i].type = "put"
                                /\ uplink'[i].path = writes[k + (i - d)].path
                                /\ uplink'[i].value = writes[k + (i - d)].value
  <2>1. ASSUME NEW i \in 1 .. d PROVE uplink'[i].type = "listen"
    <3>1. i \in 1 .. n /\ i <= d BY <1>4, <1>11, <1>13
    <3> QED BY <1>12, <1>14, <3>1
  <2>2. ASSUME NEW i \in d + 1 .. n
        PROVE  /\ uplink'[i].type = "put" /\ uplink'[i].path = writes[k + (i - d)].path
               /\ uplink'[i].value = writes[k + (i - d)].value
    <3>1. i \in 1 .. n /\ ~(i <= d) /\ i - d \in 1 .. l - k BY <1>4, <1>11, <1>13
    <3> QED BY <1>9, <1>14, <3>1
  <2> QED BY <2>1, <2>2
<1>16. listening <=> ListenSent'
  <2>1. CASE listening
    <3>1. 1 \in 1 .. d /\ 1 \in 1 .. n BY <1>4, <1>11, <1>13, <2>1
    <3>2. 1 \in DOMAIN uplink' BY <1>14, <3>1
    <3> QED BY <1>15, <2>1, <3>1, <3>2 DEF ListenSent
  <2>2. CASE ~listening
    <3>1. \A i \in DOMAIN uplink' : i \in d + 1 .. n BY <1>11, <1>14, <2>2
    <3>2. \A i \in DOMAIN uplink' : uplink'[i].type = "put" BY <1>15, <3>1
    <3> QED BY <2>2, <3>2 DEF ListenSent
  <2> QED BY <2>1, <2>2
<1> DEFINE v == [i \in 0 .. n |-> IF i <= d THEN k ELSE k + (i - d)]
<1>17. v \in [0 .. n -> Nat]
  <2>1. \A i \in 0 .. n : ~(i <= d) => k + (i - d) \in Nat BY <1>11
  <2> QED BY <2>1
<1>18. Counts(v, uplink', "put")
  <2>1. ASSUME NEW i \in 1 .. n
        PROVE  v[i] = v[i - 1] + (IF uplink'[i].type = "put" THEN 1 ELSE 0)
    <3>1. i \in 0 .. n /\ i - 1 \in 0 .. n OBVIOUS
    <3>2. CASE i <= d
      <4>1. i \in 1 .. d /\ i - 1 <= d BY <1>11, <3>2
      <4>2. uplink'[i].type # "put" BY <1>15, <4>1
      <4> QED BY <3>1, <3>2, <4>1, <4>2
    <3>3. CASE ~(i <= d)
      <4>1. i \in d + 1 .. n BY <1>11, <3>3
      <4>2. uplink'[i].type = "put" BY <1>15, <4>1
      <4>3. v[i] = k + (i - d) BY <3>1, <3>3
      <4>4. v[i - 1] = k + ((i - 1) - d)
        <5>1. CASE i - 1 <= d
          <6>1. i - 1 = d BY <1>11, <3>3, <5>1
          <6> QED BY <1>11, <3>1, <5>1, <6>1
        <5>2. CASE ~(i - 1 <= d) BY <3>1, <5>2
        <5> QED BY <5>1, <5>2
      <4>5. k + (i - d) = (k + ((i - 1) - d)) + 1 BY <1>11
      <4> QED BY <4>2, <4>3, <4>4, <4>5
    <3> QED BY <3>2, <3>3
  <2>2. ASSUME NEW i \in 0 .. n, NEW j \in i .. n PROVE v[i] <= v[j]
    <3>1. j \in 0 .. n OBVIOUS
    <3>2. CASE j <= d
      <4>1. i <= d BY <1>11, <3>2
      <4> QED BY <3>1, <3>2, <4>1
    <3>3. CASE ~(j <= d) /\ i <= d
      <4>1. k <= k + (j - d) BY <1>11, <3>3
      <4> QED BY <3>1, <3>3, <4>1
    <3>4. CASE ~(j <= d) /\ ~(i <= d)
      <4>1. k + (i - d) <= k + (j - d) BY <1>11
      <4> QED BY <3>1, <3>4, <4>1
    <3> QED BY <3>2, <3>3, <3>4
  <2> HIDE DEF v
  <2> QED BY <1>14, <1>17, <2>1, <2>2 DEF Counts
<1>19. v[0] = k
  <2>1. 0 \in 0 .. n /\ 0 <= d BY <1>11
  <2> QED BY <2>1
<1>20. v[n] = l
  <2>1. n \in 0 .. n OBVIOUS
  <2>2. CASE n <= d
    <3>1. k = l BY <1>4, <1>11, <1>13, <2>2
    <3> QED BY <2>1, <2>2, <3>1
  <2>3. CASE ~(n <= d)
    <3>1. k + (n - d) = l BY <1>4, <1>11, <1>13
    <3> QED BY <2>1, <2>3, <3>1
  <2> QED BY <2>2, <2>3
<1>21. ASSUME NEW i \in DOMAIN uplink', uplink'[i].type = "put"
       PROVE  writes[v[i]].path = uplink'[i].path /\ writes[v[i]].value = uplink'[i].value
  <2>1. i \in 1 .. n BY <1>14
  <2>2. ~(i <= d)
    <3>1. i <= d => i \in 1 .. d BY <1>11, <2>1
    <3> QED BY <1>15, <1>21, <3>1
  <2>3. i \in d + 1 .. n /\ i \in 0 .. n BY <1>11, <2>1, <2>2
  <2>4. v[i] = k + (i - d) BY <2>2, <2>3
  <2> HIDE DEF v
  <2> QED BY <1>15, <2>3, <2>4
<1> HIDE DEF v
<1>22. Pipe(a, v)'
  <2>1. a[Len(downlink')] = k /\ Counts(a, downlink', "answer")
    <3>1. Len(downlink) = 0 BY <1>2
    <3> QED BY <1>1, <1>3, <3>1 DEF Pipe
  <2>2. v[Len(uplink')] = Len(writes') /\ v[Len(uplink')] <= Len(writes')
    BY <1>1, <1>4, <1>14, <1>20
  <2>3. \A i \in DOMAIN writes' : writes'[i].status = "out" <=> i > a[0]
    BY <1>1, <1>3, <1>5
  <2> QED BY <1>1, <1>18, <1>19, <1>21, <2>1, <2>2, <2>3 DEF Pipe
<1> QED BY <1>2, <1>14, <1>16, <1>22

-----------------------------------------------------------------------------
(* The server's steps take a message off one queue and put some on the other. *)

LEMMA UplinkPopped ==
    ASSUME TypeOK, NEW a, NEW u, Pipe(a, u), uplink # <<>>, uplink' = Tail(uplink),
           UNCHANGED <<writes, connected>>
    PROVE  \E v : /\ Counts(v, uplink', "put")
                  /\ v[0] = u[0] + (IF Head(uplink).type = "put" THEN 1 ELSE 0)
                  /\ v[Len(uplink')] <= Len(writes)
                  /\ connected => v[Len(uplink')] = Len(writes)
                  /\ \A i \in DOMAIN uplink' : uplink'[i].type = "put" =>
                        /\ writes[v[i]].path = uplink'[i].path
                        /\ writes[v[i]].value = uplink'[i].value
<1>1. uplink \in Seq(Uplink) BY DEF TypeOK
<1>2. PICK n \in Nat \ {0} : n = Len(uplink) BY <1>1, TailShape
<1>3. /\ uplink' \in Seq(Uplink) /\ Len(uplink') = n - 1 /\ Head(uplink) = uplink[1]
      /\ \A i \in 1 .. n - 1 : uplink'[i] = uplink[i + 1]
  BY <1>1, <1>2, TailShape
<1>4. Counts(u, uplink, "put") BY DEF Pipe
<1>5. PICK v : /\ Counts(v, Tail(uplink), "put")
               /\ \A i \in 0 .. Len(uplink) - 1 : v[i] = u[i + 1]
  BY <1>1, <1>4, CountsTail
<1>6. v[0] = u[0] + (IF Head(uplink).type = "put" THEN 1 ELSE 0)
  <2>1. 0 \in 0 .. n - 1 /\ 1 \in 1 .. n /\ 0 + 1 = 1 /\ 1 - 1 = 0 BY <1>2
  <2>2. v[0] = u[1] BY <1>2, <1>5, <2>1
  <2>3. u[1] = u[1 - 1] + (IF uplink[1].type = "put" THEN 1 ELSE 0)
    BY <1>2, <1>4, <2>1 DEF Counts
  <2> QED BY <1>3, <2>1, <2>2, <2>3
<1>7. v[n - 1] = u[n]
  <2>1. n - 1 \in 0 .. n - 1 /\ (n - 1) + 1 = n BY <1>2
  <2> QED BY <1>2, <1>5, <2>1
<1>8. u[n] <= Len(writes) /\ (connected => u[n] = Len(writes)) BY <1>2 DEF Pipe
<1>9. ASSUME NEW i \in DOMAIN uplink', uplink'[i].type = "put"
      PROVE  writes[v[i]].path = uplink'[i].path /\ writes[v[i]].value = uplink'[i].value
  <2>1. i \in 1 .. n - 1 BY <1>3
  <2>2. i \in 0 .. n - 1 /\ i + 1 \in DOMAIN uplink BY <1>1, <1>2, <2>1
  <2>3. v[i] = u[i + 1] /\ uplink'[i] = uplink[i + 1] BY <1>2, <1>3, <1>5, <2>1, <2>2
  <2> QED BY <1>9, <2>2, <2>3 DEF Pipe
<1> QED BY <1>3, <1>5, <1>6, <1>7, <1>8, <1>9

LEMMA AppendTwo ==
    ASSUME NEW S, NEW s \in Seq(S), NEW e \in S, NEW f \in S
    PROVE  /\ s \o <<e, f>> \in Seq(S) /\ Len(s \o <<e, f>>) = Len(s) + 2
           /\ s \o <<e, f>> = Append(Append(s, e), f)
           /\ s \o <<e>> \o <<f>> = Append(Append(s, e), f)
           /\ \A i \in 1 .. Len(s) : (s \o <<e, f>>)[i] = s[i]
           /\ (s \o <<e, f>>)[Len(s) + 1] = e /\ (s \o <<e, f>>)[Len(s) + 2] = f
<1>1. PICK n \in Nat : n = Len(s) OBVIOUS
<1>2. <<e, f>> \in Seq(S) /\ Len(<<e, f>>) = 2 OBVIOUS
<1>3. PICK t : t = s \o <<e, f>> OBVIOUS
<1>4. /\ t \in Seq(S) /\ Len(t) = n + 2
      /\ \A i \in 1 .. n + 2 : t[i] = IF i <= n THEN s[i] ELSE <<e, f>>[i - n]
  BY <1>1, <1>2, <1>3, ConcatProperties
<1>5. (\A i \in 1 .. n : t[i] = s[i]) /\ t[n + 1] = e /\ t[n + 2] = f
  <2>1. n + 1 \in 1 .. n + 2 /\ ~(n + 1 <= n) /\ (n + 1) - n = 1 BY <1>1
  <2>2. n + 2 \in 1 .. n + 2 /\ ~(n + 2 <= n) /\ (n + 2) - n = 2 BY <1>1
  <2>3. \A i \in 1 .. n : i \in 1 .. n + 2 /\ i <= n BY <1>1
  <2>4. t[n + 1] = <<e, f>>[1] BY <1>4, <2>1
  <2>5. t[n + 2] = <<e, f>>[2] BY <1>4, <2>2
  <2> QED BY <1>4, <2>3, <2>4, <2>5
<1>6. PICK q : q = Append(s, e) OBVIOUS
<1>7. /\ q \in Seq(S) /\ Len(q) = n + 1 /\ q[n + 1] = e
      /\ \A i \in 1 .. n : q[i] = s[i]
  BY <1>1, <1>6, AppendShape
<1>8. PICK r : r = Append(q, f) OBVIOUS
<1>9. /\ r \in Seq(S) /\ Len(r) = n + 2 /\ r[n + 2] = f
      /\ \A i \in 1 .. n + 1 : r[i] = q[i]
  <2>1. Len(q) + 1 = n + 2 BY <1>7
  <2> QED BY <1>7, <1>8, <2>1, AppendShape
<1>10. t = r
  <2>1. ASSUME NEW i \in 1 .. n + 2 PROVE t[i] = r[i]
    <3>1. CASE i \in 1 .. n BY <1>1, <1>5, <1>7, <1>9, <3>1
    <3>2. CASE i = n + 1
      <4>1. n + 1 \in 1 .. n + 1 BY <1>1
      <4> QED BY <1>5, <1>7, <1>9, <3>2, <4>1
    <3>3. CASE i = n + 2 BY <1>5, <1>9, <3>3
    <3> QED BY <1>1, <3>1, <3>2, <3>3
  <2> QED BY <1>4, <1>9, <2>1, SeqEqual
<1>11. s \o <<e>> \o <<f>> = r
  <2>1. s \o <<e>> = q BY <1>6
  <2>2. q \o <<f>> = r BY <1>7, <1>8
  <2> QED BY <2>1, <2>2
<1> QED BY <1>1, <1>3, <1>4, <1>5, <1>6, <1>8, <1>10, <1>11

\* Two more messages.
LEMMA CountsAppendTwo ==
    ASSUME NEW S, NEW s \in Seq(S), NEW e \in S, NEW f \in S, NEW type, NEW c,
           Counts(c, s, type), e.type # type
    PROVE  \E d : /\ Counts(d, s \o <<e, f>>, type)
                  /\ \A i \in 0 .. Len(s) : d[i] = c[i]
                  /\ d[Len(s) + 1] = c[Len(s)]
                  /\ d[Len(s) + 2] = c[Len(s)] + (IF f.type = type THEN 1 ELSE 0)
<1>1. PICK n \in Nat : n = Len(s) OBVIOUS
<1>2. c[n] \in Nat BY <1>1 DEF Counts
<1>3. PICK b : /\ Counts(b, Append(s, e), type)
               /\ \A i \in 0 .. Len(s) : b[i] = c[i]
               /\ b[Len(s) + 1] = c[Len(s)] + (IF e.type = type THEN 1 ELSE 0)
  BY CountsAppend
<1>4. PICK q \in Seq(S) : q = Append(s, e) /\ Len(q) = n + 1 BY <1>1, AppendShape
<1>5. PICK d : /\ Counts(d, Append(q, f), type)
               /\ \A i \in 0 .. Len(q) : d[i] = b[i]
               /\ d[Len(q) + 1] = b[Len(q)] + (IF f.type = type THEN 1 ELSE 0)
  <2>1. Counts(b, q, type) BY <1>3, <1>4
  <2> QED BY <2>1, CountsAppend
<1>6. Append(q, f) = s \o <<e, f>> BY <1>4, AppendTwo
<1>7. b[n + 1] = c[n] BY <1>1, <1>2, <1>3
<1>8. \A i \in 0 .. n : i \in 0 .. n + 1 BY <1>1
<1>9. n + 1 \in 0 .. n + 1 /\ (n + 1) + 1 = n + 2 BY <1>1
<1> QED BY <1>1, <1>3, <1>4, <1>5, <1>6, <1>7, <1>8, <1>9

LEMMA PipeServeListen ==
    ASSUME TypeOK, NEW a, NEW u, Pipe(a, u), ServeListen
    PROVE  \E b, v : /\ Pipe(b, v)'
                     /\ \A i \in 0 .. Len(downlink) : b[i] = a[i]
                     /\ b[Len(downlink) + 1] = a[Len(downlink)]
                     /\ b[Len(downlink) + 2] = a[Len(downlink)]
<1>1. /\ uplink # <<>> /\ Head(uplink) = Listen /\ uplink' = Tail(uplink)
      /\ downlink' = downlink \o <<Snapshot, ListenResponse>>
      /\ UNCHANGED <<writes, connected>>
  BY DEF ServeListen, client
<1>2. PICK n \in Nat : n = Len(downlink) BY DEF TypeOK
<1>3. PICK e \in Downlink : e = Snapshot /\ e.type = "snapshot" BY SnapshotType DEF TypeOK
<1>4. PICK f \in Downlink : f = ListenResponse /\ f.type = "listened" BY MessageTypes
<1>5. downlink \in Seq(Downlink) /\ Counts(a, downlink, "answer") /\ a[n] \in Nat
  BY <1>2, PipeBounds DEF TypeOK, Pipe
<1>6. PICK b : /\ Counts(b, downlink \o <<e, f>>, "answer")
               /\ \A i \in 0 .. Len(downlink) : b[i] = a[i]
               /\ b[Len(downlink) + 1] = a[Len(downlink)]
               /\ b[Len(downlink) + 2] = a[Len(downlink)] + (IF f.type = "answer" THEN 1 ELSE 0)
  BY <1>3, <1>5, CountsAppendTwo
<1>7. b[n + 2] = a[n] /\ b[n + 1] = a[n] /\ b[0] = a[0] BY <1>2, <1>4, <1>5, <1>6
<1>8. downlink' = downlink \o <<e, f>> BY <1>1, <1>3, <1>4
<1>9. Len(downlink') = n + 2 BY <1>2, <1>5, <1>8, AppendTwo
<1>10. PICK v : /\ Counts(v, uplink', "put")
                /\ v[0] = u[0] + (IF Head(uplink).type = "put" THEN 1 ELSE 0)
                /\ v[Len(uplink')] <= Len(writes)
                /\ connected => v[Len(uplink')] = Len(writes)
                /\ \A i \in DOMAIN uplink' : uplink'[i].type = "put" =>
                      /\ writes[v[i]].path = uplink'[i].path
                      /\ writes[v[i]].value = uplink'[i].value
  BY <1>1, UplinkPopped
<1>11. v[0] = u[0]
  <2>1. Head(uplink).type = "listen" BY <1>1, MessageTypes
  <2>2. u[0] \in Nat BY PipeBounds
  <2> QED BY <1>10, <2>1, <2>2
<1>12. u[0] = a[n] /\ \A i \in DOMAIN writes : writes[i].status = "out" <=> i > a[0]
  BY <1>2 DEF Pipe
<1>13. v[0] = b[Len(downlink')] BY <1>7, <1>9, <1>11, <1>12
<1>14. Pipe(b, v)' BY <1>1, <1>6, <1>7, <1>8, <1>10, <1>12, <1>13 DEF Pipe
<1> QED BY <1>2, <1>6, <1>7, <1>14

\* The answer to a put, behind the update it caused when updates are served.
LEMMA PutServed ==
    ASSUME TypeOK, saved' \in [Path -> Content], ServePut
    PROVE  \/ /\ served /\ Head(uplink).path \in Listened
              /\ downlink' = downlink \o <<DataMessage(Head(uplink).path), PutResponse("ok")>>
           \/ /\ ~(served /\ Head(uplink).path \in Listened)
              /\ downlink' = Append(downlink, PutResponse("ok"))
<1> DEFINE path == Head(uplink).path
<1>1. downlink' = downlink \o Update(path) \o <<PutResponse("ok")>> BY DEF ServePut
<1>2. downlink \in Seq(Downlink) BY DEF TypeOK
<1>3. PutResponse("ok") \in Downlink BY MessageTypes
<1> HIDE DEF path
<1>4. CASE served /\ path \in Listened
  <2>1. PICK e \in Downlink : e = DataMessage(path) BY <1>4, DataMessageType
  <2>2. Update(path) = <<e>> BY <1>4, <2>1 DEF Update
  <2>3. downlink' = downlink \o <<e, PutResponse("ok")>>
    BY <1>1, <1>2, <1>3, <2>1, <2>2, AppendTwo
  <2> QED BY <1>4, <2>1, <2>3 DEF path
<1>5. CASE ~(served /\ path \in Listened)
  <2>1. Update(path) = <<>> BY <1>5 DEF Update
  <2>2. downlink \o <<>> = downlink BY <1>2, ConcatEmptySeq
  <2>3. downlink' = downlink \o <<PutResponse("ok")>> BY <1>1, <2>1, <2>2
  <2>4. downlink' = Append(downlink, PutResponse("ok")) BY <1>2, <1>3, <2>3, AppendIsConcat
  <2> QED BY <1>5, <2>4 DEF path
<1> QED BY <1>4, <1>5

\* A put is served or refused: the answer is for the oldest write unanswered so
\* far, whose path and value the put has.
LEMMA PipeServePut ==
    ASSUME TypeOK, saved' \in [Path -> Content], NEW a, NEW u, Pipe(a, u),
           ServePut \/ RefusePut
    PROVE  \E b, v : /\ Pipe(b, v)'
                     /\ \A i \in 0 .. Len(downlink) : b[i] = a[i]
                     /\ Len(downlink') = Len(downlink) + 1 =>
                           b[Len(downlink) + 1] = a[Len(downlink)] + 1
                     /\ Len(downlink') = Len(downlink) + 2 =>
                           /\ b[Len(downlink) + 1] = a[Len(downlink)]
                           /\ b[Len(downlink) + 2] = a[Len(downlink)] + 1
                     /\ a[Len(downlink)] + 1 \in DOMAIN writes
                     /\ writes[a[Len(downlink)] + 1].path = Head(uplink).path
                     /\ writes[a[Len(downlink)] + 1].value = Head(uplink).value
<1>1. /\ uplink # <<>> /\ Head(uplink).type = "put" /\ uplink' = Tail(uplink)
      /\ UNCHANGED <<writes, connected>>
  BY DEF ServePut, RefusePut, client
<1>2. PICK n \in Nat : n = Len(downlink) BY DEF TypeOK
<1>3. downlink \in Seq(Downlink) /\ Counts(a, downlink, "answer") /\ a[n] \in Nat
  BY <1>2, PipeBounds DEF TypeOK, Pipe
<1>4. PICK v : /\ Counts(v, uplink', "put")
               /\ v[0] = u[0] + (IF Head(uplink).type = "put" THEN 1 ELSE 0)
               /\ v[Len(uplink')] <= Len(writes)
               /\ connected => v[Len(uplink')] = Len(writes)
               /\ \A i \in DOMAIN uplink' : uplink'[i].type = "put" =>
                     /\ writes[v[i]].path = uplink'[i].path
                     /\ writes[v[i]].value = uplink'[i].value
  BY <1>1, UplinkPopped
<1>5. u[0] = a[n] /\ \A i \in DOMAIN writes : writes[i].status = "out" <=> i > a[0]
  BY <1>2 DEF Pipe
<1>6. v[0] = a[n] + 1
  <2>1. v[0] = u[0] + 1 BY <1>1, <1>4
  <2> QED BY <1>5, <2>1
<1>7. /\ a[n] + 1 \in DOMAIN writes
      /\ writes[a[n] + 1].path = Head(uplink).path
      /\ writes[a[n] + 1].value = Head(uplink).value
  <2>1. uplink \in Seq(Uplink) /\ writes \in Seq(Write) BY DEF TypeOK
  <2>2. Head(uplink) = uplink[1] /\ 1 \in DOMAIN uplink BY <1>1, <2>1
  <2>3. u[1] = u[1 - 1] + 1 /\ u[1] \in 1 .. Len(writes) BY <1>1, <2>2, PutLabel
  <2>4. u[1] = a[n] + 1 BY <1>5, <2>3
  <2>5. writes[u[1]].path = uplink[1].path /\ writes[u[1]].value = uplink[1].value
    BY <1>1, <2>2 DEF Pipe
  <2> QED BY <2>1, <2>2, <2>3, <2>4, <2>5
<1>8. ASSUME NEW b, Counts(b, downlink', "answer"), b[0] = a[0],
             b[Len(downlink')] = a[n] + 1
      PROVE  Pipe(b, v)'
  <2>1. v[0] = b[Len(downlink')] BY <1>6, <1>8
  <2>2. \A i \in DOMAIN writes : writes[i].status = "out" <=> i > b[0] BY <1>5, <1>8
  <2> QED BY <1>1, <1>4, <1>8, <2>1, <2>2 DEF Pipe
<1>9. ASSUME NEW f \in Downlink, f.type = "answer", downlink' = Append(downlink, f)
      PROVE  \E b : /\ Pipe(b, v)' /\ Len(downlink') = n + 1
                    /\ \A i \in 0 .. n : b[i] = a[i]
                    /\ b[n + 1] = a[n] + 1
  <2>1. PICK b : /\ Counts(b, Append(downlink, f), "answer")
                 /\ \A i \in 0 .. Len(downlink) : b[i] = a[i]
                 /\ b[Len(downlink) + 1]
                     = a[Len(downlink)] + (IF f.type = "answer" THEN 1 ELSE 0)
    BY <1>3, CountsAppend
  <2>2. Len(downlink') = n + 1 BY <1>2, <1>3, <1>9, AppendShape
  <2>3. b[n + 1] = a[n] + 1 /\ b[0] = a[0] BY <1>2, <1>9, <2>1
  <2>4. Pipe(b, v)' BY <1>8, <1>9, <2>1, <2>2, <2>3
  <2> QED BY <1>2, <2>1, <2>2, <2>3, <2>4
<1>10. ASSUME NEW e \in Downlink, NEW f \in Downlink, e.type = "data", f.type = "answer",
              downlink' = downlink \o <<e, f>>
       PROVE  \E b : /\ Pipe(b, v)' /\ Len(downlink') = n + 2
                     /\ \A i \in 0 .. n : b[i] = a[i]
                     /\ b[n + 1] = a[n] /\ b[n + 2] = a[n] + 1
  <2>1. PICK b : /\ Counts(b, downlink \o <<e, f>>, "answer")
                 /\ \A i \in 0 .. Len(downlink) : b[i] = a[i]
                 /\ b[Len(downlink) + 1] = a[Len(downlink)]
                 /\ b[Len(downlink) + 2]
                     = a[Len(downlink)] + (IF f.type = "answer" THEN 1 ELSE 0)
    BY <1>3, <1>10, CountsAppendTwo
  <2>2. Len(downlink') = n + 2 BY <1>2, <1>3, <1>10, AppendTwo
  <2>3. b[n + 2] = a[n] + 1 /\ b[n + 1] = a[n] /\ b[0] = a[0] BY <1>2, <1>10, <2>1
  <2>4. Pipe(b, v)' BY <1>8, <1>10, <2>1, <2>2, <2>3
  <2> QED BY <1>2, <2>1, <2>2, <2>3, <2>4
<1>11. CASE RefusePut
  <2>1. downlink' = Append(downlink, PutResponse("refused")) BY <1>11 DEF RefusePut
  <2>2. PutResponse("refused") \in Downlink /\ PutResponse("refused").type = "answer"
    BY MessageTypes
  <2>3. PICK b : /\ Pipe(b, v)' /\ Len(downlink') = n + 1
                 /\ \A i \in 0 .. n : b[i] = a[i]
                 /\ b[n + 1] = a[n] + 1
    BY <1>9, <2>1, <2>2
  <2>4. n + 1 # n + 2 OBVIOUS
  <2> QED BY <1>2, <1>7, <2>3, <2>4
<1>12. CASE ServePut
  <2>1. PutResponse("ok") \in Downlink /\ PutResponse("ok").type = "answer"
    BY MessageTypes
  <2>2. CASE downlink' = Append(downlink, PutResponse("ok"))
    <3>1. PICK b : /\ Pipe(b, v)' /\ Len(downlink') = n + 1
                   /\ \A i \in 0 .. n : b[i] = a[i]
                   /\ b[n + 1] = a[n] + 1
      BY <1>9, <2>1, <2>2
    <3>2. n + 1 # n + 2 OBVIOUS
    <3> QED BY <1>2, <1>7, <3>1, <3>2
  <2>3. CASE /\ Head(uplink).path \in Listened
             /\ downlink' = downlink \o <<DataMessage(Head(uplink).path), PutResponse("ok")>>
    <3>1. PICK e \in Downlink : e = DataMessage(Head(uplink).path) /\ e.type = "data"
      BY <2>3, DataMessageType
    <3>2. PICK b : /\ Pipe(b, v)' /\ Len(downlink') = n + 2
                   /\ \A i \in 0 .. n : b[i] = a[i]
                   /\ b[n + 1] = a[n] /\ b[n + 2] = a[n] + 1
      BY <1>10, <2>1, <2>3, <3>1
    <3>3. n + 1 # n + 2 OBVIOUS
    <3> QED BY <1>2, <1>7, <3>2, <3>3
  <2> QED BY <1>12, <2>2, <2>3, PutServed
<1> QED BY <1>11, <1>12

\* Another installation's update is no answer.
LEMMA PipeForeignWrite ==
    ASSUME TypeOK, saved' \in [Path -> Content], NEW a, NEW u, Pipe(a, u),
           NEW path \in Path, NEW value \in Content, ForeignWrite(path, value)
    PROVE  \E b : /\ Pipe(b, u)'
                  /\ \A i \in 0 .. Len(downlink) : b[i] = a[i]
                  /\ Len(downlink') = Len(downlink) + 1 =>
                        b[Len(downlink) + 1] = a[Len(downlink)]
                  /\ \/ /\ served /\ path \in Listened
                        /\ downlink' = Append(downlink, DataMessage(path))
                     \/ /\ ~(served /\ path \in Listened) /\ downlink' = downlink
<1>1. /\ downlink' = downlink \o Update(path)
      /\ UNCHANGED <<uplink, writes, connected>>
  BY DEF ForeignWrite, client
<1>2. PICK n \in Nat : n = Len(downlink) BY DEF TypeOK
<1>3. downlink \in Seq(Downlink) /\ Counts(a, downlink, "answer") /\ a[n] \in Nat
  BY <1>2, PipeBounds DEF TypeOK, Pipe
<1>4. CASE ~(served /\ path \in Listened)
  <2>1. Update(path) = <<>> BY <1>4 DEF Update
  <2>2. downlink' = downlink BY <1>1, <1>3, <2>1, ConcatEmptySeq
  <2>3. Pipe(a, u)' BY <1>1, <2>2 DEF Pipe
  <2>4. Len(downlink') # Len(downlink) + 1 BY <1>2, <2>2
  <2> QED BY <1>4, <2>2, <2>3, <2>4
<1>5. CASE served /\ path \in Listened
  <2>1. PICK e \in Downlink : e = DataMessage(path) /\ e.type = "data"
    BY <1>5, DataMessageType
  <2>2. Update(path) = <<e>> BY <1>5, <2>1 DEF Update
  <2>3. downlink' = Append(downlink, e) BY <1>1, <1>3, <2>2, AppendIsConcat
  <2>4. PICK b : /\ Counts(b, Append(downlink, e), "answer")
                 /\ \A i \in 0 .. Len(downlink) : b[i] = a[i]
                 /\ b[Len(downlink) + 1]
                     = a[Len(downlink)] + (IF e.type = "answer" THEN 1 ELSE 0)
    BY <1>3, CountsAppend
  <2>5. Len(downlink') = n + 1 BY <1>2, <1>3, <2>3, AppendShape
  <2>6. b[n + 1] = a[n] /\ b[0] = a[0] BY <1>2, <1>3, <2>1, <2>4
  <2>7. Pipe(b, u)'
    <3>1. u[0] = b[Len(downlink')] BY <1>2, <2>5, <2>6 DEF Pipe
    <3> QED BY <1>1, <2>3, <2>4, <2>6, <3>1 DEF Pipe
  <2> QED BY <1>2, <1>5, <2>1, <2>3, <2>4, <2>6, <2>7
<1> QED BY <1>4, <1>5

-----------------------------------------------------------------------------
(* The client's steps take a message off its queue.                         *)

LEMMA FirstRemoved ==
    ASSUME NEW S, NEW s \in Seq(S), s # <<>>
    PROVE  RemoveAt(s, 1) = Tail(s)
<1>1. Len(s) \in Nat /\ Len(s) >= 1 OBVIOUS
<1>2. SubSeq(s, 1, 0) = <<>> BY SubSeqEmpty
<1>3. Tail(s) = SubSeq(s, 2, Len(s)) BY TailIsSubSeq
<1>4. Tail(s) \in Seq(S) OBVIOUS
<1>5. <<>> \o Tail(s) = Tail(s) BY <1>4, ConcatEmptySeq
<1> QED BY <1>2, <1>3, <1>5 DEF RemoveAt

LEMMA DownlinkPopped ==
    ASSUME TypeOK, NEW a, NEW u, Pipe(a, u), downlink # <<>>, downlink' = Tail(downlink)
    PROVE  \E b : /\ Counts(b, downlink', "answer")
                  /\ b[0] = a[0] + (IF Head(downlink).type = "answer" THEN 1 ELSE 0)
                  /\ b[Len(downlink')] = u[0]
                  /\ \A i \in 0 .. Len(downlink) - 1 : b[i] = a[i + 1]
<1>1. downlink \in Seq(Downlink) BY DEF TypeOK
<1>2. PICK n \in Nat \ {0} : n = Len(downlink) BY <1>1, TailShape
<1>3. Len(downlink') = n - 1 /\ Head(downlink) = downlink[1] BY <1>1, <1>2, TailShape
<1>4. Counts(a, downlink, "answer") /\ u[0] = a[n] BY <1>2 DEF Pipe
<1>5. PICK b : /\ Counts(b, Tail(downlink), "answer")
               /\ \A i \in 0 .. Len(downlink) - 1 : b[i] = a[i + 1]
  BY <1>1, <1>4, CountsTail
<1>6. b[0] = a[0] + (IF Head(downlink).type = "answer" THEN 1 ELSE 0)
  <2>1. 0 \in 0 .. n - 1 /\ 1 \in 1 .. n /\ 0 + 1 = 1 /\ 1 - 1 = 0 BY <1>2
  <2>2. b[0] = a[1] BY <1>2, <1>5, <2>1
  <2>3. a[1] = a[1 - 1] + (IF downlink[1].type = "answer" THEN 1 ELSE 0)
    BY <1>2, <1>4, <2>1 DEF Counts
  <2> QED BY <1>3, <2>1, <2>2, <2>3
<1>7. b[n - 1] = a[n]
  <2>1. n - 1 \in 0 .. n - 1 /\ (n - 1) + 1 = n BY <1>2
  <2> QED BY <1>2, <1>5, <2>1
<1> QED BY <1>3, <1>4, <1>5, <1>6, <1>7

LEMMA PipeReadsData ==
    ASSUME TypeOK, NEW a, NEW u, Pipe(a, u), ReceiveSnapshot \/ ReceiveData
    PROVE  \E b : /\ Pipe(b, u)' /\ b[0] = a[0]
                  /\ \A i \in 0 .. Len(downlink) - 1 : b[i] = a[i + 1]
<1>1. /\ downlink # <<>> /\ Head(downlink).type # "answer" /\ downlink' = Tail(downlink)
      /\ UNCHANGED <<uplink, writes, connected>>
  BY DEF ReceiveSnapshot, ReceiveData, Reads
<1>2. PICK b : /\ Counts(b, downlink', "answer")
               /\ b[0] = a[0] + (IF Head(downlink).type = "answer" THEN 1 ELSE 0)
               /\ b[Len(downlink')] = u[0]
               /\ \A i \in 0 .. Len(downlink) - 1 : b[i] = a[i + 1]
  BY <1>1, DownlinkPopped
<1>3. b[0] = a[0]
  <2>1. a[0] \in Nat BY PipeBounds
  <2> QED BY <1>1, <1>2, <2>1
<1>4. Pipe(b, u)' BY <1>1, <1>2, <1>3 DEF Pipe
<1> QED BY <1>2, <1>3, <1>4

\* The write tree loses its first k writes, the answered ones.
Dropping(b, u, k) ==
    /\ k \in 0 .. Len(writes) /\ k <= b[0] /\ k <= u[0]
    /\ Counts(b, downlink', "answer") /\ Counts(u, uplink, "put")
    /\ downlink' \in Seq(Downlink)
    /\ b[Len(downlink')] = u[0] /\ u[Len(uplink)] = Len(writes)
    /\ writes' \in Seq(Write) /\ Len(writes') = Len(writes) - k
    /\ \A i \in 1 .. Len(writes) - k : writes'[i] = writes[k + i]
    /\ \A i \in 1 .. Len(writes') : writes'[i].status = "out" <=> i > b[0] - k
    /\ \A i \in DOMAIN uplink : uplink[i].type = "put" =>
          /\ u[i] \in 1 .. Len(writes) /\ u[i] > u[0]
          /\ writes[u[i]].path = uplink[i].path /\ writes[u[i]].value = uplink[i].value
    /\ UNCHANGED <<uplink, connected>>

LEMMA PipeDropsAnswered ==
    ASSUME TypeOK, NEW b, NEW u, NEW k, Dropping(b, u, k)
    PROVE  \E c, v : /\ Pipe(c, v)'
                     /\ \A i \in 0 .. Len(downlink') : c[i] = b[i] - k
<1> USE DEF Dropping
<1>1. PICK n \in Nat : n = Len(downlink') OBVIOUS
<1>2. PICK m \in Nat : m = Len(uplink) BY DEF TypeOK
<1>3. PICK l \in Nat : l = Len(writes) BY DEF TypeOK
<1>4. PICK c : Counts(c, downlink', "answer") /\ \A i \in 0 .. Len(downlink') : c[i] = b[i] - k
  BY CountsShift
<1>5. uplink \in Seq(Uplink) BY DEF TypeOK
<1>6. PICK v : Counts(v, uplink, "put") /\ \A i \in 0 .. Len(uplink) : v[i] = u[i] - k
  BY <1>5, CountsShift
<1>7. v[0] = c[n]
  <2>1. 0 \in 0 .. m /\ n \in 0 .. n BY <1>1, <1>2
  <2>2. v[0] = u[0] - k /\ c[n] = b[n] - k BY <1>1, <1>2, <1>4, <1>6, <2>1
  <2> QED BY <1>1, <2>2
<1>8. v[m] = l - k
  <2>1. m \in 0 .. m BY <1>2
  <2> QED BY <1>2, <1>3, <1>6, <2>1
<1>9. c[0] = b[0] - k
  <2>1. 0 \in 0 .. n BY <1>1
  <2> QED BY <1>1, <1>4, <2>1
<1>10. l - k \in Nat /\ Len(writes') = l - k BY <1>3
<1>11. ASSUME NEW i \in DOMAIN uplink, uplink[i].type = "put"
       PROVE  writes'[v[i]].path = uplink[i].path /\ writes'[v[i]].value = uplink[i].value
  <2>1. i \in 0 .. m BY <1>2, <1>5
  <2>2. PICK x \in 1 .. l : x = u[i] /\ x > u[0] BY <1>3, <1>11
  <2>3. u[0] \in Nat /\ k \in Nat BY <1>2, <1>3 DEF Counts
  <2>4. x - k \in 1 .. l - k /\ k + (x - k) = x BY <2>2, <2>3
  <2>5. v[i] = x - k BY <1>2, <1>6, <2>1, <2>2
  <2>6. writes'[x - k] = writes[k + (x - k)] BY <1>3, <2>4
  <2> QED BY <1>11, <2>2, <2>4, <2>5, <2>6
<1>12. Pipe(c, v)'
  <2>1. v[Len(uplink')] = Len(writes') /\ v[Len(uplink')] <= Len(writes')
    BY <1>2, <1>8, <1>10
  <2>2. \A i \in DOMAIN writes' : writes'[i].status = "out" <=> i > c[0] BY <1>9
  <2> QED BY <1>1, <1>4, <1>6, <1>7, <1>11, <2>1, <2>2 DEF Pipe
<1> QED BY <1>4, <1>12

\* The listen is answered: no answered write is left in the tree.
LEMMA PipeListened ==
    ASSUME TypeOK, Wire, NEW a, NEW u, Pipe(a, u), ReceiveListenResponse
    PROVE  \E c, v : /\ Pipe(c, v)'
                     /\ \A i \in 0 .. Len(downlink) - 1 : c[i] = a[i + 1] - a[0]
                     /\ c[0] = 0 /\ a[1] = a[0]
                     /\ writes' \in Seq(Write) /\ Len(writes') = Len(writes) - a[0]
                     /\ \A i \in 1 .. Len(writes) - a[0] : writes'[i] = writes[a[0] + i]
<1>1. /\ downlink # <<>> /\ Head(downlink).type = "listened" /\ downlink' = Tail(downlink)
      /\ writes' = Out /\ UNCHANGED <<uplink, connected>>
  BY DEF ReceiveListenResponse, Reads
<1>2. connected BY <1>1 DEF Wire
<1>3. PICK b : /\ Counts(b, downlink', "answer")
               /\ b[0] = a[0] + (IF Head(downlink).type = "answer" THEN 1 ELSE 0)
               /\ b[Len(downlink')] = u[0]
               /\ \A i \in 0 .. Len(downlink) - 1 : b[i] = a[i + 1]
  BY <1>1, DownlinkPopped
<1>4. PICK k \in 0 .. Len(writes) : k = a[0] BY PipeBounds
<1>5. PICK n \in Nat \ {0} : n = Len(downlink) BY <1>1, TailShape DEF TypeOK
<1>6. Len(downlink') = n - 1 /\ downlink' \in Seq(Downlink)
  BY <1>1, <1>5, TailShape DEF TypeOK
<1>7. b[0] = k BY <1>1, <1>3, <1>4
<1>8. \A i \in DOMAIN writes : writes[i].status = "out" <=> i > k BY <1>4 DEF Pipe
<1>9. writes \in Seq(Write) /\ Len(writes) \in Nat BY DEF TypeOK
<1>10. /\ writes' \in Seq(Write) /\ Len(writes') = Len(writes) - k
       /\ \A i \in 1 .. Len(writes) - k : writes'[i] = writes[k + i]
  BY <1>1, <1>8, <1>9, OutIs
<1>11. \A i \in 1 .. Len(writes') : writes'[i].status = "out" <=> i > b[0] - k
  <2> SUFFICES ASSUME NEW i \in 1 .. Len(writes) - k
               PROVE  writes'[i].status = "out" /\ i > b[0] - k
    BY <1>10
  <2>1. k + i \in DOMAIN writes /\ k + i > k BY <1>9
  <2>2. writes[k + i].status = "out" BY <1>8, <2>1
  <2>3. i > b[0] - k BY <1>7
  <2> QED BY <1>10, <2>2, <2>3
<1>12. /\ Counts(u, uplink, "put") /\ u[Len(uplink)] = Len(writes) /\ k <= u[0]
       /\ \A i \in DOMAIN uplink : uplink[i].type = "put" =>
              /\ u[i] \in 1 .. Len(writes) /\ u[i] > u[0]
              /\ writes[u[i]].path = uplink[i].path /\ writes[u[i]].value = uplink[i].value
  <2>1. k <= u[0]
    <3>1. 0 \in 0 .. n BY <1>5
    <3> QED BY <1>4, <1>5, <3>1, PipeBounds
  <2> QED BY <1>2, <2>1, PutLabel DEF Pipe
<1>13. k <= b[0] BY <1>7
<1>14. PICK c, v : /\ Pipe(c, v)'
                   /\ \A i \in 0 .. Len(downlink') : c[i] = b[i] - k
  <2>1. Dropping(b, u, k)
    BY <1>1, <1>3, <1>6, <1>10, <1>11, <1>12, <1>13 DEF Dropping
  <2> QED BY <2>1, PipeDropsAnswered
<1>15. ASSUME NEW i \in 0 .. n - 1 PROVE c[i] = a[i + 1] - k
  BY <1>3, <1>5, <1>6, <1>14
<1>16. 0 \in 0 .. n - 1 /\ 0 + 1 = 1 BY <1>5
<1>17. a[1] = k /\ c[0] = 0
  <2>1. b[0] = a[1] BY <1>3, <1>5, <1>16
  <2>2. c[0] = b[0] - k BY <1>6, <1>14, <1>16
  <2>3. k - k = 0 BY <1>9
  <2> QED BY <1>7, <2>1, <2>2, <2>3
<1> QED BY <1>4, <1>5, <1>10, <1>14, <1>15, <1>17

\* An answer to the oldest unanswered write, which there is.
LEMMA PipeAnswer ==
    ASSUME TypeOK, Wire, NEW a, NEW u, Pipe(a, u), ReceiveAnswer
    PROVE  /\ a[0] + 1 \in DOMAIN writes /\ a[1] = a[0] + 1
           /\ \/ /\ listenUnacked
                 /\ writes' = [writes EXCEPT ![a[0] + 1].status = Head(downlink).status]
                 /\ \E c : /\ Pipe(c, u)'
                           /\ \A i \in 0 .. Len(downlink) - 1 : c[i] = a[i + 1]
              \/ /\ ~listenUnacked /\ a[0] = 0
                 /\ writes # <<>> /\ writes' = Tail(writes)
                 /\ \E c, v : /\ Pipe(c, v)'
                              /\ \A i \in 0 .. Len(downlink) - 1 : c[i] = a[i + 1] - 1
<1> DEFINE first == SelectInSeq(writes, LAMBDA w : w.status = "out")
<1>1. /\ downlink # <<>> /\ Head(downlink).type = "answer" /\ downlink' = Tail(downlink)
      /\ writes' = IF listenUnacked
                   THEN [writes EXCEPT ![first].status = Head(downlink).status]
                   ELSE RemoveAt(writes, first)
      /\ UNCHANGED <<uplink, connected>>
  BY DEF ReceiveAnswer, Reads
<1> HIDE DEF first
<1>2. connected BY <1>1 DEF Wire
<1>3. PICK b : /\ Counts(b, downlink', "answer")
               /\ b[0] = a[0] + (IF Head(downlink).type = "answer" THEN 1 ELSE 0)
               /\ b[Len(downlink')] = u[0]
               /\ \A i \in 0 .. Len(downlink) - 1 : b[i] = a[i + 1]
  BY <1>1, DownlinkPopped
<1>4. PICK k \in 0 .. Len(writes) : k = a[0] BY PipeBounds
<1>5. PICK n \in Nat \ {0} : n = Len(downlink) BY <1>1, TailShape DEF TypeOK
<1>6. /\ Len(downlink') = n - 1 /\ downlink' \in Seq(Downlink)
      /\ Head(downlink) \in Downlink
  BY <1>1, <1>5, TailShape DEF TypeOK
<1>7. writes \in Seq(Write) /\ Len(writes) \in Nat BY DEF TypeOK
<1>8. 1 \in 0 .. n /\ 0 \in 0 .. n - 1 /\ 0 + 1 = 1 BY <1>5
<1>9. b[0] = k + 1 /\ a[1] = k + 1
  <2>1. b[0] = k + 1 BY <1>1, <1>3, <1>4
  <2> QED BY <1>3, <1>5, <1>8, <2>1
<1>10. k + 1 <= Len(writes)
  <2>1. a[1] <= u[0] /\ u[0] <= Len(writes) /\ u[0] \in Nat /\ a[1] \in Nat
    BY <1>5, <1>8, PipeBounds
  <2> QED BY <1>7, <1>9, <2>1
<1>11. k \in 0 .. Len(writes) - 1 /\ k + 1 \in DOMAIN writes BY <1>4, <1>7, <1>10
<1>12. \A i \in DOMAIN writes : writes[i].status = "out" <=> i > k BY <1>4 DEF Pipe
<1>13. first = k + 1 BY <1>7, <1>11, <1>12, FirstOut DEF first
<1>14. CASE listenUnacked
  <2>1. writes' = [writes EXCEPT ![k + 1].status = Head(downlink).status]
    BY <1>1, <1>13, <1>14
  <2>2. Head(downlink).status # "out" BY <1>1, <1>6, DownlinkTypes
  <2>3. ASSUME NEW i \in DOMAIN writes
        PROVE  /\ writes'[i].path = writes[i].path /\ writes'[i].value = writes[i].value
               /\ writes'[i].status = "out" <=> i > k + 1
    <3>1. writes[i] \in Write BY <1>7
    <3>2. CASE i = k + 1
      <4>1. writes'[i] = [writes[i] EXCEPT !.status = Head(downlink).status]
        BY <1>7, <2>1, <3>2
      <4>2. /\ writes'[i].path = writes[i].path /\ writes'[i].value = writes[i].value
            /\ writes'[i].status = Head(downlink).status
        BY <3>1, <4>1 DEF Write
      <4> QED BY <1>4, <2>2, <3>2, <4>2
    <3>3. CASE i # k + 1
      <4>1. writes'[i] = writes[i] BY <1>7, <2>1, <3>3
      <4>2. i > k <=> i > k + 1 BY <1>4, <1>7, <3>3
      <4> QED BY <1>12, <4>1, <4>2
    <3> QED BY <3>2, <3>3
  <2>4. DOMAIN writes' = DOMAIN writes /\ Len(writes') = Len(writes) BY <1>7, <2>1
  <2>5. Pipe(b, u)'
    <3>1. /\ Counts(u, uplink, "put") /\ u[Len(uplink)] <= Len(writes)
          /\ u[Len(uplink)] = Len(writes)
      BY <1>2 DEF Pipe
    <3>2. ASSUME NEW i \in DOMAIN uplink, uplink[i].type = "put"
          PROVE  writes'[u[i]].path = uplink[i].path /\ writes'[u[i]].value = uplink[i].value
      <4>1. u[i] \in DOMAIN writes BY <1>7, <3>2, PutLabel
      <4>2. writes[u[i]].path = uplink[i].path /\ writes[u[i]].value = uplink[i].value
        BY <3>2 DEF Pipe
      <4> QED BY <2>3, <4>1, <4>2
    <3>3. \A i \in DOMAIN writes' : writes'[i].status = "out" <=> i > b[0]
      BY <1>9, <2>3, <2>4
    <3> QED BY <1>1, <1>3, <2>4, <3>1, <3>2, <3>3 DEF Pipe
  <2> QED BY <1>3, <1>4, <1>9, <1>11, <1>14, <2>1, <2>5
<1>15. CASE ~listenUnacked
  <2>1. k = 0
    <3>1. ASSUME k # 0 PROVE FALSE
      <4>1. 1 \in DOMAIN writes /\ ~(1 > k) BY <1>4, <1>11, <3>1
      <4>2. writes[1].status # "out" BY <1>12, <4>1
      <4> QED BY <1>2, <1>15, <4>1, <4>2 DEF Wire
    <3> QED BY <3>1
  <2>2. writes # <<>> BY <1>11
  <2>3. writes' = Tail(writes) BY <1>1, <1>7, <1>13, <1>15, <2>1, <2>2, FirstRemoved
  <2>4. PICK l \in Nat \ {0} : l = Len(writes) BY <1>7, <2>2, TailShape
  <2>5. /\ writes' \in Seq(Write) /\ Len(writes') = l - 1
        /\ \A i \in 1 .. l - 1 : writes'[i] = writes[i + 1]
    BY <1>7, <2>2, <2>3, <2>4, TailShape
  <2>6. \A i \in 1 .. l - 1 : writes'[i] = writes[1 + i]
    <3>1. \A i \in 1 .. l - 1 : 1 + i = i + 1 OBVIOUS
    <3> QED BY <2>5, <3>1
  <2>7. \A i \in 1 .. Len(writes') : writes'[i].status = "out" <=> i > b[0] - 1
    <3> SUFFICES ASSUME NEW i \in 1 .. l - 1
                 PROVE  writes'[i].status = "out" /\ i > b[0] - 1
      BY <2>5
    <3>1. i + 1 \in DOMAIN writes /\ i + 1 > k BY <1>7, <2>1, <2>4
    <3>2. writes[i + 1].status = "out" BY <1>12, <3>1
    <3>3. b[0] - 1 = 0 BY <1>9, <2>1
    <3> QED BY <2>5, <3>2, <3>3
  <2>8. /\ Counts(u, uplink, "put") /\ u[Len(uplink)] = Len(writes) /\ 1 <= u[0]
        /\ \A i \in DOMAIN uplink : uplink[i].type = "put" =>
              /\ u[i] \in 1 .. Len(writes) /\ u[i] > u[0]
              /\ writes[u[i]].path = uplink[i].path /\ writes[u[i]].value = uplink[i].value
    <3>1. a[1] <= u[0] BY <1>5, <1>8, PipeBounds
    <3>2. 1 <= u[0] BY <1>9, <2>1, <3>1
    <3> QED BY <1>2, <3>2, PutLabel DEF Pipe
  <2>9. 1 \in 0 .. Len(writes) /\ 1 <= b[0] BY <1>9, <2>1, <2>4
  <2>10. PICK c, v : /\ Pipe(c, v)'
                     /\ \A i \in 0 .. Len(downlink') : c[i] = b[i] - 1
    <3>1. Dropping(b, u, 1)
      BY <1>1, <1>3, <1>6, <2>4, <2>5, <2>6, <2>7, <2>8, <2>9 DEF Dropping
    <3> QED BY <3>1, PipeDropsAnswered
  <2>11. \A i \in 0 .. n - 1 : c[i] = a[i + 1] - 1 BY <1>3, <1>5, <1>6, <2>10
  <2> QED BY <1>4, <1>5, <1>9, <1>11, <1>15, <2>1, <2>2, <2>3, <2>10, <2>11
<1> QED BY <1>14, <1>15

-----------------------------------------------------------------------------
(* What the client will know.  A message speaks of a location or does not,  *)
(* and the last word on a location, on its way or heard, is the server's.   *)

Speaks(m, p) == m.type = "snapshot" \/ (m.type = "data" /\ m.path = p)
Says(m, p) == IF m.type = "snapshot" THEN m.data[p] ELSE m.value

SnapshotComes == \E q \in DOMAIN downlink : downlink[q].type = "snapshot"

LastWord(p) ==
    \/ \E q \in DOMAIN downlink :
          /\ Speaks(downlink[q], p) /\ Says(downlink[q], p) = saved[p]
          /\ \A r \in DOMAIN downlink : r > q => ~Speaks(downlink[r], p)
    \/ /\ \A q \in DOMAIN downlink : ~Speaks(downlink[q], p)
       /\ known # Unknown /\ known[p] = saved[p]

Heard ==
    /\ served => known # Unknown \/ SnapshotComes
    /\ \A q \in DOMAIN downlink : downlink[q].type = "data" =>
          known # Unknown \/ \E r \in 1 .. q - 1 : downlink[r].type = "snapshot"
    /\ served => \A p \in Listened : LastWord(p)

LEMMA HeardSame ==
    ASSUME Heard, UNCHANGED <<downlink, known, saved, served>>
    PROVE  Heard'
BY DEF Heard, LastWord, SnapshotComes

LEMMA HeardNothing ==
    ASSUME downlink' = <<>>, ~served'
    PROVE  Heard'
BY DEF Heard

\* The queue to the client has grown.
Grown ==
    /\ downlink' \in Seq(Downlink) /\ Len(downlink') >= Len(downlink)
    /\ \A i \in DOMAIN downlink : downlink'[i] = downlink[i]

\* Nothing more is said of a location, or a new last word.
NothingNew(p) ==
    /\ saved'[p] = saved[p] /\ served
    /\ \A q \in DOMAIN downlink' : q > Len(downlink) => ~Speaks(downlink'[q], p)

NewLastWord(p) ==
    \E q \in DOMAIN downlink' :
        /\ Speaks(downlink'[q], p) /\ Says(downlink'[q], p) = saved'[p]
        /\ \A r \in DOMAIN downlink' : r > q => ~Speaks(downlink'[r], p)

LEMMA HeardGrows ==
    ASSUME TypeOK, Heard, Grown, known' = known, served => served',
           served' => \A p \in Listened : NothingNew(p) \/ NewLastWord(p),
           \A q \in DOMAIN downlink' : q > Len(downlink) /\ downlink'[q].type = "data" => served,
           served' => served \/ \E q \in DOMAIN downlink' : downlink'[q].type = "snapshot"
    PROVE  Heard'
<1>1. PICK n \in Nat : n = Len(downlink) /\ DOMAIN downlink = 1 .. n BY DEF TypeOK
<1>2. PICK m \in Nat : m = Len(downlink') /\ DOMAIN downlink' = 1 .. m /\ n <= m
  BY <1>1 DEF Grown
<1>3. \A i \in 1 .. n : i \in 1 .. m /\ downlink'[i] = downlink[i]
  BY <1>1, <1>2 DEF Grown
<1>4. SnapshotComes => SnapshotComes'
  BY <1>1, <1>2, <1>3 DEF SnapshotComes
<1>5. served' => known' # Unknown \/ SnapshotComes'
  BY <1>4 DEF Heard, SnapshotComes
<1>6. ASSUME NEW q \in 1 .. m, downlink'[q].type = "data", known' = Unknown
      PROVE  \E r \in 1 .. q - 1 : downlink'[r].type = "snapshot"
  <2>1. CASE q \in 1 .. n
    <3>1. downlink[q].type = "data" BY <1>3, <1>6, <2>1
    <3>2. PICK r \in 1 .. q - 1 : downlink[r].type = "snapshot"
      BY <1>1, <1>6, <2>1, <3>1 DEF Heard
    <3>3. r \in 1 .. n BY <1>1, <2>1
    <3> QED BY <1>3, <3>2, <3>3
  <2>2. CASE q \notin 1 .. n
    <3>1. q > n /\ q \in DOMAIN downlink' BY <1>1, <1>2, <2>2
    <3>2. served BY <1>1, <1>6, <3>1
    <3>3. PICK r \in 1 .. n : downlink[r].type = "snapshot"
      BY <1>1, <1>6, <3>2 DEF Heard, SnapshotComes
    <3>4. r \in 1 .. q - 1 BY <1>1, <1>2, <3>1
    <3> QED BY <1>3, <3>3, <3>4
  <2> QED BY <2>1, <2>2
<1>7. ASSUME served', NEW p \in Listened PROVE LastWord(p)'
  <2>1. CASE NewLastWord(p) BY <2>1 DEF NewLastWord, LastWord
  <2>2. CASE NothingNew(p)
    <3>1. LastWord(p) BY <2>2 DEF Heard, NothingNew
    <3>2. CASE \E q \in DOMAIN downlink :
                  /\ Speaks(downlink[q], p) /\ Says(downlink[q], p) = saved[p]
                  /\ \A r \in DOMAIN downlink : r > q => ~Speaks(downlink[r], p)
      <4>1. PICK q \in 1 .. n :
                  /\ Speaks(downlink[q], p) /\ Says(downlink[q], p) = saved[p]
                  /\ \A r \in 1 .. n : r > q => ~Speaks(downlink[r], p)
        BY <1>1, <3>2
      <4>2. q \in 1 .. m /\ downlink'[q] = downlink[q] BY <1>3
      <4>3. ASSUME NEW r \in 1 .. m, r > q PROVE ~Speaks(downlink'[r], p)
        <5>1. CASE r \in 1 .. n BY <1>3, <4>1, <4>3, <5>1
        <5>2. CASE r \notin 1 .. n
          <6>1. r > n BY <1>1, <1>2, <5>2
          <6> QED BY <1>1, <1>2, <2>2, <6>1 DEF NothingNew
        <5> QED BY <5>1, <5>2
      <4>4. Says(downlink'[q], p) = saved'[p] BY <2>2, <4>1, <4>2 DEF NothingNew
      <4> QED BY <1>2, <4>1, <4>2, <4>3, <4>4 DEF LastWord
    <3>3. CASE /\ \A q \in DOMAIN downlink : ~Speaks(downlink[q], p)
               /\ known # Unknown /\ known[p] = saved[p]
      <4>1. ASSUME NEW r \in 1 .. m PROVE ~Speaks(downlink'[r], p)
        <5>1. CASE r \in 1 .. n BY <1>1, <1>3, <3>3, <5>1
        <5>2. CASE r \notin 1 .. n
          <6>1. r > n BY <1>1, <1>2, <5>2
          <6> QED BY <1>1, <1>2, <2>2, <6>1 DEF NothingNew
        <5> QED BY <5>1, <5>2
      <4> QED BY <1>2, <2>2, <3>3, <4>1 DEF NothingNew, LastWord
    <3> QED BY <3>1, <3>2, <3>3 DEF LastWord
  <2> QED BY <1>7, <2>1, <2>2
<1> QED BY <1>2, <1>5, <1>6, <1>7 DEF Heard

\* The client knows what it has read.
LEMMA HeardReads ==
    ASSUME TypeOK, Heard, downlink # <<>>, downlink' = Tail(downlink),
           UNCHANGED <<saved, served>>,
           known # Unknown => known' # Unknown,
           Head(downlink).type = "snapshot" => known' # Unknown,
           \A p \in Listened :
              IF Speaks(Head(downlink), p)
              THEN known' # Unknown /\ known'[p] = Says(Head(downlink), p)
              ELSE known # Unknown => known'[p] = known[p]
    PROVE  Heard'
<1>1. PICK n \in Nat \ {0} : n = Len(downlink) /\ DOMAIN downlink = 1 .. n
  BY TailShape DEF TypeOK
<1>2. /\ DOMAIN downlink' = 1 .. n - 1 /\ Head(downlink) = downlink[1]
      /\ \A i \in 1 .. n - 1 : downlink'[i] = downlink[i + 1]
  BY <1>1, TailShape DEF TypeOK
<1>3. \A i \in 1 .. n : i = 1 \/ (i - 1 \in 1 .. n - 1 /\ downlink'[i - 1] = downlink[i])
  <2> SUFFICES ASSUME NEW i \in 1 .. n, i # 1
               PROVE  i - 1 \in 1 .. n - 1 /\ downlink'[i - 1] = downlink[i]
    OBVIOUS
  <2>1. i - 1 \in 1 .. n - 1 /\ (i - 1) + 1 = i BY <1>1
  <2> QED BY <1>2, <2>1
<1>4. ASSUME served' PROVE known' # Unknown \/ SnapshotComes'
  <2>1. CASE known # Unknown BY <2>1
  <2>2. CASE SnapshotComes
    <3>1. PICK q \in 1 .. n : downlink[q].type = "snapshot"
      BY <1>1, <2>2 DEF SnapshotComes
    <3>2. CASE q = 1 BY <1>2, <3>1, <3>2
    <3>3. CASE q # 1 BY <1>2, <1>3, <3>1, <3>3 DEF SnapshotComes
    <3> QED BY <3>2, <3>3
  <2> QED BY <1>4, <2>1, <2>2 DEF Heard
<1>5. ASSUME NEW q \in 1 .. n - 1, downlink'[q].type = "data", known' = Unknown
      PROVE  \E r \in 1 .. q - 1 : downlink'[r].type = "snapshot"
  <2>1. q + 1 \in 1 .. n /\ (q + 1) - 1 = q BY <1>1
  <2>2. PICK r \in 1 .. q : downlink[r].type = "snapshot"
    BY <1>1, <1>2, <1>5, <2>1 DEF Heard
  <2>3. r # 1 BY <1>2, <1>5, <2>2
  <2>4. r - 1 \in 1 .. q - 1 /\ r \in 1 .. n BY <1>1, <2>3
  <2> QED BY <1>3, <2>2, <2>3, <2>4
<1>6. ASSUME served', NEW p \in Listened PROVE LastWord(p)'
  <2>1. LastWord(p) BY <1>6 DEF Heard
  <2>2. CASE \E q \in DOMAIN downlink :
                /\ Speaks(downlink[q], p) /\ Says(downlink[q], p) = saved[p]
                /\ \A r \in DOMAIN downlink : r > q => ~Speaks(downlink[r], p)
    <3>1. PICK q \in 1 .. n :
                /\ Speaks(downlink[q], p) /\ Says(downlink[q], p) = saved[p]
                /\ \A r \in 1 .. n : r > q => ~Speaks(downlink[r], p)
      BY <1>1, <2>2
    <3>2. \A r \in 1 .. n - 1 : r > q - 1 => ~Speaks(downlink'[r], p)
      <4> SUFFICES ASSUME NEW r \in 1 .. n - 1, r > q - 1 PROVE ~Speaks(downlink'[r], p)
        OBVIOUS
      <4>1. r + 1 \in 1 .. n /\ r + 1 > q BY <1>1
      <4> QED BY <1>2, <3>1, <4>1
    <3>3. CASE q = 1
      <4>1. \A r \in 1 .. n - 1 : ~Speaks(downlink'[r], p)
        <5>1. \A r \in 1 .. n - 1 : r > q - 1 BY <1>1, <3>3
        <5> QED BY <3>2, <5>1
      <4>2. known' # Unknown /\ known'[p] = saved'[p] BY <1>2, <3>1, <3>3
      <4> QED BY <1>2, <4>1, <4>2 DEF LastWord
    <3>4. CASE q # 1
      <4>1. q - 1 \in 1 .. n - 1 /\ downlink'[q - 1] = downlink[q] BY <1>3, <3>4
      <4> QED BY <1>2, <3>1, <3>2, <4>1 DEF LastWord
    <3> QED BY <3>3, <3>4
  <2>3. CASE /\ \A q \in DOMAIN downlink : ~Speaks(downlink[q], p)
             /\ known # Unknown /\ known[p] = saved[p]
    <3>1. \A r \in 1 .. n - 1 : ~Speaks(downlink'[r], p)
      <4>1. \A r \in 1 .. n - 1 : r + 1 \in 1 .. n BY <1>1
      <4> QED BY <1>1, <1>2, <2>3, <4>1
    <3>2. ~Speaks(Head(downlink), p)
      <4>1. 1 \in DOMAIN downlink BY <1>1
      <4> QED BY <1>2, <2>3, <4>1
    <3>3. known' # Unknown /\ known'[p] = saved'[p] BY <2>3, <3>2
    <3> QED BY <1>2, <3>1, <3>3 DEF LastWord
  <2> QED BY <2>1, <2>2, <2>3 DEF LastWord
<1> QED BY <1>2, <1>4, <1>5, <1>6 DEF Heard

-----------------------------------------------------------------------------
(* Every step keeps the types, the connections and what is heard.           *)

LEMMA SentAppended ==
    ASSUME TypeOK, NEW m \in Uplink, uplink' = Append(uplink, m)
    PROVE  uplink' \in Seq(Uplink) /\ (ListenSent' <=> ListenSent \/ m.type = "listen")
<1>1. uplink \in Seq(Uplink) BY DEF TypeOK
<1>2. PICK n \in Nat : n = Len(uplink) /\ DOMAIN uplink = 1 .. n BY <1>1
<1>3. /\ uplink' \in Seq(Uplink) /\ DOMAIN uplink' = 1 .. n + 1
      /\ \A i \in 1 .. n : uplink'[i] = uplink[i]
      /\ uplink'[n + 1] = m
  BY <1>1, <1>2, AppendShape
<1>4. n + 1 \in 1 .. n + 1 /\ \A i \in 1 .. n + 1 : i = n + 1 \/ i \in 1 .. n BY <1>2
<1>5. \A i \in 1 .. n : i \in 1 .. n + 1 BY <1>2
<1> QED BY <1>2, <1>3, <1>4, <1>5 DEF ListenSent

LEMMA SentPopped ==
    ASSUME TypeOK, uplink # <<>>, uplink' = Tail(uplink)
    PROVE  /\ uplink' \in Seq(Uplink)
           /\ Head(uplink).type = "listen" => ListenSent
           /\ ListenSent' => ListenSent
           /\ ListenSent => ListenSent' \/ Head(uplink).type = "listen"
<1>1. uplink \in Seq(Uplink) BY DEF TypeOK
<1>2. PICK n \in Nat \ {0} : n = Len(uplink) /\ DOMAIN uplink = 1 .. n BY <1>1, TailShape
<1>3. /\ uplink' \in Seq(Uplink) /\ DOMAIN uplink' = 1 .. n - 1 /\ Head(uplink) = uplink[1]
      /\ \A i \in 1 .. n - 1 : uplink'[i] = uplink[i + 1]
  BY <1>1, <1>2, TailShape
<1>4. \A i \in 1 .. n - 1 : i + 1 \in 1 .. n BY <1>2
<1>5. \A i \in 1 .. n : i = 1 \/ (i - 1 \in 1 .. n - 1 /\ (i - 1) + 1 = i) BY <1>2
<1>6. ListenSent' => ListenSent BY <1>2, <1>3, <1>4 DEF ListenSent
<1>7. ListenSent => ListenSent' \/ Head(uplink).type = "listen"
  BY <1>2, <1>3, <1>5 DEF ListenSent
<1>8. 1 \in 1 .. n BY <1>2
<1> QED BY <1>2, <1>3, <1>6, <1>7, <1>8 DEF ListenSent

LEMMA AnsweredPopped ==
    ASSUME TypeOK, downlink # <<>>, downlink' = Tail(downlink)
    PROVE  /\ downlink' \in Seq(Downlink)
           /\ ListenAnswered => ListenAnswered' \/ Head(downlink).type = "listened"
           /\ \A type \in STRING : (\A q \in DOMAIN downlink : downlink[q].type = type) =>
                 /\ \A q \in DOMAIN downlink' : downlink'[q].type = type
                 /\ Head(downlink).type = type
<1>1. downlink \in Seq(Downlink) BY DEF TypeOK
<1>2. PICK n \in Nat \ {0} : n = Len(downlink) /\ DOMAIN downlink = 1 .. n BY <1>1, TailShape
<1>3. /\ downlink' \in Seq(Downlink) /\ DOMAIN downlink' = 1 .. n - 1
      /\ Head(downlink) = downlink[1]
      /\ \A i \in 1 .. n - 1 : downlink'[i] = downlink[i + 1]
  BY <1>1, <1>2, TailShape
<1>4. \A i \in 1 .. n - 1 : i + 1 \in 1 .. n BY <1>2
<1>5. \A i \in 1 .. n : i = 1 \/ (i - 1 \in 1 .. n - 1 /\ (i - 1) + 1 = i) BY <1>2
<1>6. ListenAnswered => ListenAnswered' \/ Head(downlink).type = "listened"
  <2> SUFFICES ASSUME NEW i \in 1 .. n, downlink[i].type = "listened"
               PROVE  ListenAnswered' \/ Head(downlink).type = "listened"
    BY <1>2 DEF ListenAnswered
  <2>1. CASE i = 1 BY <1>3, <2>1
  <2>2. CASE i # 1
    <3>1. i - 1 \in 1 .. n - 1 /\ downlink'[i - 1] = downlink[i] BY <1>3, <1>5, <2>2
    <3> QED BY <1>3, <3>1 DEF ListenAnswered
  <2> QED BY <2>1, <2>2
<1>7. 1 \in 1 .. n BY <1>2
<1> QED BY <1>2, <1>3, <1>4, <1>6, <1>7

LEMMA AnsweredGrown ==
    ASSUME TypeOK, Grown, ListenAnswered
    PROVE  ListenAnswered'
<1>1. PICK n \in Nat : n = Len(downlink) /\ DOMAIN downlink = 1 .. n BY DEF TypeOK
<1>2. PICK m \in Nat : m = Len(downlink') /\ DOMAIN downlink' = 1 .. m /\ n <= m
  BY <1>1 DEF Grown
<1>3. \A i \in 1 .. n : i \in 1 .. m /\ downlink'[i] = downlink[i]
  BY <1>1, <1>2 DEF Grown
<1> QED BY <1>1, <1>2, <1>3 DEF ListenAnswered

\* The wire's part of what a queue says, for a step that leaves it alone.
LEMMA WiresSame ==
    /\ uplink' = uplink => (ListenSent' <=> ListenSent)
    /\ downlink' = downlink => (ListenAnswered' <=> ListenAnswered)
BY DEF ListenSent, ListenAnswered

Good == TypeOK /\ Wire /\ Heard

LEMMA GoodSet ==
    ASSUME Good, NEW path \in Path, NEW value \in Content, Set(path, value)
    PROVE  Good'
<1> DEFINE w == [path |-> path, value |-> value, status |-> "out"]
<1>1. /\ writes' = Append(writes, w) /\ made < MaxWrites /\ made' = made + 1
      /\ uplink' = IF connected THEN Append(uplink, Put(path, value)) ELSE uplink
      /\ UNCHANGED <<saved, served, downlink, connected, listening, listenUnacked, known,
                     troubles, disturbed>>
  BY DEF Set, server
<1>2. w \in Write /\ w.status = "out" BY DEF Write
<1> HIDE DEF w
<1>3. TypeOK /\ Wire /\ Heard BY DEF Good
<1>4. writes \in Seq(Write) BY <1>3 DEF TypeOK
<1>5. PICK l \in Nat : l = Len(writes) /\ DOMAIN writes = 1 .. l BY <1>4
<1>6. /\ writes' \in Seq(Write) /\ DOMAIN writes' = 1 .. l + 1
      /\ \A i \in 1 .. l : writes'[i] = writes[i]
      /\ writes'[l + 1] = w
  BY <1>1, <1>2, <1>4, <1>5, AppendShape
<1>7. uplink' \in Seq(Uplink) /\ (ListenSent' <=> ListenSent)
  <2>1. CASE connected
    <3>1. PICK m \in Uplink : m = Put(path, value) /\ m.type = "put" BY MessageTypes
    <3>2. uplink' = Append(uplink, m) BY <1>1, <2>1, <3>1
    <3> QED BY <1>3, <3>1, <3>2, SentAppended
  <2>2. CASE ~connected
    <3>1. uplink' = uplink BY <1>1, <2>2
    <3> QED BY <1>3, <3>1, WiresSame DEF TypeOK
  <2> QED BY <2>1, <2>2
<1>8. made' \in 0 .. MaxWrites BY <1>1, <1>3, BoundsAssumption DEF TypeOK
<1>9. TypeOK' BY <1>1, <1>3, <1>6, <1>7, <1>8 DEF TypeOK
<1>10. Wire'
  <2>1. \A i \in DOMAIN writes' :
          writes'[i].status # "out" => listening' /\ (connected' => listenUnacked')
    <3>1. \A i \in 1 .. l + 1 : i \in 1 .. l \/ i = l + 1 BY <1>5
    <3> QED BY <1>1, <1>2, <1>3, <1>5, <1>6, <3>1 DEF Wire
  <2>2. ListenAnswered' <=> ListenAnswered BY <1>1, WiresSame
  <2>3. ~connected' => uplink' = <<>> BY <1>1, <1>3 DEF Wire
  <2> QED BY <1>1, <1>3, <1>7, <2>1, <2>2, <2>3 DEF Wire
<1>11. Heard' BY <1>1, <1>3, HeardSame
<1> QED BY <1>9, <1>10, <1>11 DEF Good

LEMMA GoodObserve ==
    ASSUME Good, Observe
    PROVE  Good'
<1>1. /\ ~listening /\ listening' = TRUE /\ listenUnacked' = connected
      /\ uplink' = IF connected THEN Append(uplink, Listen) ELSE uplink
      /\ UNCHANGED <<saved, served, downlink, connected, writes, known, made, troubles,
                     disturbed>>
  BY DEF Observe, server, bounds
<1>2. TypeOK /\ Wire /\ Heard BY DEF Good
<1>3. /\ uplink' \in Seq(Uplink) /\ (connected => ListenSent')
      /\ ~connected => uplink' = uplink
  <2>1. CASE connected
    <3>1. PICK m \in Uplink : m = Listen /\ m.type = "listen" BY MessageTypes
    <3>2. uplink' = Append(uplink, m) BY <1>1, <2>1, <3>1
    <3> QED BY <1>2, <2>1, <3>1, <3>2, SentAppended
  <2>2. CASE ~connected BY <1>1, <1>2, <2>2 DEF TypeOK
  <2> QED BY <2>1, <2>2
<1>4. TypeOK' BY <1>1, <1>2, <1>3 DEF TypeOK
<1>5. Wire' BY <1>1, <1>2, <1>3 DEF Wire
<1>6. Heard' BY <1>1, <1>2, HeardSame
<1> QED BY <1>4, <1>5, <1>6 DEF Good

LEMMA GoodConnect ==
    ASSUME Good, NEW a, NEW u, Pipe(a, u), Connect
    PROVE  Good'
<1>1. /\ ~connected /\ connected' = TRUE /\ listenUnacked' = listening
      /\ UNCHANGED <<saved, served, downlink, listening, writes, known, made, troubles,
                     disturbed>>
  BY DEF Connect, server, bounds
<1>2. TypeOK /\ Wire /\ Heard BY DEF Good
<1>3. uplink' \in Seq(Uplink) /\ (listening <=> ListenSent') BY <1>2, PipeConnect
<1>4. TypeOK' BY <1>1, <1>2, <1>3 DEF TypeOK
<1>5. Wire' BY <1>1, <1>2, <1>3 DEF Wire
<1>6. Heard' BY <1>1, <1>2, HeardSame
<1> QED BY <1>4, <1>5, <1>6 DEF Good

LEMMA GoodDisconnect ==
    ASSUME Good, Disconnect \/ Kill
    PROVE  Good'
<1>1. /\ connected' = FALSE /\ listenUnacked' = FALSE /\ served' = FALSE
      /\ uplink' = <<>> /\ downlink' = <<>> /\ troubles < MaxTroubles
      /\ troubles' = troubles + 1 /\ UNCHANGED <<saved, made, disturbed>>
      /\ \/ UNCHANGED <<listening, writes, known>>
         \/ listening' = FALSE /\ writes' = <<>> /\ known' = Unknown
  BY DEF Disconnect, Kill
<1>2. TypeOK /\ Wire /\ Heard BY DEF Good
<1>3. troubles' \in 0 .. MaxTroubles BY <1>1, <1>2, BoundsAssumption DEF TypeOK
<1>4. uplink' \in Seq(Uplink) /\ downlink' \in Seq(Downlink) BY <1>1
<1>5. writes' \in Seq(Write) /\ known' \in Data \cup {Unknown} /\ listening' \in BOOLEAN
  <2>1. CASE UNCHANGED <<listening, writes, known>> BY <1>2, <2>1 DEF TypeOK
  <2>2. CASE listening' = FALSE /\ writes' = <<>> /\ known' = Unknown
    <3>1. writes' \in Seq(Write) BY <2>2
    <3>2. listening' \in BOOLEAN BY <2>2
    <3> QED BY <2>2, <3>1, <3>2
  <2> QED BY <1>1, <2>1, <2>2
<1>6. TypeOK' BY <1>1, <1>2, <1>3, <1>4, <1>5 DEF TypeOK
<1>7. ~ListenSent' /\ DOMAIN downlink' = {} BY <1>1 DEF ListenSent
<1>8. \A i \in DOMAIN writes' : writes'[i].status # "out" => listening'
  <2>1. CASE UNCHANGED <<listening, writes, known>> BY <1>2, <2>1 DEF Wire
  <2>2. CASE writes' = <<>> BY <2>2
  <2> QED BY <1>1, <2>1, <2>2
<1>9. Wire' BY <1>1, <1>2, <1>7, <1>8 DEF Wire
<1>10. Heard' BY <1>1, HeardNothing
<1> QED BY <1>6, <1>9, <1>10 DEF Good

LEMMA GoodServeListen ==
    ASSUME Good, ServeListen
    PROVE  Good'
<1>1. /\ uplink # <<>> /\ Head(uplink) = Listen /\ uplink' = Tail(uplink)
      /\ served' = TRUE /\ downlink' = downlink \o <<Snapshot, ListenResponse>>
      /\ UNCHANGED <<saved, connected, listening, listenUnacked, writes, known, made,
                     troubles, disturbed>>
  BY DEF ServeListen, client, bounds
<1>2. TypeOK /\ Wire /\ Heard BY DEF Good
<1>3. downlink \in Seq(Downlink) BY <1>2 DEF TypeOK
<1>4. PICK n \in Nat : n = Len(downlink) /\ DOMAIN downlink = 1 .. n BY <1>3
<1>5. PICK e \in Downlink : e = Snapshot /\ e.type = "snapshot"
                            /\ \A p \in Listened : e.data[p] = saved[p]
  BY <1>2, SnapshotType DEF TypeOK
<1>6. PICK f \in Downlink : f = ListenResponse /\ f.type = "listened" BY MessageTypes
<1>7. /\ downlink' \in Seq(Downlink) /\ Len(downlink') = n + 2
      /\ \A i \in 1 .. n : downlink'[i] = downlink[i]
      /\ downlink'[n + 1] = e /\ downlink'[n + 2] = f
  BY <1>1, <1>3, <1>4, <1>5, <1>6, AppendTwo
<1>8. DOMAIN downlink' = 1 .. n + 2 /\ n + 1 \in 1 .. n + 2 /\ n + 2 \in 1 .. n + 2
      /\ \A q \in 1 .. n + 2 : q > n => q = n + 1 \/ q = n + 2
  BY <1>4, <1>7
<1>9. Head(uplink).type = "listen" BY <1>1, MessageTypes
<1>10. uplink' \in Seq(Uplink) /\ ListenSent /\ (ListenSent' => ListenSent)
  BY <1>1, <1>2, <1>9, SentPopped
<1>11. ListenAnswered' BY <1>6, <1>7, <1>8 DEF ListenAnswered
<1>12. TypeOK' BY <1>1, <1>2, <1>7, <1>10 DEF TypeOK
<1>13. Wire' BY <1>1, <1>2, <1>10, <1>11 DEF Wire
<1>14. Heard'
  <2>1. Grown BY <1>4, <1>7 DEF Grown
  <2>2. ASSUME NEW p \in Listened PROVE NewLastWord(p)
    <3>1. Speaks(e, p) /\ Says(e, p) = saved'[p] BY <1>1, <1>5 DEF Speaks, Says
    <3>2. ~Speaks(f, p) BY <1>6 DEF Speaks
    <3>3. \A r \in 1 .. n + 2 : r > n + 1 => r = n + 2 BY <1>4
    <3> QED BY <1>7, <1>8, <3>1, <3>2, <3>3 DEF NewLastWord
  <2>3. \A q \in DOMAIN downlink' : ~(q > Len(downlink) /\ downlink'[q].type = "data")
    BY <1>4, <1>5, <1>6, <1>7, <1>8
  <2>4. \E q \in DOMAIN downlink' : downlink'[q].type = "snapshot" BY <1>5, <1>7, <1>8
  <2> QED BY <1>1, <1>2, <2>1, <2>2, <2>3, <2>4, HeardGrows
<1> QED BY <1>12, <1>13, <1>14 DEF Good

\* The update of a location, when it is sent, is the last word on it; nothing
\* else is said.
LEMMA HeardUpdate ==
    ASSUME Good, UNCHANGED <<served, known>>, saved' \in [Path -> Content],
           NEW path \in Path, \A p \in Path : p # path => saved'[p] = saved[p],
           Grown,
           \/ /\ served /\ path \in Listened
              /\ Len(downlink') > Len(downlink)
              /\ downlink'[Len(downlink) + 1] = DataMessage(path)
              /\ \A q \in DOMAIN downlink' :
                    q > Len(downlink) + 1 => downlink'[q].type = "answer"
           \/ /\ ~(served /\ path \in Listened)
              /\ \A q \in DOMAIN downlink' : q > Len(downlink) => downlink'[q].type = "answer"
    PROVE  Heard'
<1>1. TypeOK /\ Wire /\ Heard BY DEF Good
<1>2. PICK n \in Nat : n = Len(downlink) BY <1>1 DEF TypeOK
<1>3. CASE /\ served /\ path \in Listened
           /\ Len(downlink') > n
           /\ downlink'[n + 1] = DataMessage(path)
           /\ \A q \in DOMAIN downlink' : q > n + 1 => downlink'[q].type = "answer"
  <2>1. PICK e \in Downlink : /\ e = DataMessage(path)
                              /\ e.type = "data" /\ e.path = path /\ e.value = saved'[path]
    BY <1>3, DataMessageType
  <2>2. PICK m \in Nat : m = Len(downlink') /\ DOMAIN downlink' = 1 .. m BY DEF Grown
  <2>3. n + 1 \in 1 .. m /\ \A q \in 1 .. m : q > n => q = n + 1 \/ q > n + 1
    BY <1>2, <1>3, <2>2
  <2>4. NewLastWord(path)
    <3>1. Speaks(e, path) /\ Says(e, path) = saved'[path] BY <2>1 DEF Speaks, Says
    <3>2. \A r \in 1 .. m : r > n + 1 => ~Speaks(downlink'[r], path)
      BY <1>3, <2>2 DEF Speaks
    <3> QED BY <1>3, <2>1, <2>2, <2>3, <3>1, <3>2 DEF NewLastWord
  <2>5. ASSUME NEW p \in Listened, p # path PROVE NothingNew(p)
    <3>1. saved'[p] = saved[p] BY <2>5, PathAssumption
    <3>2. ~Speaks(e, p) BY <2>1, <2>5 DEF Speaks
    <3>3. \A r \in 1 .. m : r > n + 1 => ~Speaks(downlink'[r], p)
      BY <1>3, <2>2 DEF Speaks
    <3> QED BY <1>2, <1>3, <2>1, <2>2, <2>3, <3>1, <3>2, <3>3 DEF NothingNew
  <2> QED BY <1>1, <1>3, <2>4, <2>5, HeardGrows
<1>4. CASE /\ ~(served /\ path \in Listened)
           /\ \A q \in DOMAIN downlink' : q > n => downlink'[q].type = "answer"
  <2>1. ASSUME served, NEW p \in Listened PROVE NothingNew(p)
    <3>1. saved'[p] = saved[p] BY <1>4, <2>1, PathAssumption
    <3> QED BY <1>2, <1>4, <2>1, <3>1 DEF NothingNew, Speaks
  <2>2. \A q \in DOMAIN downlink' : ~(q > Len(downlink) /\ downlink'[q].type = "data")
    BY <1>2, <1>4
  <2> QED BY <1>1, <2>1, <2>2, HeardGrows
<1> QED BY <1>2, <1>3, <1>4

LEMMA GoodServePut ==
    ASSUME Good, ServePut
    PROVE  Good'
<1>1. /\ uplink # <<>> /\ Head(uplink).type = "put" /\ uplink' = Tail(uplink)
      /\ saved' = [saved EXCEPT ![Head(uplink).path] = Head(uplink).value]
      /\ UNCHANGED <<served, connected, listening, listenUnacked, writes, known, made,
                     troubles, disturbed>>
  BY DEF ServePut, client, bounds
<1>2. TypeOK /\ Wire /\ Heard BY DEF Good
<1>3. downlink \in Seq(Downlink) /\ uplink \in Seq(Uplink) BY <1>2 DEF TypeOK
<1>4. PICK n \in Nat : n = Len(downlink) /\ DOMAIN downlink = 1 .. n BY <1>3
<1>5. PICK path \in Path, value \in Content : path = Head(uplink).path /\ value = Head(uplink).value
  <2>1. Head(uplink) \in Uplink BY <1>1, <1>3, TailShape
  <2> QED BY <1>1, <2>1, UplinkTypes
<1>6. saved' \in [Path -> Content] /\ \A p \in Path : p # path => saved'[p] = saved[p]
  BY <1>1, <1>2, <1>5 DEF TypeOK
<1>7. PICK f \in Downlink : f = PutResponse("ok") /\ f.type = "answer" BY MessageTypes
<1>8. \/ /\ served /\ path \in Listened
         /\ downlink' = downlink \o <<DataMessage(path), f>>
      \/ ~(served /\ path \in Listened) /\ downlink' = Append(downlink, f)
  BY <1>2, <1>5, <1>6, <1>7, PutServed
<1>9. /\ downlink' \in Seq(Downlink) /\ Grown
      /\ \/ /\ served /\ path \in Listened
            /\ Len(downlink') > Len(downlink)
            /\ downlink'[Len(downlink) + 1] = DataMessage(path)
            /\ \A q \in DOMAIN downlink' :
                  q > Len(downlink) + 1 => downlink'[q].type = "answer"
         \/ /\ ~(served /\ path \in Listened)
            /\ \A q \in DOMAIN downlink' : q > Len(downlink) => downlink'[q].type = "answer"
  <2>1. CASE served /\ path \in Listened /\ downlink' = downlink \o <<DataMessage(path), f>>
    <3>1. PICK e \in Downlink : e = DataMessage(path) BY <1>6, <2>1, DataMessageType
    <3>2. /\ downlink' \in Seq(Downlink) /\ Len(downlink') = n + 2
          /\ \A i \in 1 .. n : downlink'[i] = downlink[i]
          /\ downlink'[n + 1] = e /\ downlink'[n + 2] = f
      BY <1>3, <1>4, <2>1, <3>1, AppendTwo
    <3>3. DOMAIN downlink' = 1 .. n + 2 /\ \A q \in 1 .. n + 2 : q > n + 1 => q = n + 2
      BY <1>4, <3>2
    <3>4. Grown BY <1>4, <3>2 DEF Grown
    <3>5. \A q \in DOMAIN downlink' : q > n + 1 => downlink'[q].type = "answer"
      BY <1>7, <3>2, <3>3
    <3>6. Len(downlink') > n BY <3>2
    <3> QED BY <1>4, <2>1, <3>1, <3>2, <3>4, <3>5, <3>6
  <2>2. CASE ~(served /\ path \in Listened) /\ downlink' = Append(downlink, f)
    <3>1. /\ downlink' \in Seq(Downlink) /\ Len(downlink') = n + 1
          /\ \A i \in 1 .. n : downlink'[i] = downlink[i]
          /\ downlink'[n + 1] = f
      BY <1>3, <1>4, <2>2, AppendShape
    <3>2. DOMAIN downlink' = 1 .. n + 1 /\ \A q \in 1 .. n + 1 : q > n => q = n + 1
      BY <1>4, <3>1
    <3>3. Grown BY <1>4, <3>1 DEF Grown
    <3>4. \A q \in DOMAIN downlink' : q > n => downlink'[q].type = "answer"
      BY <1>7, <3>1, <3>2
    <3> QED BY <1>4, <2>2, <3>1, <3>3, <3>4
  <2> QED BY <1>8, <2>1, <2>2
<1>10. uplink' \in Seq(Uplink) /\ (ListenSent' <=> ListenSent)
  <2>1. Head(uplink).type # "listen" BY <1>1
  <2> QED BY <1>1, <1>2, <2>1, SentPopped
<1>11. ListenAnswered => ListenAnswered' BY <1>2, <1>9, AnsweredGrown
<1>12. TypeOK' BY <1>1, <1>2, <1>6, <1>9, <1>10 DEF TypeOK
<1>13. ~served => \A q \in DOMAIN downlink' : downlink'[q].type = "answer"
  <2> SUFFICES ASSUME ~served, NEW q \in DOMAIN downlink' PROVE downlink'[q].type = "answer"
    OBVIOUS
  <2>1. CASE q > n BY <1>4, <1>9, <2>1
  <2>2. CASE ~(q > n)
    <3>1. q \in 1 .. n BY <1>4, <1>9, <2>2
    <3> QED BY <1>2, <1>4, <1>9, <3>1 DEF Wire, Grown
  <2> QED BY <2>1, <2>2
<1>14. connected BY <1>1, <1>2 DEF Wire
<1>15. Wire' BY <1>1, <1>2, <1>10, <1>11, <1>13, <1>14 DEF Wire
<1>16. Heard' BY <1>1, <1>6, <1>9, HeardUpdate
<1> QED BY <1>12, <1>15, <1>16 DEF Good

LEMMA GoodRefusePut ==
    ASSUME Good, RefusePut
    PROVE  Good'
<1>1. /\ uplink # <<>> /\ Head(uplink).type = "put" /\ uplink' = Tail(uplink)
      /\ downlink' = Append(downlink, PutResponse("refused"))
      /\ troubles < MaxTroubles /\ troubles' = troubles + 1
      /\ disturbed' = disturbed \cup {Head(uplink).path}
      /\ UNCHANGED <<saved, served, connected, listening, listenUnacked, writes, known, made>>
  BY DEF RefusePut, client, server
<1>2. TypeOK /\ Wire /\ Heard BY DEF Good
<1>3. downlink \in Seq(Downlink) /\ uplink \in Seq(Uplink) BY <1>2 DEF TypeOK
<1>4. PICK n \in Nat : n = Len(downlink) /\ DOMAIN downlink = 1 .. n BY <1>3
<1>5. Head(uplink).path \in Path
  <2>1. Head(uplink) \in Uplink BY <1>1, <1>3, TailShape
  <2> QED BY <1>1, <2>1, UplinkTypes
<1>6. PICK f \in Downlink : f = PutResponse("refused") /\ f.type = "answer" BY MessageTypes
<1>7. /\ downlink' \in Seq(Downlink) /\ Len(downlink') = n + 1
      /\ \A i \in 1 .. n : downlink'[i] = downlink[i]
      /\ downlink'[n + 1] = f
  BY <1>1, <1>3, <1>4, <1>6, AppendShape
<1>8. DOMAIN downlink' = 1 .. n + 1 /\ \A q \in 1 .. n + 1 : q > n => q = n + 1
  BY <1>4, <1>7
<1>9. Grown BY <1>4, <1>7 DEF Grown
<1>10. \A q \in DOMAIN downlink' : q > n => downlink'[q].type = "answer"
  BY <1>6, <1>7, <1>8
<1>11. uplink' \in Seq(Uplink) /\ (ListenSent' <=> ListenSent)
  <2>1. Head(uplink).type # "listen" BY <1>1
  <2> QED BY <1>1, <1>2, <2>1, SentPopped
<1>12. ListenAnswered => ListenAnswered' BY <1>2, <1>9, AnsweredGrown
<1>13. troubles' \in 0 .. MaxTroubles BY <1>1, <1>2, BoundsAssumption DEF TypeOK
<1>14. TypeOK' BY <1>1, <1>2, <1>5, <1>7, <1>11, <1>13 DEF TypeOK
<1>15. ~served => \A q \in DOMAIN downlink' : downlink'[q].type = "answer"
  <2> SUFFICES ASSUME ~served, NEW q \in DOMAIN downlink' PROVE downlink'[q].type = "answer"
    OBVIOUS
  <2>1. CASE q > n BY <1>10, <2>1
  <2>2. CASE ~(q > n)
    <3>1. q \in 1 .. n BY <1>4, <1>8, <2>2
    <3> QED BY <1>2, <1>4, <1>7, <3>1 DEF Wire
  <2> QED BY <2>1, <2>2
<1>16. connected BY <1>1, <1>2 DEF Wire
<1>17. Wire' BY <1>1, <1>2, <1>11, <1>12, <1>15, <1>16 DEF Wire
<1>18. Heard'
  <2>1. ASSUME served', NEW p \in Listened PROVE NothingNew(p)
    BY <1>1, <1>4, <1>10, <2>1 DEF NothingNew, Speaks
  <2>2. \A q \in DOMAIN downlink' : ~(q > Len(downlink) /\ downlink'[q].type = "data")
    BY <1>4, <1>10
  <2> QED BY <1>1, <1>2, <1>9, <2>1, <2>2, HeardGrows
<1> QED BY <1>14, <1>17, <1>18 DEF Good

LEMMA GoodForeignWrite ==
    ASSUME Good, NEW a, NEW u, Pipe(a, u), NEW path \in Path, NEW value \in Content,
           ForeignWrite(path, value)
    PROVE  Good'
<1>1. /\ saved' = [saved EXCEPT ![path] = value]
      /\ troubles < MaxTroubles /\ troubles' = troubles + 1
      /\ disturbed' = disturbed \cup {path}
      /\ UNCHANGED <<served, uplink, connected, listening, listenUnacked, writes, known, made>>
  BY DEF ForeignWrite, client
<1>2. TypeOK /\ Wire /\ Heard BY DEF Good
<1>3. downlink \in Seq(Downlink) BY <1>2 DEF TypeOK
<1>4. PICK n \in Nat : n = Len(downlink) /\ DOMAIN downlink = 1 .. n BY <1>3
<1>5. saved' \in [Path -> Content] /\ \A p \in Path : p # path => saved'[p] = saved[p]
  BY <1>1, <1>2 DEF TypeOK
<1>6. \/ served /\ path \in Listened /\ downlink' = Append(downlink, DataMessage(path))
      \/ ~(served /\ path \in Listened) /\ downlink' = downlink
  BY <1>2, <1>5, PipeForeignWrite
<1>7. /\ downlink' \in Seq(Downlink) /\ Grown
      /\ \/ /\ served /\ path \in Listened
            /\ Len(downlink') > Len(downlink)
            /\ downlink'[Len(downlink) + 1] = DataMessage(path)
            /\ \A q \in DOMAIN downlink' :
                  q > Len(downlink) + 1 => downlink'[q].type = "answer"
         \/ /\ ~(served /\ path \in Listened)
            /\ \A q \in DOMAIN downlink' : q > Len(downlink) => downlink'[q].type = "answer"
  <2>1. CASE served /\ path \in Listened /\ downlink' = Append(downlink, DataMessage(path))
    <3>1. PICK e \in Downlink : e = DataMessage(path) BY <1>5, <2>1, DataMessageType
    <3>2. /\ downlink' \in Seq(Downlink) /\ Len(downlink') = n + 1
          /\ \A i \in 1 .. n : downlink'[i] = downlink[i]
          /\ downlink'[n + 1] = e
      BY <1>3, <1>4, <2>1, <3>1, AppendShape
    <3>3. DOMAIN downlink' = 1 .. n + 1 /\ \A q \in 1 .. n + 1 : ~(q > n + 1)
      BY <1>4, <3>2
    <3>4. Grown BY <1>4, <3>2 DEF Grown
    <3>5. Len(downlink') > n BY <3>2
    <3> QED BY <1>4, <2>1, <3>1, <3>2, <3>3, <3>4, <3>5
  <2>2. CASE ~(served /\ path \in Listened) /\ downlink' = downlink
    <3>1. Grown BY <1>3, <2>2 DEF Grown
    <3>2. \A q \in DOMAIN downlink' : ~(q > Len(downlink)) BY <1>4, <2>2
    <3> QED BY <1>3, <2>2, <3>1, <3>2
  <2> QED BY <1>6, <2>1, <2>2
<1>8. troubles' \in 0 .. MaxTroubles BY <1>1, <1>2, BoundsAssumption DEF TypeOK
<1>9. TypeOK' BY <1>1, <1>2, <1>5, <1>7, <1>8 DEF TypeOK
<1>10. ListenAnswered => ListenAnswered' BY <1>2, <1>7, AnsweredGrown
<1>11. ~served => downlink' = downlink BY <1>6
<1>12. ListenSent' <=> ListenSent BY <1>1, WiresSame
<1>13. Wire' BY <1>1, <1>2, <1>10, <1>11, <1>12 DEF Wire
<1>14. Heard' BY <1>1, <1>5, <1>7, HeardUpdate
<1> QED BY <1>9, <1>13, <1>14 DEF Good

LEMMA GoodReceiveSnapshot ==
    ASSUME Good, ReceiveSnapshot
    PROVE  Good'
<1>1. /\ downlink # <<>> /\ Head(downlink).type = "snapshot" /\ downlink' = Tail(downlink)
      /\ known' = Head(downlink).data
      /\ UNCHANGED <<saved, served, uplink, connected, listening, listenUnacked, writes, made,
                     troubles, disturbed>>
  BY DEF ReceiveSnapshot, Reads, server, bounds
<1>2. TypeOK /\ Wire /\ Heard BY DEF Good
<1>3. Head(downlink) \in Downlink BY <1>1, <1>2, TailShape DEF TypeOK
<1>4. known' \in Data /\ known' # Unknown BY <1>1, <1>3, DownlinkTypes, UnknownAssumption
<1>5. /\ downlink' \in Seq(Downlink) /\ (ListenAnswered => ListenAnswered')
      /\ ~(\A q \in DOMAIN downlink : downlink[q].type = "answer")
  BY <1>1, <1>2, AnsweredPopped
<1>6. served /\ listening BY <1>2, <1>5 DEF Wire
<1>7. TypeOK' BY <1>1, <1>2, <1>4, <1>5 DEF TypeOK
<1>8. ListenSent' <=> ListenSent BY <1>1, WiresSame
<1>9. connected BY <1>1, <1>2 DEF Wire
<1>10. Wire' BY <1>1, <1>2, <1>5, <1>6, <1>8, <1>9 DEF Wire
<1>11. Heard'
  <2>1. \A p \in Listened : Speaks(Head(downlink), p)
                            /\ known' # Unknown /\ known'[p] = Says(Head(downlink), p)
    BY <1>1, <1>4 DEF Speaks, Says
  <2> QED BY <1>1, <1>2, <1>4, <2>1, HeardReads
<1> QED BY <1>7, <1>10, <1>11 DEF Good

LEMMA GoodReceiveData ==
    ASSUME Good, ReceiveData
    PROVE  Good' /\ known \in Data
<1>1. /\ downlink # <<>> /\ Head(downlink).type = "data" /\ downlink' = Tail(downlink)
      /\ known' = [known EXCEPT ![Head(downlink).path] = Head(downlink).value]
      /\ UNCHANGED <<saved, served, uplink, connected, listening, listenUnacked, writes, made,
                     troubles, disturbed>>
  BY DEF ReceiveData, Reads, server, bounds
<1>2. TypeOK /\ Wire /\ Heard BY DEF Good
<1>3. /\ Head(downlink) \in Downlink /\ Head(downlink) = downlink[1] /\ 1 \in DOMAIN downlink
  BY <1>1, <1>2, TailShape DEF TypeOK
<1>4. PICK path \in Listened, value \in Content :
          path = Head(downlink).path /\ value = Head(downlink).value
  BY <1>1, <1>3, DownlinkTypes
<1>5. known \in Data
  <2>1. ~ \E r \in 1 .. 1 - 1 : downlink[r].type = "snapshot" OBVIOUS
  <2> QED BY <1>1, <1>2, <1>3, <2>1 DEF Heard, TypeOK
<1>6. known' \in Data /\ known' # Unknown
      /\ \A p \in Listened : known'[p] = IF p = path THEN value ELSE known[p]
  BY <1>1, <1>4, <1>5, UnknownAssumption DEF Data
<1>7. /\ downlink' \in Seq(Downlink) /\ (ListenAnswered => ListenAnswered')
      /\ ~(\A q \in DOMAIN downlink : downlink[q].type = "answer")
  BY <1>1, <1>2, AnsweredPopped
<1>8. served /\ listening BY <1>2, <1>7 DEF Wire
<1>9. TypeOK' BY <1>1, <1>2, <1>6, <1>7 DEF TypeOK
<1>10. ListenSent' <=> ListenSent BY <1>1, WiresSame
<1>11. connected BY <1>1, <1>2 DEF Wire
<1>12. Wire' BY <1>1, <1>2, <1>7, <1>8, <1>10, <1>11 DEF Wire
<1>13. Heard'
  <2>1. \A p \in Listened : Speaks(Head(downlink), p) <=> p = path
    BY <1>1, <1>4 DEF Speaks
  <2>2. \A p \in Listened : Says(Head(downlink), p) = value BY <1>1, <1>4 DEF Says
  <2> QED BY <1>1, <1>2, <1>6, <2>1, <2>2, HeardReads
<1> QED BY <1>5, <1>9, <1>12, <1>13 DEF Good

LEMMA GoodReceiveListenResponse ==
    ASSUME Good, NEW a, NEW u, Pipe(a, u), ReceiveListenResponse
    PROVE  Good'
<1>1. /\ downlink # <<>> /\ Head(downlink).type = "listened" /\ downlink' = Tail(downlink)
      /\ listenUnacked' = FALSE
      /\ UNCHANGED <<saved, served, uplink, connected, listening, known, made, troubles,
                     disturbed>>
  BY DEF ReceiveListenResponse, Reads, server, bounds
<1>2. TypeOK /\ Wire /\ Heard BY DEF Good
<1>3. PICK l \in Nat : l = Len(writes) /\ DOMAIN writes = 1 .. l BY <1>2 DEF TypeOK
<1>4. PICK k \in 0 .. l : k = a[0] BY <1>2, <1>3, PipeBounds
<1>5. /\ writes' \in Seq(Write) /\ Len(writes') = l - k
      /\ \A i \in 1 .. l - k : writes'[i] = writes[k + i]
  BY <1>2, <1>3, <1>4, PipeListened
<1>6. \A i \in DOMAIN writes' : writes'[i].status = "out"
  <2> SUFFICES ASSUME NEW i \in 1 .. l - k PROVE writes'[i].status = "out"
    BY <1>5
  <2>1. k + i \in 1 .. l /\ k + i > k BY <1>3, <1>4
  <2> QED BY <1>3, <1>4, <1>5, <2>1 DEF Pipe
<1>7. /\ downlink' \in Seq(Downlink)
      /\ ~(\A q \in DOMAIN downlink : downlink[q].type = "answer")
  BY <1>1, <1>2, AnsweredPopped
<1>8. served /\ listening BY <1>2, <1>7 DEF Wire
<1>9. TypeOK' BY <1>1, <1>2, <1>5, <1>7 DEF TypeOK
<1>10. ListenSent' <=> ListenSent BY <1>1, WiresSame
<1>11. connected BY <1>1, <1>2 DEF Wire
<1>12. Wire' BY <1>1, <1>2, <1>6, <1>8, <1>10, <1>11 DEF Wire
<1>13. Heard'
  <2>1. \A p \in Listened : ~Speaks(Head(downlink), p) BY <1>1 DEF Speaks
  <2> QED BY <1>1, <1>2, <2>1, HeardReads
<1> QED BY <1>9, <1>12, <1>13 DEF Good

LEMMA GoodReceiveAnswer ==
    ASSUME Good, NEW a, NEW u, Pipe(a, u), ReceiveAnswer
    PROVE  Good'
<1>1. /\ downlink # <<>> /\ Head(downlink).type = "answer" /\ downlink' = Tail(downlink)
      /\ UNCHANGED <<saved, served, uplink, connected, listening, listenUnacked, known, made,
                     troubles, disturbed>>
  BY DEF ReceiveAnswer, Reads, server, bounds
<1>2. TypeOK /\ Wire /\ Heard BY DEF Good
<1>3. PICK l \in Nat : l = Len(writes) /\ DOMAIN writes = 1 .. l BY <1>2 DEF TypeOK
<1>4. PICK k \in 0 .. l : k = a[0] BY <1>2, <1>3, PipeBounds
<1>5. /\ k + 1 \in 1 .. l
      /\ \/ /\ listenUnacked
            /\ writes' = [writes EXCEPT ![k + 1].status = Head(downlink).status]
         \/ ~listenUnacked /\ k = 0 /\ writes # <<>> /\ writes' = Tail(writes)
  BY <1>2, <1>3, <1>4, PipeAnswer
<1>6. Head(downlink) \in Downlink BY <1>1, <1>2, TailShape DEF TypeOK
<1>7. Head(downlink).status \in {"ok", "refused"} BY <1>1, <1>6, DownlinkTypes
<1>8. /\ downlink' \in Seq(Downlink) /\ (ListenAnswered => ListenAnswered')
      /\ (\A q \in DOMAIN downlink : downlink[q].type = "answer") =>
           \A q \in DOMAIN downlink' : downlink'[q].type = "answer"
  BY <1>1, <1>2, AnsweredPopped
<1>9. connected BY <1>1, <1>2 DEF Wire
<1>10. /\ writes' \in Seq(Write)
       /\ \A i \in DOMAIN writes' :
            writes'[i].status # "out" => listening /\ listenUnacked
  <2>1. CASE /\ listenUnacked
             /\ writes' = [writes EXCEPT ![k + 1].status = Head(downlink).status]
    <3>1. writes[k + 1] \in Write BY <1>2, <1>3, <1>5 DEF TypeOK
    <3>2. PICK w \in Write : w = [writes[k + 1] EXCEPT !.status = Head(downlink).status]
      BY <1>7, <3>1 DEF Write
    <3>3. writes' = [writes EXCEPT ![k + 1] = w] BY <2>1, <3>2
    <3>4. writes' \in Seq(Write) BY <1>2, <1>3, <1>5, <3>3 DEF TypeOK
    <3> QED BY <1>2, <2>1, <3>4 DEF Wire
  <2>2. CASE ~listenUnacked /\ k = 0 /\ writes # <<>> /\ writes' = Tail(writes)
    <3>1. /\ writes' \in Seq(Write) /\ DOMAIN writes' = 1 .. l - 1
          /\ \A i \in 1 .. l - 1 : writes'[i] = writes[i + 1]
      BY <1>2, <1>3, <2>2, TailShape DEF TypeOK
    <3>2. \A i \in 1 .. l - 1 : writes'[i].status = "out"
      <4> SUFFICES ASSUME NEW i \in 1 .. l - 1 PROVE writes'[i].status = "out"
        OBVIOUS
      <4>1. i + 1 \in 1 .. l BY <1>3
      <4>2. writes[i + 1].status = "out" BY <1>2, <1>3, <1>9, <2>2, <4>1 DEF Wire
      <4> QED BY <3>1, <4>2
    <3> QED BY <3>1, <3>2
  <2> QED BY <1>5, <2>1, <2>2
<1>11. TypeOK' BY <1>1, <1>2, <1>8, <1>10 DEF TypeOK
<1>12. ListenSent' <=> ListenSent BY <1>1, WiresSame
<1>13. Wire' BY <1>1, <1>2, <1>8, <1>9, <1>10, <1>12 DEF Wire
<1>14. Heard'
  <2>1. \A p \in Listened : ~Speaks(Head(downlink), p) BY <1>1 DEF Speaks
  <2> QED BY <1>1, <1>2, <2>1, HeardReads
<1> QED BY <1>11, <1>13, <1>14 DEF Good

-----------------------------------------------------------------------------
(* The newest write of a location, which is what the client shows there.    *)

Newest(w, i, p) ==
    /\ i \in DOMAIN w /\ w[i].path = p
    /\ \A j \in DOMAIN w : w[j].path = p => j <= i

Unwritten(w, p) == \A j \in DOMAIN w : w[j].path # p

LEMMA NewestExists ==
    ASSUME NEW w \in Seq(Write), NEW p, ~Unwritten(w, p)
    PROVE  \E i \in DOMAIN w : Newest(w, i, p)
<1>1. PICK n \in Nat : n = Len(w) /\ DOMAIN w = 1 .. n OBVIOUS
<1>2. PICK T : T = {k \in 0 .. n : \E i \in 1 .. n : w[i].path = p /\ k = n - i} OBVIOUS
<1>3. T # {} /\ T \subseteq Nat
  <2>1. PICK i \in 1 .. n : w[i].path = p BY <1>1 DEF Unwritten
  <2>2. n - i \in 0 .. n /\ \E h \in 1 .. n : w[h].path = p /\ n - i = n - h BY <1>1, <2>1
  <2>3. n - i \in T BY <1>2, <2>2
  <2>4. \A y \in T : y \in 0 .. n BY <1>2
  <2>5. T \subseteq Nat BY <2>4
  <2> QED BY <2>3, <2>5
<1>7. PICK k \in T : \A y \in T : k <= y BY <1>3, LeastNumber
<1>8. PICK i \in 1 .. n : w[i].path = p /\ k = n - i BY <1>2
<1>9. ASSUME NEW j \in 1 .. n, w[j].path = p PROVE j <= i
  <2>0. n - j \in 0 .. n /\ \E h \in 1 .. n : w[h].path = p /\ n - j = n - h BY <1>1, <1>9
  <2>1. n - j \in T BY <1>2, <2>0
  <2>2. k <= n - j BY <1>7, <2>1
  <2> QED BY <1>1, <1>8, <2>2
<1> QED BY <1>1, <1>8, <1>9 DEF Newest

Shown(k, w) ==
    IF k = Unknown THEN Unknown
    ELSE [path \in Listened |->
            LET mine == {i \in DOMAIN w : w[i].path = path}
            IN  IF mine = {} THEN k[path]
                ELSE w[CHOOSE i \in mine : \A j \in mine : j <= i].value]

LEMMA ShownIs ==
    ASSUME NEW k, k # Unknown, NEW w \in Seq(Write), NEW p \in Listened
    PROVE  /\ Unwritten(w, p) => Shown(k, w)[p] = k[p]
           /\ \A i \in DOMAIN w : Newest(w, i, p) => Shown(k, w)[p] = w[i].value
<1> DEFINE mine == {i \in DOMAIN w : w[i].path = p}
<1>1. Shown(k, w)[p] = IF mine = {} THEN k[p]
                       ELSE w[CHOOSE i \in mine : \A j \in mine : j <= i].value
  BY DEF Shown
<1>2. ASSUME Unwritten(w, p) PROVE Shown(k, w)[p] = k[p]
  <2>1. mine = {} BY <1>2 DEF Unwritten
  <2> QED BY <1>1, <2>1
<1>3. ASSUME NEW i \in DOMAIN w, Newest(w, i, p) PROVE Shown(k, w)[p] = w[i].value
  <2>1. i \in mine /\ \A j \in mine : j <= i BY <1>3 DEF Newest
  <2>2. mine \subseteq Nat OBVIOUS
  <2>3. \A h \in mine : (\A j \in mine : j <= h) => h = i BY <2>1, <2>2
  <2> HIDE DEF mine
  <2>4. (CHOOSE h \in mine : \A j \in mine : j <= h) = i BY <2>1, <2>3
  <2> QED BY <1>1, <2>1, <2>4
<1> QED BY <1>2, <1>3

LEMMA ShownType ==
    ASSUME NEW k \in Data \cup {Unknown}, NEW w \in Seq(Write)
    PROVE  /\ Shown(k, w) \in Data \cup {Unknown}
           /\ Shown(k, w) # Unknown <=> k # Unknown
<1>1. CASE k # Unknown
  <2>1. ASSUME NEW p \in Listened PROVE Shown(k, w)[p] \in Content
    <3>1. CASE Unwritten(w, p) BY <1>1, <3>1, ShownIs DEF Data
    <3>2. CASE ~Unwritten(w, p)
      <4>1. PICK i \in DOMAIN w : Newest(w, i, p) BY <3>2, NewestExists
      <4>2. PICK e : e = w[i] /\ e \in Write BY <4>1
      <4>4. w[i].value \in Content BY <4>2 DEF Write
      <4>3. Shown(k, w)[p] = w[i].value BY <1>1, <4>1, ShownIs
      <4> QED BY <4>3, <4>4
    <3> QED BY <3>1, <3>2
  <2>2. PICK f : f = Shown(k, w) OBVIOUS
  <2>3. f = [path \in Listened |-> f[path]] BY <1>1, <2>2 DEF Shown
  <2>4. f \in Data BY <2>1, <2>2, <2>3 DEF Data
  <2> QED BY <1>1, <2>2, <2>4, UnknownAssumption
<1>2. CASE k = Unknown BY <1>2 DEF Shown
<1> QED BY <1>1, <1>2

-----------------------------------------------------------------------------
(* A location that nobody else wrote and at which nothing was refused.      *)

\* The answer to a listen comes behind its data.
After ==
    \A q \in DOMAIN downlink :
        downlink[q].type = "listened" =>
            (q > 1 => downlink[q - 1].type = "snapshot")

\* Nothing of its writes is left: all that is known and said of it is what the
\* server has.
Settled(p) ==
    Unwritten(writes, p) =>
        /\ known # Unknown => known[p] = saved[p]
        /\ \A q \in DOMAIN downlink :
              Speaks(downlink[q], p) => Says(downlink[q], p) = saved[p]

\* The server has stored its newest write, and says nothing else of it after the
\* answer.
Stored(p, a) ==
    \A i \in DOMAIN writes : Newest(writes, i, p) /\ i <= a[Len(downlink)] =>
        /\ saved[p] = writes[i].value
        /\ \A q \in DOMAIN downlink :
              Speaks(downlink[q], p) /\ a[q] >= i => Says(downlink[q], p) = saved[p]

\* Its newest write is answered and waits for the listen, which is not answered
\* before the client knows what was written.
Waiting(p, a) ==
    \A i \in DOMAIN writes : Newest(writes, i, p) /\ i <= a[0] =>
        \/ known # Unknown /\ known[p] = writes[i].value
        \/ downlink = <<>>
        \/ downlink[1].type # "listened"

\* The answer to its newest write comes when the client knows what was written,
\* or it will wait for the listen.
Answered(p, a) ==
    \A i \in DOMAIN writes : Newest(writes, i, p) =>
        \A q \in DOMAIN downlink : downlink[q].type = "answer" /\ a[q] = i =>
            \/ q = 1 /\ known # Unknown /\ known[p] = writes[i].value
            \/ /\ q > 1 /\ downlink[q - 1].type = "data" /\ downlink[q - 1].path = p
               /\ downlink[q - 1].value = writes[i].value
            \/ listenUnacked /\ \A r \in 1 .. q : downlink[r].type # "listened"
            \/ ~listening

Kept(p, a) == Settled(p) /\ Stored(p, a) /\ Waiting(p, a) /\ Answered(p, a)

LEMMA AfterPops ==
    ASSUME TypeOK, After, downlink # <<>>, downlink' = Tail(downlink)
    PROVE  /\ After'
           /\ Head(downlink).type # "snapshot" =>
                 downlink' = <<>> \/ downlink'[1].type # "listened"
<1>1. downlink \in Seq(Downlink) BY DEF TypeOK
<1>2. PICK n \in Nat \ {0} : n = Len(downlink) /\ DOMAIN downlink = 1 .. n
  BY <1>1, TailShape
<1>3. /\ downlink' \in Seq(Downlink) /\ Len(downlink') = n - 1
      /\ DOMAIN downlink' = 1 .. n - 1 /\ Head(downlink) = downlink[1]
      /\ \A i \in 1 .. n - 1 : downlink'[i] = downlink[i + 1]
  BY <1>1, <1>2, TailShape
<1>4. ASSUME NEW q \in 1 .. n - 1, downlink'[q].type = "listened", q > 1
      PROVE  downlink'[q - 1].type = "snapshot"
  <2>1. q + 1 \in 1 .. n /\ q - 1 \in 1 .. n - 1 /\ (q - 1) + 1 = q /\ (q + 1) - 1 = q
        /\ q + 1 > 1
    BY <1>2, <1>4
  <2>2. downlink[(q + 1) - 1].type = "snapshot" BY <1>2, <1>3, <1>4, <2>1 DEF After
  <2> QED BY <1>3, <2>1, <2>2
<1>5. ASSUME Head(downlink).type # "snapshot", downlink' # <<>>,
             downlink'[1].type = "listened"
      PROVE  FALSE
  <2>1. n - 1 # 0 BY <1>3, <1>5
  <2>2. 2 \in 1 .. n /\ 1 \in 1 .. n - 1 /\ 1 + 1 = 2 /\ 2 - 1 = 1 /\ 2 > 1 BY <1>2, <2>1
  <2>3. downlink[2].type = "listened" BY <1>3, <1>5, <2>2
  <2>4. downlink[2 - 1].type = "snapshot" BY <1>2, <2>2, <2>3 DEF After
  <2> QED BY <1>3, <1>5, <2>2, <2>4
<1> QED BY <1>3, <1>4, <1>5 DEF After

\* A queue that grows by nothing of a listen's answer, or by a snapshot and it.
LEMMA AfterGrows ==
    ASSUME TypeOK, After, Grown,
           \/ \A q \in DOMAIN downlink' : q > Len(downlink) => downlink'[q].type # "listened"
           \/ /\ Len(downlink') = Len(downlink) + 2
              /\ downlink'[Len(downlink) + 1].type = "snapshot"
    PROVE  After'
<1>1. PICK n \in Nat : n = Len(downlink) /\ DOMAIN downlink = 1 .. n BY DEF TypeOK
<1>2. PICK m \in Nat : m = Len(downlink') /\ DOMAIN downlink' = 1 .. m /\ n <= m
  BY <1>1 DEF Grown
<1>3. \A i \in 1 .. n : downlink'[i] = downlink[i] BY <1>1 DEF Grown
<1> SUFFICES ASSUME NEW q \in 1 .. m, downlink'[q].type = "listened", q > 1
             PROVE  downlink'[q - 1].type = "snapshot"
  BY <1>2 DEF After
<1>4. CASE q <= n
  <2>1. q \in 1 .. n /\ q - 1 \in 1 .. n BY <1>1, <1>4
  <2> QED BY <1>1, <1>3, <2>1 DEF After
<1>5. CASE q > n
  <2>1. m = n + 2 /\ downlink'[n + 1].type = "snapshot" BY <1>1, <1>2, <1>5
  <2>2. q # n + 1 BY <2>1
  <2>3. q = n + 2 /\ q - 1 = n + 1 BY <1>1, <1>2, <1>5, <2>1, <2>2
  <2> QED BY <2>1, <2>3
<1>6. q <= n \/ q > n BY <1>1
<1> QED BY <1>4, <1>5, <1>6

\* A queue that has grown, without an answer to the newest write of the location
\* or a word that is not the server's.
Growing(p, a, b) ==
    /\ Grown /\ UNCHANGED <<writes, known, listening, listenUnacked>>
    /\ saved'[p] = saved[p]
    /\ \A i \in 0 .. Len(downlink) : b[i] = a[i]
    /\ \A q \in DOMAIN downlink' : q > Len(downlink) =>
          /\ Speaks(downlink'[q], p) => Says(downlink'[q], p) = saved'[p]
          /\ q = 1 => downlink'[q].type # "listened"
          /\ downlink'[q].type = "answer" => ~Newest(writes, b[q], p)
    /\ \A i \in DOMAIN writes : Newest(writes, i, p) /\ i <= b[Len(downlink')] =>
          i <= a[Len(downlink)]

LEMMA KeptGrows ==
    ASSUME TypeOK, NEW p, NEW a, Kept(p, a), NEW b, Growing(p, a, b)
    PROVE  Kept(p, b)'
<1> USE DEF Growing
<1>1. PICK n \in Nat : n = Len(downlink) /\ DOMAIN downlink = 1 .. n BY DEF TypeOK
<1>2. PICK m \in Nat : m = Len(downlink') /\ DOMAIN downlink' = 1 .. m /\ n <= m
  BY <1>1 DEF Grown
<1>3. \A q \in 1 .. n : downlink'[q] = downlink[q] /\ b[q] = a[q] BY <1>1 DEF Grown
<1>4. \A q \in 1 .. m : q \in 1 .. n \/ q > n BY <1>1, <1>2
<1>5. Settled(p)'
  <2> SUFFICES ASSUME Unwritten(writes, p)
               PROVE  /\ known # Unknown => known[p] = saved[p]
                      /\ \A q \in 1 .. m :
                            Speaks(downlink'[q], p) => Says(downlink'[q], p) = saved'[p]
    BY <1>2 DEF Settled
  <2>1. /\ known # Unknown => known[p] = saved[p]
        /\ \A q \in 1 .. n : Speaks(downlink[q], p) => Says(downlink[q], p) = saved[p]
    BY <1>1 DEF Kept, Settled
  <2> QED BY <1>1, <1>2, <1>3, <1>4, <2>1
<1>6. Stored(p, b)'
  <2> SUFFICES ASSUME NEW i \in DOMAIN writes, Newest(writes, i, p), i <= b[m]
               PROVE  /\ saved'[p] = writes[i].value
                      /\ \A q \in 1 .. m : Speaks(downlink'[q], p) /\ b[q] >= i =>
                                              Says(downlink'[q], p) = saved'[p]
    BY <1>2 DEF Stored
  <2>1. i <= a[n] BY <1>1, <1>2
  <2>2. /\ saved[p] = writes[i].value
        /\ \A q \in 1 .. n : Speaks(downlink[q], p) /\ a[q] >= i =>
                                Says(downlink[q], p) = saved[p]
    BY <1>1, <2>1 DEF Kept, Stored
  <2> QED BY <1>1, <1>2, <1>3, <1>4, <2>2
<1>7. Waiting(p, b)'
  <2> SUFFICES ASSUME NEW i \in DOMAIN writes, Newest(writes, i, p), i <= b[0]
               PROVE  \/ known # Unknown /\ known[p] = writes[i].value
                      \/ downlink' = <<>>
                      \/ downlink'[1].type # "listened"
    BY DEF Waiting
  <2>1. i <= a[0] BY <1>1
  <2>2. CASE m = 0 BY <1>2, <2>2 DEF Grown
  <2>3. CASE m # 0 /\ n = 0
    <3>1. 1 \in 1 .. m /\ 1 > n BY <1>2, <2>3
    <3> QED BY <1>1, <1>2, <3>1
  <2>4. CASE n # 0
    <3>1. downlink # <<>> /\ 1 \in 1 .. n BY <1>1, <2>4
    <3> QED BY <1>3, <2>1, <3>1 DEF Kept, Waiting
  <2> QED BY <2>2, <2>3, <2>4
<1>8. Answered(p, b)'
  <2> SUFFICES ASSUME NEW i \in DOMAIN writes, Newest(writes, i, p),
                      NEW q \in 1 .. m, downlink'[q].type = "answer", b[q] = i
               PROVE  \/ q = 1 /\ known # Unknown /\ known[p] = writes[i].value
                      \/ /\ q > 1 /\ downlink'[q - 1].type = "data"
                         /\ downlink'[q - 1].path = p
                         /\ downlink'[q - 1].value = writes[i].value
                      \/ listenUnacked /\ \A r \in 1 .. q : downlink'[r].type # "listened"
                      \/ ~listening
    BY <1>2 DEF Answered
  <2>1. q \in 1 .. n BY <1>1, <1>2, <1>4
  <2>2. downlink[q].type = "answer" /\ a[q] = i BY <1>3, <2>1
  <2>3. \/ q = 1 /\ known # Unknown /\ known[p] = writes[i].value
        \/ /\ q > 1 /\ downlink[q - 1].type = "data" /\ downlink[q - 1].path = p
           /\ downlink[q - 1].value = writes[i].value
        \/ listenUnacked /\ \A r \in 1 .. q : downlink[r].type # "listened"
        \/ ~listening
    BY <1>1, <2>1, <2>2 DEF Kept, Answered
  <2>4. \A r \in 1 .. q : r \in 1 .. n BY <1>1, <2>1
  <2>5. q > 1 => q - 1 \in 1 .. n BY <1>1, <2>1
  <2> QED BY <1>3, <2>3, <2>4, <2>5
<1> QED BY <1>5, <1>6, <1>7, <1>8 DEF Kept

\* A message is read and k answered writes leave the write tree, the location's
\* newest one only when the client knows what was written.
Popping(p, a, b, k) ==
    /\ downlink # <<>> /\ downlink' = Tail(downlink)
    /\ UNCHANGED <<saved, listening>>
    /\ listenUnacked' = listenUnacked \/ Head(downlink).type = "listened"
    /\ k \in 0 .. Len(writes) /\ k <= a[1]
    /\ \A i \in 0 .. Len(downlink) - 1 : b[i] = a[i + 1] - k
    /\ writes' \in Seq(Write) /\ Len(writes') = Len(writes) - k
    /\ \A i \in 1 .. Len(writes) - k :
          writes'[i].path = writes[k + i].path /\ writes'[i].value = writes[k + i].value
    /\ IF Speaks(Head(downlink), p)
       THEN k = 0 /\ known' # Unknown /\ known'[p] = Says(Head(downlink), p)
       ELSE /\ known' # Unknown <=> known # Unknown
            /\ known # Unknown => known'[p] = known[p]
    /\ \A i \in 1 .. k :
          Newest(writes, i, p) => (known # Unknown => known[p] = writes[i].value)

LEMMA NewestPopped ==
    ASSUME writes \in Seq(Write), NEW p, NEW a, NEW b, NEW k, Popping(p, a, b, k)
    PROVE  /\ \A i \in DOMAIN writes' : i + k \in DOMAIN writes /\ writes'[i].value = writes[i + k].value
           /\ \A i \in DOMAIN writes' : Newest(writes', i, p) => Newest(writes, i + k, p)
           /\ Unwritten(writes', p) =>
                 \/ Unwritten(writes, p)
                 \/ \E i \in 1 .. k : Newest(writes, i, p)
<1> USE DEF Popping
<1>1. PICK l \in Nat : l = Len(writes) /\ DOMAIN writes = 1 .. l OBVIOUS
<1>2. DOMAIN writes' = 1 .. l - k /\ k \in Nat /\ k <= l BY <1>1
<1>3. \A i \in 1 .. l - k : i + k \in 1 .. l /\ i + k = k + i BY <1>1, <1>2
<1>4. \A i \in 1 .. l - k : /\ writes'[i].value = writes[i + k].value
                            /\ writes'[i].path = writes[i + k].path
  BY <1>1, <1>3
<1>5. \A j \in 1 .. l : j > k => j - k \in 1 .. l - k /\ (j - k) + k = j BY <1>1, <1>2
<1>6. ASSUME NEW i \in 1 .. l - k, Newest(writes', i, p) PROVE Newest(writes, i + k, p)
  <2>1. ASSUME NEW j \in 1 .. l, writes[j].path = p PROVE j <= i + k
    <3>1. CASE j > k
      <4>1. writes'[j - k].path = p BY <1>4, <1>5, <2>1, <3>1
      <4>2. j - k <= i BY <1>2, <1>5, <1>6, <3>1, <4>1 DEF Newest
      <4> QED BY <1>2, <4>2
    <3>2. CASE ~(j > k) BY <1>2, <3>2
    <3> QED BY <3>1, <3>2
  <2> QED BY <1>1, <1>2, <1>3, <1>4, <1>6, <2>1 DEF Newest
<1>7. ASSUME Unwritten(writes', p), ~Unwritten(writes, p)
      PROVE  \E i \in 1 .. k : Newest(writes, i, p)
  <2>1. PICK i \in 1 .. l : Newest(writes, i, p) BY <1>1, <1>7, NewestExists
  <2>2. CASE i > k
    <3>1. writes'[i - k].path = p BY <1>4, <1>5, <2>1, <2>2 DEF Newest
    <3> QED BY <1>2, <1>5, <1>7, <2>2, <3>1 DEF Unwritten
  <2>3. CASE ~(i > k)
    <3>1. i \in 1 .. k BY <1>2, <2>3
    <3> QED BY <2>1, <3>1
  <2> QED BY <2>2, <2>3
<1> QED BY <1>1, <1>2, <1>3, <1>4, <1>6, <1>7

LEMMA KeptPops ==
    ASSUME TypeOK, After, NEW p, NEW a, NEW u, Pipe(a, u), Kept(p, a), NEW b, NEW k,
           Popping(p, a, b, k)
    PROVE  Kept(p, b)'
<1>1. PICK n \in Nat \ {0} : n = Len(downlink) /\ DOMAIN downlink = 1 .. n
  BY TailShape DEF TypeOK, Popping
<1>2. /\ DOMAIN downlink' = 1 .. n - 1 /\ Len(downlink') = n - 1
      /\ Head(downlink) = downlink[1]
      /\ \A i \in 1 .. n - 1 : downlink'[i] = downlink[i + 1]
  BY <1>1, TailShape DEF TypeOK, Popping
<1>3. \A i \in 0 .. n - 1 : i + 1 \in 0 .. n /\ b[i] = a[i + 1] - k /\ a[i + 1] \in Nat
  <2>1. \A i \in 0 .. n : a[i] \in Nat BY <1>1, PipeBounds
  <2> QED BY <1>1, <2>1 DEF Popping
<1>4. writes \in Seq(Write) /\ DOMAIN writes \subseteq Nat BY DEF TypeOK
<1>5. k \in Nat BY <1>4 DEF Popping
<1>6. /\ \A i \in DOMAIN writes' : i + k \in DOMAIN writes /\ writes'[i].value = writes[i + k].value
      /\ \A i \in DOMAIN writes' : Newest(writes', i, p) => Newest(writes, i + k, p)
      /\ Unwritten(writes', p) => \/ Unwritten(writes, p)
                                  \/ \E i \in 1 .. k : Newest(writes, i, p)
  BY <1>4, NewestPopped
<1>7. DOMAIN writes' \subseteq Nat BY DEF Popping
<1>8. 1 \in 1 .. n /\ \A q \in 1 .. n - 1 : q + 1 \in 1 .. n BY <1>1
<1>9. a[1] \in Nat /\ a[1] <= a[n] /\ \A q \in 1 .. n : a[1] <= a[q]
  BY <1>1, <1>3, <1>8 DEF Pipe, Counts
<1>10. saved' = saved /\ listening' = listening BY DEF Popping
<1>11. Settled(p)'
  <2> SUFFICES ASSUME Unwritten(writes', p)
               PROVE  /\ known' # Unknown => known'[p] = saved[p]
                      /\ \A q \in 1 .. n - 1 :
                            Speaks(downlink'[q], p) => Says(downlink'[q], p) = saved[p]
    BY <1>2, <1>10 DEF Settled
  <2>1. CASE Unwritten(writes, p)
    <3>1. /\ known # Unknown => known[p] = saved[p]
          /\ \A q \in 1 .. n : Speaks(downlink[q], p) => Says(downlink[q], p) = saved[p]
      BY <1>1, <2>1 DEF Kept, Settled
    <3> QED BY <1>2, <1>8, <3>1 DEF Popping
  <2>2. CASE \E i \in 1 .. k : Newest(writes, i, p)
    <3>1. PICK i \in 1 .. k : Newest(writes, i, p) BY <2>2
    <3>2. i \in DOMAIN writes /\ i <= a[1] /\ ~Speaks(Head(downlink), p)
          /\ (known # Unknown => known[p] = writes[i].value)
      BY <1>5, <1>9, <3>1 DEF Popping, Newest
    <3>3. i <= a[n] /\ \A q \in 1 .. n : a[q] >= i
      BY <1>1, <1>9, <1>4, <3>2, PipeBounds
    <3>4. /\ saved[p] = writes[i].value
          /\ \A q \in 1 .. n : Speaks(downlink[q], p) => Says(downlink[q], p) = saved[p]
      BY <1>1, <3>1, <3>2, <3>3 DEF Kept, Stored
    <3> QED BY <1>2, <1>8, <3>2, <3>4 DEF Popping
  <2> QED BY <1>6, <2>1, <2>2
<1>12. Stored(p, b)'
  <2> SUFFICES ASSUME NEW i \in DOMAIN writes', Newest(writes', i, p), i <= b[n - 1]
               PROVE  /\ saved[p] = writes'[i].value
                      /\ \A q \in 1 .. n - 1 : Speaks(downlink'[q], p) /\ b[q] >= i =>
                                                  Says(downlink'[q], p) = saved[p]
    BY <1>2, <1>10 DEF Stored
  <2>1. b[n - 1] = a[n] - k /\ a[n] \in Nat
    <3>1. n - 1 \in 0 .. n - 1 /\ (n - 1) + 1 = n BY <1>1
    <3> QED BY <1>3, <3>1
  <2>2. i \in Nat /\ i + k <= a[n] BY <1>5, <1>7, <2>1
  <2>3. /\ saved[p] = writes[i + k].value
        /\ \A q \in 1 .. n : Speaks(downlink[q], p) /\ a[q] >= i + k =>
                                Says(downlink[q], p) = saved[p]
    BY <1>1, <1>6, <2>2 DEF Kept, Stored
  <2>4. ASSUME NEW q \in 1 .. n - 1, Speaks(downlink'[q], p), b[q] >= i
        PROVE  Says(downlink'[q], p) = saved[p]
    <3>1. b[q] = a[q + 1] - k /\ a[q + 1] \in Nat BY <1>3
    <3>2. a[q + 1] >= i + k BY <1>5, <2>2, <2>4, <3>1
    <3> QED BY <1>2, <1>8, <2>3, <2>4, <3>2
  <2> QED BY <1>6, <2>3, <2>4
<1>13. Waiting(p, b)'
  <2> SUFFICES ASSUME NEW i \in DOMAIN writes', Newest(writes', i, p), i <= b[0]
               PROVE  \/ known' # Unknown /\ known'[p] = writes'[i].value
                      \/ downlink' = <<>>
                      \/ downlink'[1].type # "listened"
    BY DEF Waiting
  <2>1. CASE Head(downlink).type # "snapshot" BY <2>1, AfterPops DEF Popping
  <2>2. CASE Head(downlink).type = "snapshot"
    <3>1. Speaks(downlink[1], p) BY <1>2, <2>2 DEF Speaks
    <3>2. b[0] = a[1] - k
      <4>1. 0 \in 0 .. n - 1 /\ 0 + 1 = 1 BY <1>1
      <4> QED BY <1>3, <4>1
    <3>3. i \in Nat /\ i + k <= a[1] BY <1>5, <1>7, <1>9, <3>2
    <3>4. i + k <= a[n] /\ a[n] \in Nat BY <1>1, <1>5, <1>9, <3>3, PipeBounds
    <3>5. saved[p] = writes[i + k].value /\ Says(downlink[1], p) = saved[p]
      BY <1>1, <1>5, <1>6, <1>8, <1>9, <3>1, <3>3, <3>4 DEF Kept, Stored
    <3>6. known' # Unknown /\ known'[p] = Says(downlink[1], p) BY <1>2, <3>1 DEF Popping
    <3> QED BY <1>6, <3>5, <3>6
  <2> QED BY <2>1, <2>2
<1>14. Answered(p, b)'
  <2> SUFFICES ASSUME NEW i \in DOMAIN writes', Newest(writes', i, p),
                      NEW q \in 1 .. n - 1, downlink'[q].type = "answer", b[q] = i
               PROVE  \/ q = 1 /\ known' # Unknown /\ known'[p] = writes'[i].value
                      \/ /\ q > 1 /\ downlink'[q - 1].type = "data"
                         /\ downlink'[q - 1].path = p
                         /\ downlink'[q - 1].value = writes'[i].value
                      \/ listenUnacked' /\ \A r \in 1 .. q : downlink'[r].type # "listened"
                      \/ ~listening
    BY <1>2, <1>10 DEF Answered
  <2>1. b[q] = a[q + 1] - k /\ a[q + 1] \in Nat BY <1>3
  <2>2. a[q + 1] = i + k BY <1>5, <1>7, <2>1
  <2>3. q + 1 \in 1 .. n /\ downlink[q + 1].type = "answer" BY <1>2, <1>8
  <2>4. \/ q + 1 = 1
        \/ /\ downlink[(q + 1) - 1].type = "data" /\ downlink[(q + 1) - 1].path = p
           /\ downlink[(q + 1) - 1].value = writes[i + k].value
        \/ listenUnacked /\ \A r \in 1 .. q + 1 : downlink[r].type # "listened"
        \/ ~listening
    BY <1>1, <1>6, <2>2, <2>3 DEF Kept, Answered
  <2>5. q + 1 # 1 /\ (q + 1) - 1 = q BY <1>1
  <2>6. CASE /\ downlink[q].type = "data" /\ downlink[q].path = p
             /\ downlink[q].value = writes[i + k].value
    <3>1. CASE q = 1
      <4>1. Speaks(Head(downlink), p) /\ Says(Head(downlink), p) = writes[i + k].value
        BY <1>2, <2>6, <3>1 DEF Speaks, Says
      <4> QED BY <1>6, <3>1, <4>1 DEF Popping
    <3>2. CASE q # 1
      <4>1. q > 1 /\ q - 1 \in 1 .. n - 1 /\ (q - 1) + 1 = q BY <1>1, <3>2
      <4> QED BY <1>2, <1>6, <2>6, <4>1
    <3> QED BY <3>1, <3>2
  <2>7. CASE listenUnacked /\ \A r \in 1 .. q + 1 : downlink[r].type # "listened"
    <3>1. 1 \in 1 .. q + 1 /\ \A r \in 1 .. q : r + 1 \in 1 .. q + 1 /\ r \in 1 .. n - 1
      BY <1>1
    <3>2. listenUnacked' BY <1>2, <2>7, <3>1 DEF Popping
    <3> QED BY <1>2, <2>7, <3>1, <3>2
  <2> QED BY <2>4, <2>5, <2>6, <2>7
<1> QED BY <1>11, <1>12, <1>13, <1>14 DEF Kept

\* What is shown stays.
LEMMA ShownPops ==
    ASSUME TypeOK, NEW p \in Listened, NEW a, NEW b, NEW k, Kept(p, a), Popping(p, a, b, k),
           known # Unknown, known' # Unknown
    PROVE  Shown(known', writes')[p] = Shown(known, writes)[p]
<1>1. writes \in Seq(Write) /\ writes' \in Seq(Write) BY DEF TypeOK, Popping
<1>2. /\ \A i \in DOMAIN writes' : i + k \in DOMAIN writes /\ writes'[i].value = writes[i + k].value
      /\ \A i \in DOMAIN writes' : Newest(writes', i, p) => Newest(writes, i + k, p)
      /\ Unwritten(writes', p) => \/ Unwritten(writes, p)
                                  \/ \E i \in 1 .. k : Newest(writes, i, p)
  BY <1>1, NewestPopped
<1>3. CASE Unwritten(writes', p)
  <2>1. Shown(known', writes')[p] = known'[p] BY <1>1, <1>3, ShownIs
  <2>2. CASE Unwritten(writes, p)
    <3>1. Shown(known, writes)[p] = known[p] BY <1>1, <2>2, ShownIs
    <3>2. known'[p] = known[p]
      <4>1. Head(downlink) = downlink[1] /\ 1 \in DOMAIN downlink
        BY TailShape DEF TypeOK, Popping
      <4> QED BY <2>2, <4>1 DEF Kept, Settled, Popping
    <3> QED BY <2>1, <3>1, <3>2
  <2>3. CASE \E i \in 1 .. k : Newest(writes, i, p)
    <3>1. PICK i \in 1 .. k : Newest(writes, i, p) BY <2>3
    <3>2. i \in DOMAIN writes /\ ~Speaks(Head(downlink), p) /\ known[p] = writes[i].value
      <4>1. k # 0 BY <3>1
      <4>2. i \in DOMAIN writes BY <3>1 DEF Newest
      <4>3. ~Speaks(Head(downlink), p) BY <4>1 DEF Popping
      <4>4. known[p] = writes[i].value BY <3>1 DEF Popping
      <4> QED BY <4>2, <4>3, <4>4
    <3>3. Shown(known, writes)[p] = writes[i].value BY <1>1, <3>1, <3>2, ShownIs
    <3> QED BY <2>1, <3>2, <3>3 DEF Popping
  <2> QED BY <1>2, <1>3, <2>2, <2>3
<1>4. CASE ~Unwritten(writes', p)
  <2>1. PICK i \in DOMAIN writes' : Newest(writes', i, p) BY <1>1, <1>4, NewestExists
  <2>2. Shown(known', writes')[p] = writes'[i].value BY <1>1, <2>1, ShownIs
  <2>3. Shown(known, writes)[p] = writes[i + k].value
    <3>1. i + k \in DOMAIN writes /\ Newest(writes, i + k, p) BY <1>2, <2>1
    <3> QED BY <1>1, <3>1, ShownIs
  <2> QED BY <1>2, <2>1, <2>2, <2>3
<1> QED BY <1>3, <1>4

\* The four messages that the client reads.
LEMMA PoppingReads ==
    ASSUME Good, NEW a, NEW u, Pipe(a, u), ReceiveSnapshot \/ ReceiveData
    PROVE  \E b : Pipe(b, u)' /\ \A p \in Listened : Popping(p, a, b, 0)
<1>1. TypeOK BY DEF Good
<1>2. /\ downlink # <<>> /\ downlink' = Tail(downlink)
      /\ UNCHANGED <<saved, listening, listenUnacked, writes>>
  BY DEF ReceiveSnapshot, ReceiveData, Reads, server
<1>3. PICK b : /\ Pipe(b, u)' /\ b[0] = a[0]
               /\ \A i \in 0 .. Len(downlink) - 1 : b[i] = a[i + 1]
  BY <1>1, PipeReadsData
<1>4. PICK n \in Nat \ {0} : n = Len(downlink) BY <1>1, <1>2, TailShape DEF TypeOK
<1>5. \A i \in 0 .. n - 1 : a[i + 1] \in Nat /\ b[i] = a[i + 1] - 0
  <2>1. \A i \in 0 .. n - 1 : i + 1 \in 0 .. n BY <1>4
  <2>2. \A i \in 0 .. n - 1 : a[i + 1] \in Nat BY <1>1, <1>4, <2>1, PipeBounds
  <2> QED BY <1>3, <1>4, <2>2
<1>6. 0 <= a[1]
  <2>1. 0 \in 0 .. n - 1 /\ 0 + 1 = 1 BY <1>4
  <2>2. a[1] \in Nat BY <1>5, <2>1
  <2> QED BY <2>2
<1>7. /\ 0 \in 0 .. Len(writes) /\ writes' \in Seq(Write)
      /\ Len(writes') = Len(writes) - 0
      /\ \A i \in 1 .. Len(writes) - 0 :
            writes'[i].path = writes[0 + i].path /\ writes'[i].value = writes[0 + i].value
  BY <1>1, <1>2 DEF TypeOK
<1>8. Head(downlink) \in Downlink BY <1>1, <1>2, TailShape DEF TypeOK
<1>9. ASSUME NEW p \in Listened
      PROVE  IF Speaks(Head(downlink), p)
             THEN known' # Unknown /\ known'[p] = Says(Head(downlink), p)
             ELSE /\ known' # Unknown <=> known # Unknown
                  /\ known # Unknown => known'[p] = known[p]
  <2>1. CASE ReceiveSnapshot
    <3>1. Head(downlink).type = "snapshot" /\ known' = Head(downlink).data
      BY <2>1 DEF ReceiveSnapshot, Reads
    <3>2. known' # Unknown BY <1>8, <3>1, DownlinkTypes, UnknownAssumption
    <3> QED BY <3>1, <3>2 DEF Speaks, Says
  <2>2. CASE ReceiveData
    <3>1. /\ Head(downlink).type = "data"
          /\ known' = [known EXCEPT ![Head(downlink).path] = Head(downlink).value]
      BY <2>2 DEF ReceiveData, Reads
    <3>2. known \in Data BY <2>2, GoodReceiveData
    <3>3. Head(downlink).path \in Listened /\ Head(downlink).value \in Content
      BY <1>8, <3>1, DownlinkTypes
    <3>4. known' \in Data BY <3>1, <3>2, <3>3 DEF Data
    <3>5. known' # Unknown /\ known # Unknown BY <3>2, <3>4, UnknownAssumption
    <3>6. known'[p] = IF p = Head(downlink).path THEN Head(downlink).value ELSE known[p]
      BY <3>1, <3>2 DEF Data
    <3> QED BY <3>1, <3>5, <3>6 DEF Speaks, Says
  <2> QED BY <2>1, <2>2
<1>10. \A p \in Listened : Popping(p, a, b, 0)
  BY <1>2, <1>4, <1>5, <1>6, <1>7, <1>9 DEF Popping
<1> QED BY <1>3, <1>10

LEMMA PoppingListened ==
    ASSUME Good, NEW a, NEW u, Pipe(a, u), ReceiveListenResponse
    PROVE  \E b, v : Pipe(b, v)' /\ \A p : Kept(p, a) => Popping(p, a, b, a[0])
<1>1. TypeOK /\ Wire BY DEF Good
<1>2. /\ downlink # <<>> /\ downlink' = Tail(downlink) /\ Head(downlink).type = "listened"
      /\ UNCHANGED <<saved, listening, known>>
  BY DEF ReceiveListenResponse, Reads, server
<1>3. PICK b, v : /\ Pipe(b, v)'
                  /\ \A i \in 0 .. Len(downlink) - 1 : b[i] = a[i + 1] - a[0]
                  /\ b[0] = 0 /\ a[1] = a[0]
                  /\ writes' \in Seq(Write) /\ Len(writes') = Len(writes) - a[0]
                  /\ \A i \in 1 .. Len(writes) - a[0] : writes'[i] = writes[a[0] + i]
  BY <1>1, PipeListened
<1>4. a[0] \in 0 .. Len(writes) /\ a[0] <= a[1] BY <1>1, <1>3, PipeBounds
<1>5. \A p : ~Speaks(Head(downlink), p) BY <1>2 DEF Speaks
<1>6. ASSUME NEW p, Kept(p, a), NEW i \in 1 .. a[0], Newest(writes, i, p), known # Unknown
      PROVE  known[p] = writes[i].value
  <2>1. i \in DOMAIN writes /\ i <= a[0] BY <1>4, <1>6 DEF Newest
  <2>2. Head(downlink) = downlink[1] BY <1>1, <1>2, TailShape DEF TypeOK
  <2> QED BY <1>2, <1>6, <2>1, <2>2 DEF Kept, Waiting
<1>7. ASSUME NEW p, Kept(p, a) PROVE Popping(p, a, b, a[0])
  BY <1>2, <1>3, <1>4, <1>5, <1>6, <1>7 DEF Popping
<1> QED BY <1>3, <1>7

LEMMA PoppingAnswer ==
    ASSUME Good, NEW a, NEW u, Pipe(a, u), ReceiveAnswer
    PROVE  \E b, v, k : Pipe(b, v)' /\ \A p : Kept(p, a) => Popping(p, a, b, k)
<1>1. TypeOK /\ Wire BY DEF Good
<1>2. /\ downlink # <<>> /\ downlink' = Tail(downlink) /\ Head(downlink).type = "answer"
      /\ UNCHANGED <<saved, listening, listenUnacked, known>>
  BY DEF ReceiveAnswer, Reads, server
<1>3. PICK l \in Nat : l = Len(writes) /\ DOMAIN writes = 1 .. l BY <1>1 DEF TypeOK
<1>4. PICK n \in Nat \ {0} : n = Len(downlink) /\ DOMAIN downlink = 1 .. n
  BY <1>1, <1>2, TailShape DEF TypeOK
<1>5. \A i \in 0 .. n - 1 : a[i + 1] \in Nat
  <2>1. \A i \in 0 .. n - 1 : i + 1 \in 0 .. n BY <1>4
  <2> QED BY <1>1, <1>4, <2>1, PipeBounds
<1>6. a[0] \in Nat /\ a[0] + 1 \in 1 .. l /\ a[1] = a[0] + 1 BY <1>1, <1>3, PipeAnswer, PipeBounds
<1>7. \A p : ~Speaks(Head(downlink), p) BY <1>2 DEF Speaks
<1>8. Head(downlink) = downlink[1] /\ 1 \in DOMAIN downlink
  BY <1>1, <1>2, TailShape DEF TypeOK
<1>9. writes' \in Seq(Write)
  <2>1. Good' BY GoodReceiveAnswer
  <2> QED BY <2>1 DEF Good, TypeOK
<1>10. CASE /\ listenUnacked
            /\ writes' = [writes EXCEPT ![a[0] + 1].status = Head(downlink).status]
            /\ \E c : Pipe(c, u)' /\ \A i \in 0 .. Len(downlink) - 1 : c[i] = a[i + 1]
  <2>1. PICK b : Pipe(b, u)' /\ \A i \in 0 .. n - 1 : b[i] = a[i + 1] BY <1>4, <1>10
  <2>2. \A i \in 0 .. n - 1 : b[i] = a[i + 1] - 0 BY <1>5, <2>1
  <2>3. \A i \in 1 .. l : writes[i] \in Write BY <1>1, <1>3 DEF TypeOK
  <2>4. /\ Len(writes') = Len(writes) - 0
        /\ \A i \in 1 .. Len(writes) - 0 :
              writes'[i].path = writes[0 + i].path /\ writes'[i].value = writes[0 + i].value
    <3>1. DOMAIN writes' = 1 .. l BY <1>3, <1>10
    <3>2. Len(writes') = l BY <1>3, <1>9, <3>1
    <3>3. ASSUME NEW i \in 1 .. l
          PROVE  writes'[i].path = writes[i].path /\ writes'[i].value = writes[i].value
      BY <1>3, <1>10, <2>3 DEF Write
    <3>4. l - 0 = l /\ \A i \in 1 .. l : 0 + i = i BY <1>3
    <3> QED BY <1>3, <3>2, <3>3, <3>4
  <2>5. 0 \in 0 .. Len(writes) /\ 0 <= a[1] BY <1>3, <1>6
  <2>6. ASSUME NEW p PROVE Popping(p, a, b, 0)
    BY <1>2, <1>4, <1>7, <1>9, <2>2, <2>4, <2>5 DEF Popping
  <2> QED BY <2>1, <2>6
<1>11. CASE /\ ~listenUnacked /\ a[0] = 0
            /\ writes # <<>> /\ writes' = Tail(writes)
            /\ \E c, v : /\ Pipe(c, v)'
                         /\ \A i \in 0 .. Len(downlink) - 1 : c[i] = a[i + 1] - 1
  <2>1. PICK b, v : Pipe(b, v)' /\ \A i \in 0 .. n - 1 : b[i] = a[i + 1] - 1 BY <1>4, <1>11
  <2>2. /\ Len(writes') = Len(writes) - 1
        /\ \A i \in 1 .. Len(writes) - 1 :
              writes'[i].path = writes[1 + i].path /\ writes'[i].value = writes[1 + i].value
    <3>1. Len(writes') = l - 1 /\ \A i \in 1 .. l - 1 : writes'[i] = writes[i + 1]
      BY <1>1, <1>3, <1>11, TailShape DEF TypeOK
    <3>2. \A i \in 1 .. l - 1 : 1 + i = i + 1 BY <1>3
    <3> QED BY <1>3, <3>1, <3>2
  <2>3. 1 \in 0 .. Len(writes) /\ 1 <= a[1] BY <1>3, <1>6, <1>11
  <2>4. ASSUME NEW p, Kept(p, a), NEW i \in 1 .. 1, Newest(writes, i, p), known # Unknown
        PROVE  known[p] = writes[i].value
    <3>1. i \in DOMAIN writes /\ a[1] = i /\ 1 \in 1 .. 1 BY <1>6, <1>11, <2>4 DEF Newest
    <3>2. downlink[1].type # "listened" /\ downlink[1].type = "answer" BY <1>2, <1>8
    <3>3. \/ 1 = 1 /\ known # Unknown /\ known[p] = writes[i].value
          \/ 1 > 1
          \/ listenUnacked
          \/ ~listening
      BY <1>8, <2>4, <3>1, <3>2 DEF Kept, Answered
    <3> QED BY <1>1, <1>11, <2>4, <3>3 DEF Wire
  <2>5. ASSUME NEW p, Kept(p, a) PROVE Popping(p, a, b, 1)
    BY <1>2, <1>4, <1>7, <1>9, <2>1, <2>2, <2>3, <2>4, <2>5 DEF Popping
  <2> QED BY <2>1, <2>5
<1> QED BY <1>1, <1>10, <1>11, PipeAnswer

\* The other steps.
LEMMA KeptSet ==
    ASSUME Good, NEW a, NEW u, Pipe(a, u), NEW p, Kept(p, a),
           NEW path \in Path, NEW value \in Content, Set(path, value)
    PROVE  Kept(p, a)'
<1> DEFINE w == [path |-> path, value |-> value, status |-> "out"]
<1>1. /\ writes' = Append(writes, w)
      /\ UNCHANGED <<saved, downlink, listening, listenUnacked, known>>
  BY DEF Set, server
<1>2. TypeOK BY DEF Good
<1>3. writes \in Seq(Write) BY <1>2 DEF TypeOK
<1>4. w \in Write BY DEF Write
<1> HIDE DEF w
<1>5. PICK l \in Nat : l = Len(writes) /\ DOMAIN writes = 1 .. l BY <1>3
<1>6. /\ DOMAIN writes' = 1 .. l + 1
      /\ \A i \in 1 .. l : i \in 1 .. l + 1 /\ writes'[i] = writes[i]
  <2>1. writes' \in Seq(Write) /\ Len(writes') = l + 1
        /\ \A i \in 1 .. l : writes'[i] = writes[i]
    BY <1>1, <1>3, <1>4, <1>5, AppendShape
  <2> QED BY <1>5, <2>1
<1>7. \A i \in 1 .. l : Newest(writes', i, p) => Newest(writes, i, p)
  BY <1>5, <1>6 DEF Newest
<1>8. Unwritten(writes', p) => Unwritten(writes, p) BY <1>5, <1>6 DEF Unwritten
<1>9. PICK n \in Nat : n = Len(downlink) /\ DOMAIN downlink = 1 .. n BY <1>2 DEF TypeOK
<1>10. \A q \in 0 .. n : a[q] \in Nat /\ a[q] <= l
  <2>1. \A q \in 0 .. n : a[q] \in Nat /\ a[q] <= u[0] BY <1>2, <1>9, PipeBounds
  <2>2. u[0] \in Nat /\ u[0] <= l BY <1>2, <1>5, PipeBounds
  <2> QED BY <1>5, <2>1, <2>2
<1>11. ASSUME NEW q \in 0 .. n, NEW i \in 1 .. l + 1, i <= a[q] PROVE i \in 1 .. l
  BY <1>5, <1>10, <1>11
<1>12. Settled(p)' BY <1>1, <1>8 DEF Kept, Settled
<1>13. Stored(p, a)'
  <2>1. \A i \in 1 .. l + 1 : i <= a[n] => i \in 1 .. l BY <1>9, <1>11
  <2> QED BY <1>1, <1>5, <1>6, <1>7, <1>9, <2>1 DEF Kept, Stored
<1>14. Waiting(p, a)'
  <2>1. \A i \in 1 .. l + 1 : i <= a[0] => i \in 1 .. l BY <1>9, <1>11
  <2> QED BY <1>1, <1>5, <1>6, <1>7, <2>1 DEF Kept, Waiting
<1>15. Answered(p, a)'
  <2>1. ASSUME NEW q \in 1 .. n, NEW i \in 1 .. l + 1, a[q] = i PROVE i \in 1 .. l
    <3>1. q \in 0 .. n /\ i <= a[q] BY <1>5, <2>1
    <3> QED BY <1>11, <3>1
  <2> QED BY <1>1, <1>5, <1>6, <1>7, <1>9, <2>1 DEF Kept, Answered
<1> QED BY <1>12, <1>13, <1>14, <1>15 DEF Kept

LEMMA KeptObserve ==
    ASSUME Good, NEW a, NEW p, Kept(p, a), Observe
    PROVE  Kept(p, a)'
<1>1. /\ ~listening /\ listenUnacked' = connected
      /\ UNCHANGED <<saved, downlink, writes, known>>
  BY DEF Observe, server
<1>2. /\ \A q \in DOMAIN downlink : downlink[q].type = "answer"
      /\ downlink # <<>> => connected
  BY <1>1 DEF Good, Wire
<1>3. PICK n \in Nat : n = Len(downlink) /\ DOMAIN downlink = 1 .. n BY DEF Good, TypeOK
<1>4. ASSUME NEW q \in 1 .. n
      PROVE  listenUnacked' /\ \A r \in 1 .. q : downlink[r].type # "listened"
  <2>1. downlink # <<>> /\ \A r \in 1 .. q : r \in 1 .. n BY <1>3
  <2> QED BY <1>1, <1>2, <1>3, <2>1
<1>5. Answered(p, a)' BY <1>1, <1>3, <1>4 DEF Answered
<1> QED BY <1>1, <1>5 DEF Kept, Settled, Stored, Waiting

LEMMA KeptConnect ==
    ASSUME Good, NEW a, NEW p, Kept(p, a), Connect
    PROVE  Kept(p, a)'
<1>1. ~connected /\ UNCHANGED <<saved, downlink, writes, known>> BY DEF Connect, server
<1>2. downlink = <<>> BY <1>1 DEF Good, Wire
<1>3. Answered(p, a)' BY <1>1, <1>2 DEF Answered
<1> QED BY <1>1, <1>3 DEF Kept, Settled, Stored, Waiting

LEMMA KeptDropped ==
    ASSUME Good, NEW a, NEW u, Pipe(a, u), NEW p, Kept(p, a), NEW b,
           \/ Disconnect /\ b[0] = a[0]
           \/ Kill
    PROVE  Kept(p, b)'
<1>1. CASE Disconnect /\ b[0] = a[0]
  <2>1. downlink' = <<>> /\ UNCHANGED <<saved, writes, known>> BY <1>1 DEF Disconnect
  <2>2. DOMAIN downlink' = {} /\ Len(downlink') = 0 BY <2>1
  <2>3. PICK n \in Nat : n = Len(downlink) BY DEF Good, TypeOK
  <2>4. a[0] \in Nat /\ a[n] \in Nat /\ a[0] <= a[n]
    <3>1. n \in 0 .. n BY <2>3
    <3> QED BY <2>3, <3>1, PipeBounds DEF Good
  <2>5. DOMAIN writes \subseteq Nat BY DEF Good, TypeOK
  <2>6. \A i \in DOMAIN writes : i <= b[0] => i <= a[n] BY <1>1, <2>4, <2>5
  <2>7. Settled(p)' BY <2>1, <2>2 DEF Kept, Settled
  <2>8. Stored(p, b)' BY <2>1, <2>2, <2>3, <2>6 DEF Kept, Stored
  <2>9. Waiting(p, b)' BY <2>1 DEF Waiting
  <2>10. Answered(p, b)' BY <2>2 DEF Answered
  <2> QED BY <2>7, <2>8, <2>9, <2>10 DEF Kept
<1>2. CASE Kill
  <2>1. downlink' = <<>> /\ writes' = <<>> /\ known' = Unknown BY <1>2 DEF Kill
  <2>2. DOMAIN downlink' = {} /\ DOMAIN writes' = {} BY <2>1
  <2> QED BY <2>1, <2>2 DEF Kept, Settled, Stored, Waiting, Answered
<1> QED BY <1>1, <1>2

LEMMA AfterServeListen ==
    ASSUME Good, After, ServeListen
    PROVE  After'
<1>1. TypeOK BY DEF Good
<1>2. downlink \in Seq(Downlink) BY <1>1 DEF TypeOK
<1>3. PICK n \in Nat : n = Len(downlink) /\ DOMAIN downlink = 1 .. n BY <1>2
<1>4. PICK e \in Downlink : e = Snapshot /\ e.type = "snapshot"
  BY <1>1, SnapshotType DEF TypeOK
<1>5. PICK f \in Downlink : f = ListenResponse BY MessageTypes
<1>6. downlink' = downlink \o <<e, f>> BY <1>4, <1>5 DEF ServeListen
<1>7. /\ downlink' \in Seq(Downlink) /\ Len(downlink') = n + 2
      /\ \A i \in 1 .. n : downlink'[i] = downlink[i]
      /\ downlink'[n + 1] = e
  BY <1>2, <1>3, <1>6, AppendTwo
<1>8. Grown BY <1>3, <1>7 DEF Grown
<1> QED BY <1>1, <1>3, <1>4, <1>7, <1>8, AfterGrows

LEMMA GrowingServeListen ==
    ASSUME Good, NEW a, NEW b, NEW p \in Listened, ServeListen,
           \A i \in 0 .. Len(downlink) : b[i] = a[i],
           b[Len(downlink) + 1] = a[Len(downlink)],
           b[Len(downlink) + 2] = a[Len(downlink)]
    PROVE  Growing(p, a, b)
<1>1. /\ downlink' = downlink \o <<Snapshot, ListenResponse>>
      /\ UNCHANGED <<saved, writes, known, listening, listenUnacked>>
  BY DEF ServeListen, client
<1>2. TypeOK BY DEF Good
<1>3. downlink \in Seq(Downlink) BY <1>2 DEF TypeOK
<1>4. PICK n \in Nat : n = Len(downlink) /\ DOMAIN downlink = 1 .. n BY <1>3
<1>5. PICK e \in Downlink : e = Snapshot /\ e.type = "snapshot"
                            /\ \A o \in Listened : e.data[o] = saved[o]
  BY <1>2, SnapshotType DEF TypeOK
<1>6. PICK f \in Downlink : f = ListenResponse /\ f.type = "listened" BY MessageTypes
<1>7. /\ downlink' \in Seq(Downlink) /\ Len(downlink') = n + 2
      /\ \A i \in 1 .. n : downlink'[i] = downlink[i]
      /\ downlink'[n + 1] = e /\ downlink'[n + 2] = f
  BY <1>1, <1>3, <1>4, <1>5, <1>6, AppendTwo
<1>8. DOMAIN downlink' = 1 .. n + 2 /\ \A q \in 1 .. n + 2 : q > n => q = n + 1 \/ q = n + 2
  BY <1>4, <1>7
<1>9. Grown BY <1>4, <1>7 DEF Grown
<1>10. ASSUME NEW q \in 1 .. n + 2, q > n
       PROVE  /\ Speaks(downlink'[q], p) => Says(downlink'[q], p) = saved'[p]
              /\ q = 1 => downlink'[q].type # "listened"
              /\ downlink'[q].type # "answer"
  <2>1. CASE q = n + 1 BY <1>1, <1>5, <1>7, <2>1 DEF Says
  <2>2. CASE q = n + 2
    <3>1. q # 1 BY <1>4, <2>2
    <3> QED BY <1>6, <1>7, <2>2, <3>1 DEF Speaks
  <2> QED BY <1>8, <1>10, <2>1, <2>2
<1>11. b[Len(downlink')] = a[Len(downlink)] BY <1>4, <1>7
<1> QED BY <1>1, <1>4, <1>8, <1>9, <1>10, <1>11 DEF Growing

LEMMA AfterServePut ==
    ASSUME Good, Good', After, ServePut \/ RefusePut
    PROVE  /\ After' /\ Grown /\ UNCHANGED <<writes, known, listening, listenUnacked>>
           /\ Len(downlink) \in Nat
           /\ \/ /\ Len(downlink') = Len(downlink) + 1
                 /\ ServePut => ~(served /\ Head(uplink).path \in Listened)
              \/ /\ Len(downlink') = Len(downlink) + 2
                 /\ ServePut /\ served /\ Head(uplink).path \in Listened
                 /\ downlink'[Len(downlink) + 1] = DataMessage(Head(uplink).path)
           /\ downlink'[Len(downlink')].type = "answer"
<1>1. TypeOK /\ saved' \in [Path -> Content] BY DEF Good, TypeOK
<1>2. downlink \in Seq(Downlink) BY <1>1 DEF TypeOK
<1>3. PICK n \in Nat : n = Len(downlink) /\ DOMAIN downlink = 1 .. n BY <1>2
<1>4. UNCHANGED <<writes, known, listening, listenUnacked>>
  BY DEF ServePut, RefusePut, client
<1>5. PICK status \in {"ok", "refused"} :
        \/ ServePut /\ status = "ok"
        \/ downlink' = Append(downlink, PutResponse(status)) /\ RefusePut
  BY DEF RefusePut
<1>6. PICK f \in Downlink : f = PutResponse(status) /\ f.type = "answer" BY MessageTypes
<1>7. CASE /\ ServePut /\ served /\ Head(uplink).path \in Listened
           /\ downlink' = downlink \o <<DataMessage(Head(uplink).path), PutResponse("ok")>>
  <2>1. PICK e \in Downlink : e = DataMessage(Head(uplink).path) /\ e.type = "data"
    BY <1>1, <1>7, DataMessageType
  <2>2. PICK g \in Downlink : g = PutResponse("ok") /\ g.type = "answer" BY MessageTypes
  <2>3. /\ downlink' \in Seq(Downlink) /\ Len(downlink') = n + 2
        /\ \A i \in 1 .. n : downlink'[i] = downlink[i]
        /\ downlink'[n + 1] = e /\ downlink'[n + 2] = g
    BY <1>2, <1>3, <1>7, <2>1, <2>2, AppendTwo
  <2>4. Grown BY <1>3, <2>3 DEF Grown
  <2>5. \A q \in DOMAIN downlink' : q > n => downlink'[q].type # "listened"
    <3>1. DOMAIN downlink' = 1 .. n + 2 /\ \A q \in 1 .. n + 2 : q > n => q = n + 1 \/ q = n + 2
      BY <1>3, <2>3
    <3> QED BY <2>1, <2>2, <2>3, <3>1
  <2>6. After' BY <1>1, <1>3, <2>4, <2>5, AfterGrows
  <2> QED BY <1>3, <1>4, <1>7, <2>1, <2>2, <2>3, <2>4, <2>6
<1>8. CASE /\ ServePut => ~(served /\ Head(uplink).path \in Listened)
           /\ \E g \in Downlink : g.type = "answer" /\ downlink' = Append(downlink, g)
  <2>1. PICK g \in Downlink : g.type = "answer" /\ downlink' = Append(downlink, g) BY <1>8
  <2>2. /\ downlink' \in Seq(Downlink) /\ Len(downlink') = n + 1
        /\ \A i \in 1 .. n : downlink'[i] = downlink[i]
        /\ downlink'[n + 1] = g
    BY <1>2, <1>3, <2>1, AppendShape
  <2>3. Grown BY <1>3, <2>2 DEF Grown
  <2>4. \A q \in DOMAIN downlink' : q > n => downlink'[q].type # "listened"
    <3>1. DOMAIN downlink' = 1 .. n + 1 /\ \A q \in 1 .. n + 1 : q > n => q = n + 1
      BY <1>3, <2>2
    <3> QED BY <2>1, <2>2, <3>1
  <2>5. After' BY <1>1, <1>3, <2>3, <2>4, AfterGrows
  <2> QED BY <1>3, <1>4, <1>8, <2>1, <2>2, <2>3, <2>5
<1>9. CASE ServePut
  <2>1. PutResponse("ok") \in Downlink /\ PutResponse("ok").type = "answer" BY MessageTypes
  <2> QED BY <1>1, <1>7, <1>8, <1>9, <2>1, PutServed
<1>10. CASE ~ServePut
  <2>1. downlink' = Append(downlink, f) BY <1>5, <1>6, <1>10
  <2> QED BY <1>6, <1>8, <1>10, <2>1
<1> QED BY <1>9, <1>10

\* What PipeServePut says of the labels, and of the write that is answered.
AnswerAdded(a, b) ==
    /\ Counts(b, downlink', "answer")
    /\ \A i \in 0 .. Len(downlink) : b[i] = a[i]
    /\ Len(downlink') = Len(downlink) + 1 => b[Len(downlink) + 1] = a[Len(downlink)] + 1
    /\ Len(downlink') = Len(downlink) + 2 =>
          b[Len(downlink) + 1] = a[Len(downlink)] /\ b[Len(downlink) + 2] = a[Len(downlink)] + 1
    /\ a[Len(downlink)] + 1 \in DOMAIN writes
    /\ writes[a[Len(downlink)] + 1].path = Head(uplink).path
    /\ writes[a[Len(downlink)] + 1].value = Head(uplink).value

\* The put of another location.
LEMMA GrowingServePut ==
    ASSUME Good, Good', After, NEW a, NEW u, Pipe(a, u), NEW b, AnswerAdded(a, b),
           NEW p \in Listened, ServePut \/ RefusePut, p # Head(uplink).path
    PROVE  Growing(p, a, b)
<1>1. TypeOK BY DEF Good
<1>2. PICK n \in Nat : n = Len(downlink) /\ DOMAIN downlink = 1 .. n BY <1>1 DEF TypeOK
<1>3. /\ Grown /\ UNCHANGED <<writes, known, listening, listenUnacked>>
      /\ \/ Len(downlink') = n + 1
         \/ /\ Len(downlink') = n + 2 /\ Head(uplink).path \in Listened
            /\ downlink'[n + 1] = DataMessage(Head(uplink).path)
      /\ downlink'[Len(downlink')].type = "answer"
  BY <1>2, AfterServePut
<1>4. a[n] \in Nat
  <2>1. n \in 0 .. n BY <1>2
  <2> QED BY <1>1, <1>2, <2>1, PipeBounds
<1>5. saved'[p] = saved[p]
  <2>1. CASE ServePut
    <3>1. saved' = [saved EXCEPT ![Head(uplink).path] = Head(uplink).value]
      BY <2>1 DEF ServePut
    <3>2. p \in Path BY PathAssumption
    <3> QED BY <1>1, <3>1, <3>2 DEF TypeOK
  <2>2. CASE RefusePut BY <2>2 DEF RefusePut, server
  <2> QED BY <2>1, <2>2
<1>6. PICK m \in Nat : m = Len(downlink') /\ DOMAIN downlink' = 1 .. m BY <1>3 DEF Grown
<1>7. b[m] = a[n] + 1 BY <1>2, <1>3, <1>6 DEF AnswerAdded
<1>8. ~Newest(writes, b[m], p) BY <1>2, <1>7 DEF AnswerAdded, Newest
<1>9. ASSUME NEW q \in 1 .. m, q > n
      PROVE  /\ ~Speaks(downlink'[q], p)
             /\ downlink'[q].type # "listened"
             /\ downlink'[q].type = "answer" => ~Newest(writes, b[q], p)
  <2>1. CASE q = m BY <1>3, <1>6, <1>8, <2>1 DEF Speaks
  <2>2. CASE q # m
    <3>1. q = n + 1 /\ m = n + 2 BY <1>2, <1>3, <1>6, <1>9, <2>2
    <3>2. /\ Head(uplink).path \in Listened
          /\ downlink'[q] = DataMessage(Head(uplink).path)
      BY <1>2, <1>3, <1>6, <3>1
    <3>3. saved' \in [Path -> Content] BY DEF Good, TypeOK
    <3>4. downlink'[q].type = "data" /\ downlink'[q].path = Head(uplink).path
      BY <3>2, <3>3, DataMessageType
    <3> QED BY <3>4 DEF Speaks
  <2> QED BY <2>1, <2>2
<1>10. ASSUME NEW i \in DOMAIN writes, Newest(writes, i, p), i <= b[m] PROVE i <= a[n]
  <2>1. i \in Nat BY <1>1 DEF TypeOK
  <2>2. i # b[m] BY <1>8, <1>10
  <2> QED BY <1>4, <1>7, <1>10, <2>1, <2>2
<1> QED BY <1>2, <1>3, <1>5, <1>6, <1>9, <1>10 DEF Growing, AnswerAdded

\* The put of the location itself: the last message of the queue answers it, and
\* the one before says what it wrote.
LEMMA KeptServed ==
    ASSUME Good, Good', After, NEW a, NEW u, Pipe(a, u), NEW b, AnswerAdded(a, b),
           NEW p \in Listened, ServePut, p = Head(uplink).path
    PROVE  Kept(p, b)'
<1>1. TypeOK /\ Wire BY DEF Good
<1>2. PICK n \in Nat : n = Len(downlink) /\ DOMAIN downlink = 1 .. n BY <1>1 DEF TypeOK
<1>3. /\ Grown /\ UNCHANGED <<writes, known, listening, listenUnacked>>
      /\ \/ Len(downlink') = n + 1 /\ ~served
         \/ Len(downlink') = n + 2 /\ served /\ downlink'[n + 1] = DataMessage(p)
      /\ downlink'[Len(downlink')].type = "answer"
  BY <1>2, AfterServePut
<1>4. PICK m \in Nat : m = Len(downlink') /\ DOMAIN downlink' = 1 .. m BY <1>3 DEF Grown
<1>5. PICK k \in Nat : k = a[n] /\ \A q \in 0 .. n : a[q] \in Nat /\ a[q] <= k
  <2>1. n \in 0 .. n /\ u[0] = a[n] BY <1>2 DEF Pipe
  <2> QED BY <1>1, <1>2, <2>1, PipeBounds
<1>6. /\ b[m] = k + 1 /\ (m = n + 2 => b[n + 1] = k)
      /\ \A q \in 0 .. n : b[q] = a[q]
      /\ k + 1 \in DOMAIN writes /\ writes[k + 1].path = p
      /\ writes[k + 1].value = Head(uplink).value
  BY <1>2, <1>3, <1>4, <1>5 DEF AnswerAdded
<1>7. saved'[p] = writes[k + 1].value
  <2>1. saved' = [saved EXCEPT ![p] = Head(uplink).value] BY DEF ServePut
  <2>2. p \in Path BY PathAssumption
  <2> QED BY <1>1, <1>6, <2>1, <2>2 DEF TypeOK
<1>8. \A i \in DOMAIN writes : Newest(writes, i, p) => k + 1 <= i BY <1>6 DEF Newest
<1>9. DOMAIN writes \subseteq Nat BY <1>1 DEF TypeOK
<1>10. ASSUME NEW q \in 1 .. m, b[q] > k PROVE q = m
  <2>1. q \notin 1 .. n
    <3>1. ASSUME q \in 1 .. n PROVE FALSE
      <4>1. q \in 0 .. n BY <1>2, <3>1
      <4>2. b[q] \in Nat /\ b[q] <= k BY <1>5, <1>6, <4>1
      <4> QED BY <1>5, <1>10, <4>2
    <3> QED BY <3>1
  <2>2. ~(q = n + 1 /\ m = n + 2) BY <1>5, <1>6, <1>10
  <2> QED BY <1>2, <1>3, <1>4, <2>1, <2>2
<1>11. Settled(p)' BY <1>3, <1>6 DEF Settled, Unwritten
<1>12. Stored(p, b)'
  <2> SUFFICES ASSUME NEW i \in DOMAIN writes, Newest(writes, i, p), i <= b[m]
               PROVE  /\ saved'[p] = writes[i].value
                      /\ \A q \in 1 .. m : Speaks(downlink'[q], p) /\ b[q] >= i =>
                                              Says(downlink'[q], p) = saved'[p]
    BY <1>3, <1>4 DEF Stored
  <2>1. i \in Nat /\ k + 1 <= i /\ i <= k + 1 BY <1>6, <1>8, <1>9
  <2>2. i = k + 1 BY <1>5, <2>1
  <2>3. ASSUME NEW q \in 1 .. m, Speaks(downlink'[q], p), b[q] >= i PROVE FALSE
    <3>1. b[q] \in Nat BY <1>4 DEF AnswerAdded, Counts
    <3>2. b[q] > k BY <1>5, <2>2, <2>3, <3>1
    <3>3. q = m BY <1>10, <3>2
    <3> QED BY <1>3, <1>4, <2>3, <3>3 DEF Speaks
  <2> QED BY <1>7, <2>2, <2>3
<1>13. Waiting(p, b)'
  <2> SUFFICES ASSUME NEW i \in DOMAIN writes, Newest(writes, i, p), i <= b[0]
               PROVE  FALSE
    BY <1>3 DEF Waiting
  <2>1. 0 \in 0 .. n BY <1>2
  <2>2. b[0] \in Nat /\ b[0] <= k /\ k + 1 <= i /\ i \in Nat BY <1>5, <1>6, <1>8, <1>9, <2>1
  <2> QED BY <1>5, <2>2
<1>14. Answered(p, b)'
  <2> SUFFICES ASSUME NEW i \in DOMAIN writes, Newest(writes, i, p),
                      NEW q \in 1 .. m, downlink'[q].type = "answer", b[q] = i
               PROVE  \/ /\ q > 1 /\ downlink'[q - 1].type = "data"
                         /\ downlink'[q - 1].path = p
                         /\ downlink'[q - 1].value = writes[i].value
                      \/ listenUnacked /\ \A r \in 1 .. q : downlink'[r].type # "listened"
                      \/ ~listening
    BY <1>3, <1>4 DEF Answered
  <2>1. i \in Nat /\ k + 1 <= i BY <1>8, <1>9
  <2>2. q = m BY <1>5, <1>10, <2>1
  <2>3. i = k + 1 BY <1>6, <2>2
  <2>4. CASE m = n + 2 /\ served /\ downlink'[n + 1] = DataMessage(p)
    <3>1. saved' \in [Path -> Content] BY DEF Good, TypeOK
    <3>2. /\ downlink'[n + 1].type = "data" /\ downlink'[n + 1].path = p
          /\ downlink'[n + 1].value = saved'[p]
      BY <2>4, <3>1, DataMessageType
    <3>3. q > 1 /\ q - 1 = n + 1 BY <1>2, <2>2, <2>4
    <3> QED BY <1>7, <2>3, <3>2, <3>3
  <2>5. CASE m = n + 1 /\ ~served
    <3>1. served' = served BY DEF ServePut
    <3>2. \A r \in 1 .. m : downlink'[r].type = "answer"
      BY <1>4, <2>5, <3>1 DEF Good, Wire
    <3>3. uplink # <<>> BY DEF ServePut
    <3>4. connected BY <1>1, <3>3 DEF Wire
    <3>5. listening => listenUnacked BY <1>1, <2>5, <3>4 DEF Wire
    <3> QED BY <2>2, <3>2, <3>5
  <2> QED BY <1>3, <1>4, <2>4, <2>5
<1> QED BY <1>11, <1>12, <1>13, <1>14 DEF Kept

LEMMA GrowingForeignWrite ==
    ASSUME Good, Good', After, NEW a, NEW u, Pipe(a, u), NEW b,
           NEW path \in Path, NEW value \in Content, ForeignWrite(path, value),
           \A i \in 0 .. Len(downlink) : b[i] = a[i],
           Len(downlink') = Len(downlink) + 1 => b[Len(downlink) + 1] = a[Len(downlink)]
    PROVE  After' /\ \A p \in Listened : p # path => Growing(p, a, b)
<1>1. TypeOK /\ saved' \in [Path -> Content] BY DEF Good, TypeOK
<1>2. downlink \in Seq(Downlink) BY <1>1 DEF TypeOK
<1>3. PICK n \in Nat : n = Len(downlink) /\ DOMAIN downlink = 1 .. n BY <1>2
<1>4. \/ served /\ path \in Listened /\ downlink' = Append(downlink, DataMessage(path))
      \/ ~(served /\ path \in Listened) /\ downlink' = downlink
  BY <1>1, PipeForeignWrite
<1>5. /\ saved' = [saved EXCEPT ![path] = value]
      /\ UNCHANGED <<writes, known, listening, listenUnacked>>
  BY DEF ForeignWrite, client
<1>6. \A p \in Listened : p # path => saved'[p] = saved[p]
  BY <1>1, <1>5, PathAssumption DEF TypeOK
<1>7. CASE served /\ path \in Listened /\ downlink' = Append(downlink, DataMessage(path))
  <2>1. PICK e \in Downlink : e = DataMessage(path) /\ e.type = "data" /\ e.path = path
    BY <1>1, <1>7, DataMessageType
  <2>2. /\ downlink' \in Seq(Downlink) /\ Len(downlink') = n + 1
        /\ \A i \in 1 .. n : downlink'[i] = downlink[i]
        /\ downlink'[n + 1] = e
    BY <1>2, <1>3, <1>7, <2>1, AppendShape
  <2>3. DOMAIN downlink' = 1 .. n + 1 /\ \A q \in 1 .. n + 1 : q > n => q = n + 1
    BY <1>3, <2>2
  <2>4. Grown BY <1>3, <2>2 DEF Grown
  <2>5. \A q \in DOMAIN downlink' : q > n => downlink'[q] = e BY <2>2, <2>3
  <2>6. After' BY <1>1, <1>3, <2>1, <2>4, <2>5, AfterGrows
  <2>7. b[Len(downlink')] = a[Len(downlink)] BY <1>3, <2>2
  <2>8. ASSUME NEW p \in Listened, p # path PROVE Growing(p, a, b)
    <3>1. ~Speaks(e, p) BY <2>1, <2>8 DEF Speaks
    <3> QED BY <1>3, <1>5, <1>6, <2>1, <2>4, <2>5, <2>7, <2>8, <3>1 DEF Growing
  <2> QED BY <2>6, <2>8
<1>8. CASE downlink' = downlink
  <2>1. Grown BY <1>2, <1>8 DEF Grown
  <2>2. \A q \in DOMAIN downlink' : ~(q > n) BY <1>3, <1>8
  <2>3. After' BY <1>8 DEF After
  <2>4. b[Len(downlink')] = a[Len(downlink)]
    <3>1. n \in 0 .. n BY <1>3
    <3> QED BY <1>3, <1>8, <3>1
  <2>5. \A p \in Listened : p # path => Growing(p, a, b)
    BY <1>3, <1>5, <1>6, <2>1, <2>2, <2>4 DEF Growing
  <2> QED BY <2>3, <2>5
<1> QED BY <1>4, <1>7, <1>8
-----------------------------------------------------------------------------

\* There are labels of the queues with which every undisturbed location is kept.
KeptAll(a) == \A p \in Listened \ disturbed : Kept(p, a)

Inv == Good /\ After /\ \E a, u : Pipe(a, u) /\ KeptAll(a)

LEMMA InvInit == Init => Inv
<1> SUFFICES ASSUME Init PROVE Inv OBVIOUS
<1>1. TypeOK
  <2>1. saved \in [Path -> Content] BY DEF Init, Content
  <2>2. uplink \in Seq(Uplink) /\ downlink \in Seq(Downlink) /\ writes \in Seq(Write)
    BY DEF Init
  <2>3. made \in 0 .. MaxWrites /\ troubles \in 0 .. MaxTroubles
    BY BoundsAssumption DEF Init
  <2>4. served \in BOOLEAN /\ connected \in BOOLEAN /\ listening \in BOOLEAN
        /\ listenUnacked \in BOOLEAN
    BY DEF Init
  <2>5. known \in Data \cup {Unknown} /\ disturbed \subseteq Path BY DEF Init
  <2> QED BY <2>1, <2>2, <2>3, <2>4, <2>5 DEF TypeOK
<1>2. DOMAIN writes = {} /\ DOMAIN uplink = {} /\ DOMAIN downlink = {} /\ Len(downlink) = 0
      /\ Len(uplink) = 0 /\ Len(writes) = 0
  BY DEF Init
<1>3. Wire BY <1>2 DEF Init, Wire, ListenSent
<1>4. Heard BY <1>2 DEF Init, Heard
<1>5. PICK a : Counts(a, <<>>, "answer") /\ a[0] = 0 BY CountsEmpty
<1>6. PICK u : Counts(u, <<>>, "put") /\ u[0] = 0 BY CountsEmpty
<1>7. Pipe(a, u) BY <1>2, <1>5, <1>6 DEF Init, Pipe
<1>8. After BY <1>2 DEF After
<1>9. ASSUME NEW p \in Listened PROVE Kept(p, a)
  <2>1. Settled(p) BY <1>2 DEF Init, Settled
  <2>2. Stored(p, a) /\ Waiting(p, a) /\ Answered(p, a)
    BY <1>2 DEF Stored, Waiting, Answered
  <2> QED BY <2>1, <2>2 DEF Kept
<1> QED BY <1>1, <1>3, <1>4, <1>7, <1>8, <1>9 DEF Inv, Good, KeptAll

LEMMA InvStep == Inv /\ [Next]_dbvars => Inv'
<1> SUFFICES ASSUME Inv, [Next]_dbvars PROVE Inv' OBVIOUS
<1>1. Good /\ TypeOK /\ Wire /\ After BY DEF Inv, Good
<1>2. PICK a, u : Pipe(a, u) /\ KeptAll(a) BY DEF Inv
<1>3. ASSUME Good', After', NEW b, NEW v, Pipe(b, v)',
             \A p \in Listened \ disturbed' : Kept(p, b)'
      PROVE  Inv'
  BY <1>3 DEF Inv, KeptAll
<1>4. ASSUME NEW path \in Path, NEW value \in Content, Set(path, value) PROVE Inv'
  <2>1. Good' BY <1>1, <1>4, GoodSet
  <2>2. PICK v : Pipe(a, v)' BY <1>1, <1>2, <1>4, PipeSet
  <2>3. downlink' = downlink /\ disturbed' = disturbed BY <1>4 DEF Set
  <2>4. After' BY <1>1, <2>3 DEF After
  <2>5. \A p \in Listened \ disturbed' : Kept(p, a)'
    BY <1>1, <1>2, <1>4, <2>3, KeptSet DEF KeptAll
  <2> QED BY <1>3, <2>1, <2>2, <2>4, <2>5
<1>5. CASE Observe
  <2>1. Good' BY <1>1, <1>5, GoodObserve
  <2>2. PICK v : Pipe(a, v)' BY <1>1, <1>2, <1>5, PipeObserve
  <2>3. downlink' = downlink /\ disturbed' = disturbed BY <1>5 DEF Observe
  <2>4. After' BY <1>1, <2>3 DEF After
  <2>5. \A p \in Listened \ disturbed' : Kept(p, a)'
    BY <1>1, <1>2, <1>5, <2>3, KeptObserve DEF KeptAll
  <2> QED BY <1>3, <2>1, <2>2, <2>4, <2>5
<1>6. CASE Connect
  <2>1. Good' BY <1>1, <1>2, <1>6, GoodConnect
  <2>2. PICK v : Pipe(a, v)' BY <1>1, <1>2, <1>6, PipeConnect
  <2>3. downlink' = downlink /\ disturbed' = disturbed BY <1>6 DEF Connect
  <2>4. After' BY <1>1, <2>3 DEF After
  <2>5. \A p \in Listened \ disturbed' : Kept(p, a)'
    BY <1>1, <1>2, <1>6, <2>3, KeptConnect DEF KeptAll
  <2> QED BY <1>3, <2>1, <2>2, <2>4, <2>5
<1>7. CASE Disconnect \/ Kill
  <2>1. Good' BY <1>1, <1>7, GoodDisconnect
  <2>2. /\ ~connected' /\ uplink' = <<>> /\ downlink' = <<>>
        /\ writes' = writes \/ writes' = <<>>
        /\ disturbed' = disturbed
        /\ Disconnect => writes' = writes
    BY <1>7 DEF Disconnect, Kill
  <2>3. PICK b, v : Pipe(b, v)' /\ b[0] <= a[0] /\ (writes' = writes => b[0] = a[0])
    BY <1>1, <1>2, <2>2, PipeDropped
  <2>4. After' BY <2>2 DEF After
  <2>5. \A p \in Listened \ disturbed' : Kept(p, b)'
    BY <1>1, <1>2, <1>7, <2>2, <2>3, KeptDropped DEF KeptAll
  <2> QED BY <1>3, <2>1, <2>3, <2>4, <2>5
<1>8. CASE ServeListen
  <2>1. Good' BY <1>1, <1>8, GoodServeListen
  <2>2. PICK b, v : /\ Pipe(b, v)'
                    /\ \A i \in 0 .. Len(downlink) : b[i] = a[i]
                    /\ b[Len(downlink) + 1] = a[Len(downlink)]
                    /\ b[Len(downlink) + 2] = a[Len(downlink)]
    BY <1>1, <1>2, <1>8, PipeServeListen
  <2>3. disturbed' = disturbed BY <1>8 DEF ServeListen
  <2>4. After' BY <1>1, <1>8, AfterServeListen
  <2>5. ASSUME NEW p \in Listened \ disturbed' PROVE Kept(p, b)'
    <3>1. Growing(p, a, b) BY <1>1, <1>8, <2>2, GrowingServeListen
    <3>2. Kept(p, a) BY <1>2, <2>3 DEF KeptAll
    <3> QED BY <1>1, <3>1, <3>2, KeptGrows
  <2> QED BY <1>3, <2>1, <2>2, <2>4, <2>5
<1>9. CASE ServePut \/ RefusePut
  <2>1. Good' BY <1>1, <1>9, GoodServePut, GoodRefusePut
  <2>2. saved' \in [Path -> Content] BY <2>1 DEF Good, TypeOK
  <2>3. PICK b, v : /\ Pipe(b, v)'
                    /\ \A i \in 0 .. Len(downlink) : b[i] = a[i]
                    /\ Len(downlink') = Len(downlink) + 1 =>
                          b[Len(downlink) + 1] = a[Len(downlink)] + 1
                    /\ Len(downlink') = Len(downlink) + 2 =>
                          /\ b[Len(downlink) + 1] = a[Len(downlink)]
                          /\ b[Len(downlink) + 2] = a[Len(downlink)] + 1
                    /\ a[Len(downlink)] + 1 \in DOMAIN writes
                    /\ writes[a[Len(downlink)] + 1].path = Head(uplink).path
                    /\ writes[a[Len(downlink)] + 1].value = Head(uplink).value
    BY <1>1, <1>2, <1>9, <2>2, PipeServePut
  <2>4. Counts(b, downlink', "answer") BY <2>3 DEF Pipe
  <2>5. AnswerAdded(a, b) BY <2>3, <2>4 DEF AnswerAdded
  <2>6. After' BY <1>1, <1>9, <2>1, AfterServePut
  <2>7. ASSUME NEW p \in Listened \ disturbed' PROVE Kept(p, b)'
    <3>1. p \notin disturbed /\ (RefusePut => p # Head(uplink).path)
      BY <1>9, <2>7 DEF RefusePut, ServePut
    <3>2. Kept(p, a) BY <1>2, <3>1 DEF KeptAll
    <3>3. CASE p # Head(uplink).path
      <4>1. Growing(p, a, b) BY <1>1, <1>2, <1>9, <2>1, <2>5, <3>3, GrowingServePut
      <4> QED BY <1>1, <3>2, <4>1, KeptGrows
    <3>4. CASE p = Head(uplink).path
      BY <1>1, <1>2, <1>9, <2>1, <2>5, <3>1, <3>4, KeptServed
    <3> QED BY <3>3, <3>4
  <2> QED BY <1>3, <2>1, <2>3, <2>6, <2>7
<1>10. ASSUME NEW path \in Path, NEW value \in Content, ForeignWrite(path, value) PROVE Inv'
  <2>1. Good' BY <1>1, <1>2, <1>10, GoodForeignWrite
  <2>2. saved' \in [Path -> Content] BY <2>1 DEF Good, TypeOK
  <2>3. PICK b : /\ Pipe(b, u)'
                 /\ \A i \in 0 .. Len(downlink) : b[i] = a[i]
                 /\ Len(downlink') = Len(downlink) + 1 =>
                       b[Len(downlink) + 1] = a[Len(downlink)]
    BY <1>1, <1>2, <1>10, <2>2, PipeForeignWrite
  <2>4. After' /\ \A p \in Listened : p # path => Growing(p, a, b)
    BY <1>1, <1>2, <1>10, <2>1, <2>3, GrowingForeignWrite
  <2>5. ASSUME NEW p \in Listened \ disturbed' PROVE Kept(p, b)'
    <3>1. p \notin disturbed /\ p # path BY <1>10, <2>5 DEF ForeignWrite
    <3>2. Kept(p, a) BY <1>2, <3>1 DEF KeptAll
    <3> QED BY <1>1, <2>4, <3>1, <3>2, KeptGrows
  <2> QED BY <1>3, <2>1, <2>3, <2>4, <2>5
<1>11. ASSUME NEW b, NEW v, NEW k, Pipe(b, v)', Good',
              \A p \in Listened : Kept(p, a) => Popping(p, a, b, k), Receive
       PROVE  Inv'
  <2>1. /\ downlink # <<>> /\ downlink' = Tail(downlink) /\ disturbed' = disturbed
    BY <1>11 DEF Receive, ReceiveSnapshot, ReceiveData, ReceiveListenResponse, ReceiveAnswer,
                 Reads
  <2>2. After' BY <1>1, <2>1, AfterPops
  <2>3. ASSUME NEW p \in Listened \ disturbed' PROVE Kept(p, b)'
    <3>1. Kept(p, a) BY <1>2, <2>1 DEF KeptAll
    <3>2. Popping(p, a, b, k) BY <1>11, <3>1
    <3> QED BY <1>1, <1>2, <3>1, <3>2, KeptPops
  <2> QED BY <1>3, <1>11, <2>2, <2>3
<1>12. CASE ReceiveSnapshot \/ ReceiveData
  <2>1. Good' BY <1>1, <1>12, GoodReceiveSnapshot, GoodReceiveData
  <2>2. PICK b : Pipe(b, u)' /\ \A p \in Listened : Popping(p, a, b, 0)
    BY <1>1, <1>2, <1>12, PoppingReads
  <2> QED BY <1>11, <1>12, <2>1, <2>2 DEF Receive
<1>13. CASE ReceiveListenResponse
  <2>1. Good' BY <1>1, <1>2, <1>13, GoodReceiveListenResponse
  <2>2. PICK b, v : Pipe(b, v)' /\ \A p : Kept(p, a) => Popping(p, a, b, a[0])
    BY <1>1, <1>2, <1>13, PoppingListened
  <2> QED BY <1>11, <1>13, <2>1, <2>2 DEF Receive
<1>14. CASE ReceiveAnswer
  <2>1. Good' BY <1>1, <1>2, <1>14, GoodReceiveAnswer
  <2>2. PICK b, v, k : Pipe(b, v)' /\ \A p : Kept(p, a) => Popping(p, a, b, k)
    BY <1>1, <1>2, <1>14, PoppingAnswer
  <2> QED BY <1>11, <1>14, <2>1, <2>2 DEF Receive
<1>15. CASE UNCHANGED dbvars
  <2>1. Good' BY <1>1, <1>15 DEF dbvars, Good, TypeOK, Wire, Heard, ListenSent,
        ListenAnswered, SnapshotComes, LastWord
  <2>2. Pipe(a, u)' BY <1>2, <1>15 DEF dbvars, Pipe
  <2>3. After' BY <1>1, <1>15 DEF dbvars, After
  <2>4. \A p \in Listened \ disturbed' : Kept(p, a)'
    BY <1>2, <1>15 DEF dbvars, KeptAll, Kept, Settled, Stored, Waiting, Answered
  <2> QED BY <1>3, <2>1, <2>2, <2>3, <2>4
<1> QED BY <1>4, <1>5, <1>6, <1>7, <1>8, <1>9, <1>10, <1>12, <1>13, <1>14, <1>15
        DEF Next, Serve, Receive

\* What is shown at an undisturbed location changes only when the user writes.
LEMMA NoFlickerStep ==
    Inv /\ [Next]_dbvars =>
        \A p \in Listened \ disturbed :
            View # Unknown /\ View' # Unknown /\ View'[p] # View[p] => made' = made + 1
<1> SUFFICES ASSUME Inv, [Next]_dbvars, NEW p \in Listened \ disturbed,
                    View # Unknown, View' # Unknown, View'[p] # View[p]
             PROVE  made' = made + 1
  OBVIOUS
<1>1. Good /\ TypeOK BY DEF Inv, Good
<1>2. PICK a, u : Pipe(a, u) /\ Kept(p, a) BY DEF Inv, KeptAll
<1>3. View = Shown(known, writes) /\ View' = Shown(known', writes') BY DEF View, Shown
<1>4. known # Unknown /\ known' # Unknown BY <1>3 DEF Shown
<1>5. CASE \E path \in Path, value \in Content : Set(path, value) BY <1>5 DEF Set
<1>6. CASE UNCHANGED <<writes, known>> BY <1>3, <1>6
<1>7. CASE Kill BY <1>4, <1>7 DEF Kill
<1>8. ASSUME NEW b, NEW k, Popping(p, a, b, k) PROVE FALSE
  BY <1>1, <1>2, <1>3, <1>4, <1>8, ShownPops
<1>9. CASE ReceiveSnapshot \/ ReceiveData
  <2>1. PICK b : Pipe(b, u)' /\ \A o \in Listened : Popping(o, a, b, 0)
    BY <1>1, <1>2, <1>9, PoppingReads
  <2> QED BY <1>8, <2>1
<1>10. CASE ReceiveListenResponse
  <2>1. PICK b, v : Pipe(b, v)' /\ \A o : Kept(o, a) => Popping(o, a, b, a[0])
    BY <1>1, <1>2, <1>10, PoppingListened
  <2> QED BY <1>2, <1>8, <2>1
<1>11. CASE ReceiveAnswer
  <2>1. PICK b, v, k : Pipe(b, v)' /\ \A o : Kept(o, a) => Popping(o, a, b, k)
    BY <1>1, <1>2, <1>11, PoppingAnswer
  <2> QED BY <1>2, <1>8, <2>1
<1>12. CASE \/ Observe \/ Connect \/ Disconnect \/ Serve \/ UNCHANGED dbvars
            \/ \E path \in Path, value \in Content : ForeignWrite(path, value)
  <2>1. UNCHANGED <<writes, known>>
    BY <1>12 DEF Observe, Connect, Disconnect, Serve, ServeListen, ServePut, RefusePut,
                 ForeignWrite, dbvars, client
  <2> QED BY <1>6, <2>1
<1> QED BY <1>5, <1>7, <1>9, <1>10, <1>11, <1>12 DEF Next, Receive

\* What stands at a location, whether the client knows the server's data or not:
\* the value of its newest write, or what is saved.
Stands(p, c) ==
    /\ Unwritten(writes, p) => saved[p] = c
    /\ \A i \in DOMAIN writes : Newest(writes, i, p) => writes[i].value = c

LEMMA SomethingStands ==
    ASSUME TypeOK, NEW p
    PROVE  \E c : Stands(p, c)
<1>1. writes \in Seq(Write) BY DEF TypeOK
<1>2. CASE Unwritten(writes, p)
  <2>1. \A i \in DOMAIN writes : ~Newest(writes, i, p) BY <1>2 DEF Unwritten, Newest
  <2> QED BY <2>1 DEF Stands
<1>3. CASE ~Unwritten(writes, p)
  <2>1. PICK i \in DOMAIN writes : Newest(writes, i, p) BY <1>1, <1>3, NewestExists
  <2>2. \A j \in DOMAIN writes : Newest(writes, j, p) => j = i BY <1>1, <2>1 DEF Newest
  <2>3. Stands(p, writes[i].value) BY <1>3, <2>2 DEF Stands
  <2> QED BY <2>3
<1> QED BY <1>2, <1>3

LEMMA StandsPops ==
    ASSUME TypeOK, NEW p, NEW a, NEW u, Pipe(a, u), Stored(p, a), NEW b, NEW k,
           Popping(p, a, b, k), NEW c, Stands(p, c)
    PROVE  Stands(p, c)'
<1>1. writes \in Seq(Write) BY DEF TypeOK
<1>2. /\ \A i \in DOMAIN writes' : i + k \in DOMAIN writes /\ writes'[i].value = writes[i + k].value
      /\ \A i \in DOMAIN writes' : Newest(writes', i, p) => Newest(writes, i + k, p)
      /\ Unwritten(writes', p) => \/ Unwritten(writes, p)
                                  \/ \E i \in 1 .. k : Newest(writes, i, p)
  BY <1>1, NewestPopped
<1>3. saved' = saved BY DEF Popping
<1>4. ASSUME NEW i \in 1 .. k, Newest(writes, i, p) PROVE saved[p] = c
  <2>1. PICK n \in Nat \ {0} : n = Len(downlink) BY TailShape DEF TypeOK, Popping
  <2>2. 1 \in 0 .. n /\ n \in 1 .. n /\ n \in 0 .. n BY <2>1
  <2>3. a[1] <= a[n] BY <2>1, <2>2 DEF Pipe, Counts
  <2>4. a[1] \in Nat /\ a[n] \in Nat BY <2>1, <2>2, PipeBounds
  <2>5. k \in Nat /\ k <= a[1] BY <1>1 DEF Popping
  <2>6. i <= a[n] BY <2>3, <2>4, <2>5
  <2>7. i \in DOMAIN writes BY <1>4 DEF Newest
  <2> QED BY <1>4, <2>1, <2>6, <2>7 DEF Stored, Stands
<1>5. Unwritten(writes', p) => saved'[p] = c BY <1>2, <1>3, <1>4 DEF Stands
<1>6. \A i \in DOMAIN writes' : Newest(writes', i, p) => writes'[i].value = c
  BY <1>2 DEF Stands
<1> QED BY <1>5, <1>6 DEF Stands

\* A write stands where it was made, and nothing else changes by it.
LEMMA StandsSet ==
    ASSUME TypeOK, NEW path \in Path, NEW value \in Content, Set(path, value), NEW p
    PROVE  /\ p = path => Stands(p, value)'
           /\ \A c : p # path /\ Stands(p, c) => Stands(p, c)'
<1> DEFINE w == [path |-> path, value |-> value, status |-> "out"]
<1>1. writes' = Append(writes, w) /\ saved' = saved BY DEF Set, server
<1>2. w \in Write BY DEF Write
<1>3. PICK l \in Nat : l = Len(writes) /\ DOMAIN writes = 1 .. l BY DEF TypeOK
<1>4. /\ DOMAIN writes' = 1 .. l + 1 /\ writes'[l + 1] = w
      /\ \A i \in 1 .. l : writes'[i] = writes[i]
  BY <1>1, <1>2, <1>3, AppendShape DEF TypeOK
<1>5. l + 1 \in 1 .. l + 1 /\ \A i \in 1 .. l + 1 : i = l + 1 \/ i \in 1 .. l BY <1>3
<1>6. \A i \in 1 .. l : i \in 1 .. l + 1 /\ ~(l + 1 <= i) BY <1>3
<1>7. ASSUME p = path PROVE Stands(p, value)'
  <2>1. ~Unwritten(writes', p) BY <1>4, <1>5, <1>7 DEF Unwritten
  <2>2. ASSUME NEW i \in DOMAIN writes', Newest(writes', i, p) PROVE writes'[i].value = value
    <3>1. i = l + 1 BY <1>4, <1>5, <1>6, <1>7, <2>2 DEF Newest
    <3> QED BY <1>4, <3>1
  <2> QED BY <2>1, <2>2 DEF Stands
<1>8. ASSUME NEW c, p # path, Stands(p, c) PROVE Stands(p, c)'
  <2>1. \A i \in 1 .. l + 1 : writes'[i].path = p => i \in 1 .. l /\ writes'[i] = writes[i]
    BY <1>4, <1>5, <1>8
  <2>2. Unwritten(writes', p) => Unwritten(writes, p) BY <1>3, <1>4, <1>6 DEF Unwritten
  <2>3. ASSUME NEW i \in DOMAIN writes', Newest(writes', i, p) PROVE writes'[i].value = c
    <3>1. i \in 1 .. l /\ writes'[i] = writes[i] BY <1>4, <2>1, <2>3 DEF Newest
    <3>2. Newest(writes, i, p) BY <1>3, <1>4, <1>6, <2>3, <3>1 DEF Newest
    <3> QED BY <1>3, <1>8, <3>1, <3>2 DEF Stands
  <2> QED BY <1>1, <1>8, <2>2, <2>3 DEF Stands
<1> QED BY <1>7, <1>8

\* What may happen besides what the user does.
Running ==
    \/ Connect \/ Disconnect \/ Serve \/ Receive \/ UNCHANGED dbvars
    \/ \E path \in Path, value \in Content : ForeignWrite(path, value)

LEMMA DisturbedGrows ==
    ASSUME Running \/ Observe \/ Kill
    PROVE  disturbed \subseteq disturbed'
BY DEF Running, Observe, Connect, Disconnect, Kill, Serve, ServeListen, ServePut, RefusePut,
       ForeignWrite, Receive, ReceiveSnapshot, ReceiveData, ReceiveListenResponse,
       ReceiveAnswer, Reads, dbvars

\* At an undisturbed location the same stands after every step but a write of the
\* client there, and a kill while a write there is unanswered.
LEMMA StandsStep ==
    ASSUME Inv, NEW p \in Listened \ disturbed', NEW c, Stands(p, c),
           Running \/ Observe \/ (Kill /\ Unwritten(writes, p))
    PROVE  Stands(p, c)'
<1>1. Good /\ TypeOK /\ Wire BY DEF Inv, Good
<1>2. PICK a, u : Pipe(a, u) /\ KeptAll(a) BY DEF Inv
<1>3. disturbed \subseteq disturbed' BY DisturbedGrows
<1>4. Stored(p, a) /\ Kept(p, a) BY <1>2, <1>3 DEF KeptAll, Kept
<1>5. CASE writes' = writes /\ saved'[p] = saved[p] BY <1>5 DEF Stands
<1>7. CASE Kill /\ Unwritten(writes, p)
  <2>1. writes' = <<>> /\ saved' = saved BY <1>7 DEF Kill
  <2>2. DOMAIN writes' = {} BY <2>1
  <2> QED BY <1>7, <2>1, <2>2 DEF Stands
<1>8. CASE ServePut
  <2>1. saved'[p] = saved[p] \/ p = Head(uplink).path
    BY <1>1, <1>8 DEF ServePut, TypeOK
  <2>2. writes' = writes BY <1>8 DEF ServePut, client
  <2>3. CASE p = Head(uplink).path
    <3>1. 1 \in DOMAIN uplink /\ uplink[1] = Head(uplink) /\ uplink[1].type = "put"
      BY <1>1, <1>8, TailShape DEF ServePut, TypeOK
    <3>2. u[1] \in 1 .. Len(writes) /\ writes[u[1]].path = p
      BY <1>1, <1>2, <2>3, <3>1, PutLabel DEF Pipe
    <3>3. u[1] \in DOMAIN writes BY <1>1, <3>2 DEF TypeOK
    <3>4. ~Unwritten(writes, p) BY <3>2, <3>3 DEF Unwritten
    <3> QED BY <2>2, <3>4 DEF Stands
  <2> QED BY <1>5, <2>1, <2>2, <2>3
<1>9. ASSUME NEW path \in Path, NEW value \in Content, ForeignWrite(path, value)
      PROVE  Stands(p, c)'
  <2>1. p # path BY <1>9 DEF ForeignWrite
  <2>2. saved'[p] = saved[p] /\ writes' = writes
    BY <1>1, <1>9, <2>1 DEF ForeignWrite, TypeOK, client
  <2> QED BY <1>5, <2>2
<1>10. CASE \/ Observe \/ Connect \/ Disconnect \/ ServeListen \/ RefusePut
            \/ UNCHANGED dbvars
  <2>1. writes' = writes /\ saved' = saved
    BY <1>10 DEF Observe, Connect, Disconnect, ServeListen, RefusePut, dbvars, client, server
  <2> QED BY <1>5, <2>1
<1>11. CASE ReceiveSnapshot \/ ReceiveData
  <2>1. PICK b : Pipe(b, u)' /\ \A o \in Listened : Popping(o, a, b, 0)
    BY <1>1, <1>2, <1>11, PoppingReads
  <2> QED BY <1>1, <1>2, <1>4, <2>1, StandsPops
<1>12. CASE ReceiveListenResponse
  <2>1. PICK b, v : Pipe(b, v)' /\ \A o : Kept(o, a) => Popping(o, a, b, a[0])
    BY <1>1, <1>2, <1>12, PoppingListened
  <2> QED BY <1>1, <1>2, <1>4, <2>1, StandsPops
<1>13. CASE ReceiveAnswer
  <2>1. PICK b, v, k : Pipe(b, v)' /\ \A o : Kept(o, a) => Popping(o, a, b, k)
    BY <1>1, <1>2, <1>13, PoppingAnswer
  <2> QED BY <1>1, <1>2, <1>4, <2>1, StandsPops
<1> QED BY <1>7, <1>8, <1>9, <1>10, <1>11, <1>12, <1>13 DEF Running, Serve, Receive

\* What stands is what the client shows.
LEMMA StandsShown ==
    ASSUME Inv, NEW p \in Listened \ disturbed, NEW c, Stands(p, c), View # Unknown
    PROVE  View[p] = c
<1>1. TypeOK BY DEF Inv, Good
<1>2. View = Shown(known, writes) BY DEF View, Shown
<1>3. known # Unknown BY <1>2 DEF Shown
<1>4. writes \in Seq(Write) BY <1>1 DEF TypeOK
<1>5. CASE Unwritten(writes, p)
  <2>1. Settled(p) BY DEF Inv, KeptAll, Kept
  <2>2. known[p] = c BY <1>3, <1>5, <2>1 DEF Settled, Stands
  <2> QED BY <1>2, <1>3, <1>4, <1>5, <2>2, ShownIs
<1>6. CASE ~Unwritten(writes, p)
  <2>1. PICK i \in DOMAIN writes : Newest(writes, i, p) BY <1>4, <1>6, NewestExists
  <2>2. writes[i].value = c BY <2>1 DEF Stands
  <2> QED BY <1>2, <1>3, <1>4, <2>1, <2>2, ShownIs
<1> QED BY <1>5, <1>6

LEMMA InvMeansQuiet == Inv => QuietMeansEqual
<1> SUFFICES ASSUME Inv, served, uplink = <<>>, downlink = <<>>
             PROVE  /\ writes = <<>>
                    /\ View = [path \in Listened |-> saved[path]]
  BY DEF QuietMeansEqual
<1>1. TypeOK /\ Wire /\ Heard BY DEF Inv, Good
<1>2. PICK a, u : Pipe(a, u) BY DEF Inv
<1>3. DOMAIN uplink = {} /\ DOMAIN downlink = {} /\ Len(uplink) = 0 /\ Len(downlink) = 0
  OBVIOUS
<1>4. connected /\ ~listenUnacked BY <1>1, <1>3 DEF Wire, ListenSent, ListenAnswered
<1>5. PICK l \in Nat : l = Len(writes) /\ DOMAIN writes = 1 .. l BY <1>1 DEF TypeOK
<1>6. a[0] = l BY <1>2, <1>3, <1>4, <1>5 DEF Pipe
<1>7. \A i \in 1 .. l : writes[i].status # "out" BY <1>2, <1>5, <1>6 DEF Pipe
<1>8. \A i \in 1 .. l : FALSE BY <1>1, <1>4, <1>5, <1>7 DEF Wire
<1>9. l = 0 BY <1>8
<1>10. writes = <<>> BY <1>1, <1>5, <1>9 DEF TypeOK
<1>11. \A p \in Listened : known # Unknown /\ known[p] = saved[p]
  BY <1>1, <1>3 DEF Heard, LastWord
<1>12. known # Unknown BY <1>1, <1>3 DEF Heard, SnapshotComes
<1>13. \A p \in Listened : {i \in DOMAIN writes : writes[i].path = p} = {} BY <1>5, <1>9
<1>14. View = [path \in Listened |-> saved[path]] BY <1>11, <1>12, <1>13 DEF View
<1> QED BY <1>10, <1>14

\* The invariant of the whole: types, connections, what is heard, the labels of
\* the queues and what they keep.
THEOREM RealtimeDatabaseInvariant == Spec => []Inv
<1>1. Init => Inv BY InvInit
<1>2. Inv /\ [Next]_dbvars => Inv' BY InvStep
<1> QED BY <1>1, <1>2, PTL DEF Spec

\* Server, websocket and client are always of their types: among other things an
\* update is read only when the client has data to update, and an answer only when
\* a write waits for one.
THEOREM RealtimeDatabaseTypeOK == Spec => []TypeOK
<1>1. Inv => TypeOK BY DEF Inv, Good
<1> QED BY <1>1, RealtimeDatabaseInvariant, PTL

\* When everything is answered and read, no write is left in the write tree and
\* the client shows the server's data, over any number of lost connections.
THEOREM RealtimeDatabaseQuietMeansEqual == Spec => []QuietMeansEqual
<1>1. Inv => QuietMeansEqual BY InvMeansQuiet
<1> QED BY <1>1, RealtimeDatabaseInvariant, PTL

\* What the client shows at a location changes only in a step in which the user
\* writes: neither an answer, nor a put sent again, nor a reconnect disturbs it.
THEOREM RealtimeDatabaseNoFlicker == Spec => NoFlicker
<1>1. Inv /\ [Next]_dbvars =>
        [\A path \in Listened \ disturbed :
            View # Unknown /\ View' # Unknown /\ View'[path] # View[path]
            => made' = made + 1]_dbvars
  BY NoFlickerStep
<1> QED BY <1>1, RealtimeDatabaseInvariant, PTL DEF Spec, NoFlicker
=============================================================================
