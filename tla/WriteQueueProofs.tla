--------------------------- MODULE WriteQueueProofs ---------------------------
(***************************************************************************)
(* Theorems about WriteQueue, for any set of threads, any sizes of batches *)
(* and memtables, any triggers and any number of calls and errors: first   *)
(* its types and what keeps them, then what it keeps through failures and  *)
(* crashes, the order of the sequence numbers, the writes that returned OK *)
(* and the silence after a failed Sync, and that it implements             *)
(* AtomicWrites.                                                           *)
(***************************************************************************)
EXTENDS WriteQueue, FiniteSetTheorems, SequenceTheorems, WellFoundedInduction, TLAPS

\* Where a thread stands that is in the queue: with its write still to begin,
\* or with the mutex released and its group on the way.
Waiting == {"queued", "signalled", "room", "delayed", "full", "woken"}
Writing == {"logging", "syncing", "inserting", "inserted"}
Away == {"idle", "returning", "flushing", "flushCheck"}

\* writers holds each waiting thread once; the threads behind the first one are
\* asleep, the first one is not; it alone may keep the mutex.
QueueInv ==
    /\ \A i, j \in DOMAIN writers : writers[i] = writers[j] => i = j
    /\ \A c \in Client :
            pc[c] \in Waiting \cup Writing <=> \E i \in DOMAIN writers : writers[i] = c
    /\ \A i \in DOMAIN writers : pc[writers[i]] = "queued" <=> i # 1
    /\ \A c \in Client : pc[c] = "room" <=> holder = c

\* The group of the writer whose batches are on the way.
GroupInv ==
    /\ (\A c \in Client : pc[c] \notin Writing) => group = NoGroup
    /\ \A c \in Client : pc[c] \in Writing =>
        /\ call[c].batch # 0
        /\ group.size \in 1 .. Len(writers)
        /\ group.record.first = lastSequence + 1
        /\ group.record.batches
                = {call[writers[i]].batch : i \in 1 .. group.size} \ {0}
        /\ \A i \in 1 .. group.size : call[writers[i]].sync => call[c].sync
        /\ pc[c] # "inserted" => group.status = "ok"
        /\ group.syncError => group.status = "error"

\* What the background thread works on is there.
BackgroundInv ==
    /\ background.at \in {"building", "applying"} => hasImm
    /\ background.at = "applying" => background.log = Log
    /\ background.inputs <= level0

\* A batch belongs to one call.
CallInv ==
    /\ \A c \in Client : call[c].batch <= calls
    /\ \A c, d \in Client : call[c].batch = call[d].batch /\ call[c].batch # 0 => c = d

\* The entries of the tables and the memtables.
Stored == mem \cup imm \cup tables

\* The entries of the group are in the memtable, some or all of them.
Inserting ==
    \E c \in Client : pc[c] \in {"inserting", "inserted"} /\ group.status = "ok"

\* Only the entries of a group that is being inserted have numbers above the
\* last; no two entries have the same; the inserting comes to its end when all
\* entries are there.
EntryInv ==
    /\ \A e \in Stored :
        \/ e.sequence <= lastSequence
        \/ e \in Entries(group.record) /\ e \in mem /\ Inserting
    /\ \A e, f \in Stored : e.sequence = f.sequence => e = f
    /\ \A c \in Client : pc[c] = "inserting" => ~(Entries(group.record) \subseteq mem)
    /\ \A c \in Client : pc[c] = "inserted" /\ group.status = "ok"
                         => Entries(group.record) \subseteq mem

Core == TypeOK /\ QueueInv /\ GroupInv /\ BackgroundInv /\ CallInv /\ EntryInv

-----------------------------------------------------------------------------
(* The queue.                                                               *)

Pc == Waiting \cup Writing \cup Away

\* Only threads that wait for the background thread have moved, to look again.
Alike(p, q) ==
    \A c \in Client :
        \/ q[c] = p[c]
        \/ p[c] = "full" /\ q[c] = "woken"
        \/ p[c] = "flushing" /\ q[c] = "flushCheck"

LEMMA Signalled ==
    ASSUME NEW p \in [Client -> Pc]
    PROVE  SignalAll(p) \in [Client -> Pc] /\ Alike(p, SignalAll(p))
BY DEF SignalAll, Alike, Pc, Waiting, Writing, Away

LEMMA PcType ==
    ASSUME TypeOK
    PROVE  pc \in [Client -> Pc]
BY DEF TypeOK, Pc, Waiting, Writing, Away

\* A step of the background thread leaves the queue alone.
LEMMA QueueUntouched ==
    ASSUME Core, UNCHANGED <<writers, call, calls, holder, group, lastSequence>>,
           pc' \in [Client -> Pc], Alike(pc, pc')
    PROVE  QueueInv' /\ GroupInv' /\ CallInv'
<1>1. \A c \in Client :
        /\ pc'[c] \in Waiting \cup Writing <=> pc[c] \in Waiting \cup Writing
        /\ pc'[c] \in Writing => pc'[c] = pc[c]
        /\ pc[c] \in Writing => pc'[c] = pc[c]
        /\ pc'[c] = "queued" <=> pc[c] = "queued"
        /\ pc'[c] = "room" <=> pc[c] = "room"
  BY DEF Alike, Waiting, Writing
<1>2. \A i \in DOMAIN writers : writers[i] \in Client
  BY DEF Core, TypeOK
<1>3. QueueInv' BY <1>1, <1>2 DEF Core, QueueInv
<1>4. GroupInv' BY <1>1 DEF Core, GroupInv, NoGroup, Torn
<1>5. CallInv' BY DEF Core, CallInv
<1> QED BY <1>3, <1>4, <1>5

\* In the queue a thread that is not asleep is the first.
LEMMA FirstWriter ==
    ASSUME Core, NEW c \in Client, pc[c] \in (Waiting \ {"queued"}) \cup Writing
    PROVE  /\ writers # <<>> /\ Len(writers) \in Nat \ {0}
           /\ 1 \in DOMAIN writers /\ writers[1] = c
           /\ \A d \in Client : d # c => pc[d] \in {"queued"} \cup Away
           /\ \A i \in DOMAIN writers : writers[i] \in Client
<1>1. PICK i \in DOMAIN writers : writers[i] = c
  BY DEF Core, QueueInv
<1>2. i = 1 BY <1>1 DEF Core, QueueInv, Waiting, Writing
<1>3. \A j \in DOMAIN writers : writers[j] \in Client BY DEF Core, TypeOK
<1>4. writers \in Seq(Client) BY DEF Core, TypeOK
<1>5. ASSUME NEW d \in Client, d # c PROVE pc[d] \in {"queued"} \cup Away
  <2>1. CASE pc[d] \in Waiting \cup Writing
    <3>1. PICK j \in DOMAIN writers : writers[j] = d BY <2>1 DEF Core, QueueInv
    <3>2. j # 1 BY <1>1, <1>2, <1>5, <3>1
    <3> QED BY <3>1, <3>2 DEF Core, QueueInv
  <2>2. CASE pc[d] \notin Waiting \cup Writing
    BY <2>2, PcType DEF Core, Pc
  <2> QED BY <2>1, <2>2
<1> QED BY <1>1, <1>2, <1>3, <1>4, <1>5

Statuses == {"ok", "error"}

\* Who is popped returns, the next writer is signalled, the others stay.
Popped(p, size, status) ==
    \A d \in Client :
        IF \E i \in 1 .. size : writers[i] = d
        THEN pc'[d] = "returning" /\ result'[d] = status
        ELSE /\ pc'[d] = p[d] \/ (pc[d] = "queued" /\ pc'[d] = "signalled")
             /\ result'[d] = result[d]

LEMMA PopQueue ==
    ASSUME Core, NEW c \in Client, pc[c] \in (Waiting \ {"queued"}) \cup Writing,
           NEW p \in [Client -> Pc], Alike(pc, p),
           NEW size \in 1 .. Len(writers), NEW status \in Statuses,
           Pop(p, size, status), holder' = Free
    PROVE  /\ pc' \in [Client -> Pc] /\ writers' \in Seq(Client)
           /\ result' \in [Client -> Statuses]
           /\ Popped(p, size, status)
           /\ \A d \in Client : pc'[d] \notin Writing
           /\ QueueInv'
<1> DEFINE popped == {writers[i] : i \in 1 .. size}
           rest == SubSeq(writers, size + 1, Len(writers))
<1>1. writers \in Seq(Client) /\ result \in [Client -> Statuses] /\ Free \notin Client
  BY WriteQueueAssumption DEF Core, TypeOK, Statuses, Free
<1>2. writers' = rest
      /\ result' = [d \in Client |-> IF d \in popped THEN status ELSE result[d]]
      /\ pc' = [d \in Client |-> IF d \in popped THEN "returning"
                                 ELSE IF rest # <<>> /\ d = Head(rest) THEN "signalled"
                                 ELSE p[d]]
  BY DEF Pop
<1>3. /\ rest \in Seq(Client) /\ Len(rest) = Len(writers) - size
      /\ \A i \in 1 .. Len(rest) : /\ i + size \in (1 .. Len(writers)) \ (1 .. size)
                                      /\ rest[i] = writers[i + size]
      /\ rest # <<>> => 1 \in 1 .. Len(rest) /\ Head(rest) = rest[1]
  BY <1>1
<1> HIDE DEF rest
<1>4. pc' \in [Client -> Pc] /\ result' \in [Client -> Statuses]
  BY <1>1, <1>2 DEF Pc, Waiting, Away
<1>5. \A d \in Client : d # c => pc[d] \in {"queued"} \cup Away BY FirstWriter
<1>6. writers[1] = c /\ \A i \in DOMAIN writers : writers[i] \in Client
  BY FirstWriter
<1>7. \A i, j \in 1 .. Len(writers) : writers[i] = writers[j] => i = j
  BY <1>1 DEF Core, QueueInv
<1>8. \A i \in 1 .. Len(writers) : i # 1 => pc[writers[i]] = "queued"
  BY <1>1 DEF Core, QueueInv
<1>9. \A d \in Client : d # c => p[d] \in {"queued"} \cup Away
                                 /\ (p[d] = "queued" <=> pc[d] = "queued")
  BY <1>5 DEF Alike, Away
<1>10. c \in popped BY <1>6
<1>11. \A d \in Client : d \in popped => pc'[d] = "returning" BY <1>2
<1>12. \A d \in Client : d \notin popped =>
          pc'[d] = p[d] \/ (pc[d] = "queued" /\ pc'[d] = "signalled")
  <2> SUFFICES ASSUME NEW d \in Client, d \notin popped, pc'[d] # p[d]
               PROVE  pc[d] = "queued" /\ pc'[d] = "signalled"
    OBVIOUS
  <2>1. rest # <<>> /\ d = rest[1] /\ pc'[d] = "signalled" BY <1>2, <1>3
  <2>2. d = writers[1 + size] /\ 1 + size \in 1 .. Len(writers) /\ 1 + size # 1
    BY <2>1, <1>3
  <2> QED BY <2>1, <2>2, <1>8
<1>13. Popped(p, size, status) BY <1>2, <1>11, <1>12 DEF Popped
<1>14. \A d \in Client : pc'[d] \notin Writing
                        /\ pc'[d] \in {"queued", "signalled"} \cup Away
  BY <1>9, <1>10, <1>11, <1>12 DEF Writing, Away
<1>15. \A d \in Client : pc'[d] \in Waiting \cup Writing <=> \E i \in 1 .. Len(rest) : rest[i] = d
  <2>1. ASSUME NEW i \in 1 .. Len(rest) PROVE pc'[rest[i]] \in Waiting /\ rest[i] \in Client
                                           /\ (pc'[rest[i]] = "queued" <=> i # 1)
    <3>1. rest[i] = writers[i + size] /\ i + size \in (1 .. Len(writers)) \ (1 .. size)
         /\ i + size # 1
      BY <1>3
    <3>2. rest[i] \notin popped
      <4>1. \A j \in 1 .. size : j \in 1 .. Len(writers) /\ j # i + size BY <3>1
      <4> QED BY <3>1, <4>1, <1>7
    <3>3. pc[rest[i]] = "queued" /\ rest[i] \in Client BY <3>1, <1>8, <1>6
    <3>4. p[rest[i]] = "queued" BY <3>3 DEF Alike
    <3>5. rest # <<>> /\ Head(rest) = rest[1] BY <1>3
    <3>6. rest[i] = rest[1] <=> i = 1 BY <3>1, <1>3, <1>7
    <3> QED BY <1>2, <3>2, <3>3, <3>4, <3>5, <3>6 DEF Waiting
  <2>2. ASSUME NEW d \in Client, pc'[d] \in Waiting \cup Writing
        PROVE  \E i \in 1 .. Len(rest) : rest[i] = d
    <3>1. pc[d] = "queued" /\ d \notin popped
      BY <2>2, <1>9, <1>10, <1>11, <1>12 DEF Waiting, Writing, Away
    <3>2. PICK k \in 1 .. Len(writers) : writers[k] = d
      BY <3>1, <1>1 DEF Core, QueueInv, Waiting
    <3>3. k > size BY <3>1, <3>2
    <3>4. k - size \in 1 .. Len(rest) /\ rest[k - size] = d BY <3>2, <3>3, <1>3
    <3> QED BY <3>4
  <2> QED BY <2>1, <2>2
<1>16. \A i \in 1 .. Len(rest) : pc'[rest[i]] = "queued" <=> i # 1
  <2> SUFFICES ASSUME NEW i \in 1 .. Len(rest) PROVE pc'[rest[i]] = "queued" <=> i # 1
    OBVIOUS
  <2>1. rest[i] = writers[i + size] /\ i + size \in (1 .. Len(writers)) \ (1 .. size)
         /\ i + size # 1
    BY <1>3
  <2>2. rest[i] \notin popped
    <3>1. \A j \in 1 .. size : j \in 1 .. Len(writers) /\ j # i + size BY <2>1
    <3> QED BY <2>1, <3>1, <1>7
  <2>3. pc[rest[i]] = "queued" /\ rest[i] \in Client BY <2>1, <1>8, <1>6
  <2>4. p[rest[i]] = "queued" BY <2>3 DEF Alike
  <2>5. rest # <<>> /\ Head(rest) = rest[1] BY <1>3
  <2>6. rest[i] = rest[1] <=> i = 1 BY <2>1, <1>3, <1>7
  <2> QED BY <1>2, <2>2, <2>3, <2>4, <2>5, <2>6
<1>17. \A i, j \in 1 .. Len(rest) : rest[i] = rest[j] => i = j BY <1>3, <1>7
<1>18. DOMAIN rest = 1 .. Len(rest) BY <1>3
<1>19. \A d \in Client : pc'[d] # "room" /\ holder' # d BY <1>14, <1>1 DEF Away
<1>20. QueueInv'
  BY <1>2, <1>15, <1>16, <1>17, <1>18, <1>19 DEF QueueInv
<1> QED BY <1>2, <1>3, <1>4, <1>13, <1>14, <1>20

\* The first writer moves on, and keeps the mutex if it enters MakeRoomForWrite.
LEMMA FirstMoves ==
    ASSUME Core, NEW c \in Client, pc[c] \in (Waiting \ {"queued"}) \cup Writing,
           NEW q \in (Waiting \ {"queued"}) \cup Writing,
           pc' = [pc EXCEPT ![c] = q], UNCHANGED writers,
           holder' = IF q = "room" THEN c ELSE Free
    PROVE  pc' \in [Client -> Pc] /\ QueueInv' /\ holder' \in Client \cup {Free}
<1>1. pc \in [Client -> Pc] /\ Free \notin Client
  BY PcType, WriteQueueAssumption DEF Core, Free
<1>2. pc' \in [Client -> Pc] BY <1>1 DEF Pc
<1>3. \A d \in Client : d # c => pc'[d] = pc[d] /\ pc[d] # "room"
  BY <1>1, FirstWriter DEF Away
<1>4. pc'[c] = q BY <1>1
<1>5. \A d \in Client : pc'[d] \in Waiting \cup Writing <=> pc[d] \in Waiting \cup Writing
  BY <1>3, <1>4
<1>6. \A d \in Client : pc'[d] = "queued" <=> pc[d] = "queued"
  BY <1>3, <1>4 DEF Waiting, Writing
<1>7. \A i \in DOMAIN writers : writers[i] \in Client BY DEF Core, TypeOK
<1>8. \A d \in Client : pc'[d] = "room" <=> holder' = d BY <1>1, <1>3, <1>4
<1> QED BY <1>2, <1>5, <1>6, <1>7, <1>8 DEF Core, QueueInv

\* A thread outside the queue moves.
LEMMA AwayMoves ==
    ASSUME Core, NEW c \in Client, pc[c] \in Away, NEW q \in Away,
           pc' = [pc EXCEPT ![c] = q],
           UNCHANGED <<writers, holder, call, calls, group, lastSequence>>
    PROVE  pc' \in [Client -> Pc] /\ QueueInv' /\ GroupInv' /\ CallInv'
<1>1. pc \in [Client -> Pc] BY PcType DEF Core
<1>2. \A d \in Client : \/ pc'[d] = pc[d]
                        \/ pc[d] \in Away /\ pc'[d] \in Away
  BY <1>1
<1>3. pc' \in [Client -> Pc] BY <1>1 DEF Pc
<1>4. \A d \in Client : /\ pc'[d] \in Waiting \cup Writing <=> pc[d] \in Waiting \cup Writing
                        /\ pc'[d] \in Writing <=> pc[d] \in Writing
                        /\ pc'[d] \in Writing => pc'[d] = pc[d]
                        /\ pc'[d] = "queued" <=> pc[d] = "queued"
                        /\ pc'[d] = "room" <=> pc[d] = "room"
  BY <1>2 DEF Waiting, Writing, Away
<1>5. \A i \in DOMAIN writers : writers[i] \in Client BY DEF Core, TypeOK
<1>6. QueueInv' BY <1>4, <1>5 DEF Core, QueueInv
<1>7. GroupInv' BY <1>4 DEF Core, GroupInv, NoGroup, Torn
<1>8. CallInv' BY DEF Core, CallInv
<1> QED BY <1>3, <1>6, <1>7, <1>8

\* A thread joins the queue.
LEMMA Joins ==
    ASSUME Core, NEW c \in Client, NEW writer \in Writer, Enqueue(c, writer)
    PROVE  /\ pc' \in [Client -> Pc] /\ writers' \in Seq(Client) /\ QueueInv' /\ GroupInv'
           /\ holder' \in Client \cup {Free} /\ allowDelay' \in BOOLEAN
           /\ call' \in [Client -> Writer]
<1>1. /\ pc \in [Client -> Pc] /\ Free \notin Client /\ holder = Free /\ pc[c] = "idle"
      /\ writers \in Seq(Client) /\ call \in [Client -> Writer]
  BY PcType, WriteQueueAssumption DEF Core, Free, Enqueue, TypeOK
<1>2. /\ writers' = Append(writers, c) /\ group' = group /\ lastSequence' = lastSequence
      /\ call' = [call EXCEPT ![c] = writer]
  BY DEF Enqueue, memoryVars
<1>3. /\ writers' \in Seq(Client) /\ Len(writers') = Len(writers) + 1
      /\ writers'[Len(writers) + 1] = c
      /\ \A i \in 1 .. Len(writers) : writers'[i] = writers[i]
      /\ DOMAIN writers' = 1 .. Len(writers) + 1
  BY <1>1, <1>2
<1>4. \A i \in 1 .. Len(writers) : writers[i] # c /\ writers[i] \in Client
  BY <1>1 DEF Core, QueueInv, Waiting, Writing
<1>5. \A d \in Client : d # c => pc'[d] = pc[d] /\ call'[d] = call[d]
  BY <1>1, <1>2 DEF Enqueue, Lead
<1>6. CASE writers = <<>>
  <2>1. pc'[c] = "room" /\ holder' = c BY <1>1, <1>6 DEF Enqueue, Lead
  <2>2. \A d \in Client : pc[d] \notin Waiting \cup Writing
    BY <1>6 DEF Core, QueueInv
  <2>3. QueueInv'
    BY <1>1, <1>3, <1>5, <1>6, <2>1, <2>2 DEF QueueInv, Waiting, Writing
  <2>4. \A d \in Client : pc'[d] \notin Writing BY <2>1, <2>2, <1>5 DEF Writing
  <2>5. group = NoGroup BY <2>2 DEF Core, GroupInv
  <2>6. GroupInv' BY <2>4, <2>5, <1>2 DEF GroupInv, NoGroup, Torn
  <2>7. pc' \in [Client -> Pc] /\ holder' \in Client \cup {Free} /\ allowDelay' \in BOOLEAN
    BY <1>1, <1>6 DEF Enqueue, Lead, Pc, Waiting
  <2> QED BY <2>3, <2>6, <2>7, <1>1, <1>2, <1>3
<1>7. CASE writers # <<>>
  <2>1. pc'[c] = "queued" /\ holder' = Free /\ allowDelay' = allowDelay
    BY <1>1, <1>7 DEF Enqueue
  <2>2. Len(writers) \in Nat \ {0} BY <1>1, <1>7
  <2>3. QueueInv'
    <3>1. \A i, j \in DOMAIN writers' : writers'[i] = writers'[j] => i = j
      BY <1>1, <1>3, <1>4 DEF Core, QueueInv
    <3>2. \A d \in Client :
            pc'[d] \in Waiting \cup Writing <=> \E i \in DOMAIN writers' : writers'[i] = d
      <4> SUFFICES ASSUME NEW d \in Client
                   PROVE pc'[d] \in Waiting \cup Writing <=> \E i \in DOMAIN writers' : writers'[i] = d
        OBVIOUS
      <4>1. CASE d = c
        <5>1. Len(writers) + 1 \in DOMAIN writers' BY <1>3, <2>2
        <5> QED BY <4>1, <5>1, <2>1, <1>3 DEF Waiting
      <4>2. CASE d # c
        <5>1. (\E i \in DOMAIN writers : writers[i] = d) <=> (\E i \in DOMAIN writers' : writers'[i] = d)
          BY <1>1, <1>3, <2>2, <4>2
        <5> QED BY <4>2, <5>1, <1>5 DEF Core, QueueInv
      <4> QED BY <4>1, <4>2
    <3>3. \A i \in DOMAIN writers' : pc'[writers'[i]] = "queued" <=> i # 1
      <4> SUFFICES ASSUME NEW i \in DOMAIN writers' PROVE pc'[writers'[i]] = "queued" <=> i # 1
        OBVIOUS
      <4>1. CASE i = Len(writers) + 1 BY <4>1, <2>1, <2>2, <1>3
      <4>2. CASE i # Len(writers) + 1
        <5>1. i \in 1 .. Len(writers) BY <4>2, <1>3, <2>2
        <5> QED BY <5>1, <1>1, <1>3, <1>4, <1>5 DEF Core, QueueInv
      <4> QED BY <4>1, <4>2
    <3>4. \A d \in Client : pc'[d] = "room" <=> holder' = d
      BY <1>1, <1>5, <2>1 DEF Core, QueueInv
    <3> QED BY <3>1, <3>2, <3>3, <3>4 DEF QueueInv
  <2>4. GroupInv'
    <3>1. \A d \in Client : pc'[d] \in Writing <=> pc[d] \in Writing
      BY <1>1, <1>5, <2>1 DEF Writing
    <3>2. ASSUME NEW d \in Client, pc'[d] \in Writing
          PROVE  /\ call'[d].batch # 0
                 /\ group.size \in 1 .. Len(writers')
                 /\ group.record.first = lastSequence + 1
                 /\ group.record.batches
                        = {call'[writers'[i]].batch : i \in 1 .. group.size} \ {0}
                 /\ \A i \in 1 .. group.size : call'[writers'[i]].sync => call'[d].sync
                 /\ pc'[d] # "inserted" => group.status = "ok"
                 /\ group.syncError => group.status = "error"
      <4>1. d # c /\ pc[d] \in Writing BY <3>1, <3>2, <2>1 DEF Writing
      <4>2. pc'[d] = pc[d] /\ call'[d] = call[d] BY <4>1, <1>5
      <4>3. /\ call[d].batch # 0
            /\ group.size \in 1 .. Len(writers)
            /\ group.record.first = lastSequence + 1
            /\ group.record.batches
                   = {call[writers[i]].batch : i \in 1 .. group.size} \ {0}
            /\ \A i \in 1 .. group.size : call[writers[i]].sync => call[d].sync
            /\ pc[d] # "inserted" => group.status = "ok"
            /\ group.syncError => group.status = "error"
        BY <4>1 DEF Core, GroupInv
      <4>4. \A i \in 1 .. group.size : call'[writers'[i]] = call[writers[i]]
        BY <4>3, <1>1, <1>3, <1>4, <1>5
      <4>5. group.size \in 1 .. Len(writers') BY <4>3, <1>1, <1>3
      <4> QED BY <4>2, <4>3, <4>4, <4>5
    <3>3. (\A d \in Client : pc'[d] \notin Writing) => group' = NoGroup
      BY <3>1, <1>2 DEF Core, GroupInv
    <3> QED BY <3>2, <3>3, <1>2 DEF GroupInv, NoGroup, Torn
  <2>5. pc' \in [Client -> Pc] /\ holder' \in Client \cup {Free} /\ allowDelay' \in BOOLEAN
    BY <1>1, <1>7, <2>1 DEF Enqueue, Pc, Waiting, Core, TypeOK
  <2> QED BY <2>3, <2>4, <2>5, <1>1, <1>2, <1>3
<1> QED BY <1>6, <1>7

-----------------------------------------------------------------------------
(* Numbers and records.                                                     *)

\* The natural numbers are well founded.
LEMMA LeastNumber ==
    ASSUME NEW T, T \subseteq Nat, T # {}
    PROVE  \E x \in T : \A y \in T : x <= y
<1> DEFINE R == {ss \in Nat \X Nat : ss[1] < ss[2]}
<1>1. IsWellFoundedOn(OpToRel(<, Nat), Nat) BY NatLessThanWellFounded
<1>2. OpToRel(<, Nat) = R BY DEF OpToRel
<1>3. PICK x \in T : \A y \in T : <<y, x>> \notin R BY <1>1, <1>2, WFMin
<1>4. \A y \in T : ~(y < x) BY <1>3
<1> QED BY <1>4

LEMMA Products ==
    /\ \A a, b \in Nat : a * b \in Nat
    /\ \A a, b, k \in Nat : a <= b => a * k <= b * k
    /\ \A a, k \in Nat : (a + 1) * k = a * k + k
OBVIOUS

LEMMA BatchesFinite ==
    ASSUME NEW B \in SUBSET Batch
    PROVE  IsFiniteSet(B) /\ Cardinality(B) \in Nat
<1>1. IsFiniteSet(Batch) BY WriteQueueAssumption, FS_Interval DEF Batch
<1> QED BY <1>1, FS_Subset, FS_CardinalityType

\* The batches of a record have different places, all below their number.
LEMMA Places ==
    ASSUME NEW B \in SUBSET Batch
    PROVE  /\ \A b \in B : Place(b, B) \in Nat /\ Place(b, B) + 1 <= Cardinality(B)
           /\ \A b, d \in B : b < d => Place(b, B) + 1 <= Place(d, B)
<1> DEFINE below(b) == {d \in B : d < b}
<1>1. \A b \in B : below(b) \in SUBSET Batch /\ below(b) \cup {b} \in SUBSET Batch
  OBVIOUS
<1>2. \A b \in B : /\ IsFiniteSet(below(b)) /\ Cardinality(below(b)) \in Nat
                   /\ IsFiniteSet(below(b) \cup {b})
  BY <1>1, BatchesFinite
<1>3. B \subseteq Int BY DEF Batch
<1>4. \A b \in B : b \notin below(b) BY <1>3
<1>5. \A b \in B : Cardinality(below(b) \cup {b}) = Cardinality(below(b)) + 1
  BY <1>2, <1>4, FS_AddElement
<1>6. IsFiniteSet(B) BY BatchesFinite
<1>7. \A b \in B : Cardinality(below(b) \cup {b}) <= Cardinality(B)
  <2> SUFFICES ASSUME NEW b \in B PROVE Cardinality(below(b) \cup {b}) <= Cardinality(B)
    OBVIOUS
  <2>1. below(b) \cup {b} \in SUBSET B OBVIOUS
  <2> QED BY <2>1, <1>6, FS_Subset
<1>8. ASSUME NEW b \in B, NEW d \in B, b < d
      PROVE  Cardinality(below(b) \cup {b}) <= Cardinality(below(d))
  <2>1. b \in Int /\ d \in Int /\ \A x \in below(b) : x \in Int /\ x < d BY <1>3, <1>8
  <2>2. below(b) \cup {b} \in SUBSET below(d) BY <2>1, <1>8
  <2> QED BY <2>2, <1>2, FS_Subset
<1> QED BY <1>2, <1>5, <1>7, <1>8 DEF Place

\* The numbers of a record's entries lie between its first number and its end,
\* and no two are the same.
LEMMA RecordEntries ==
    ASSUME NEW r \in Record
    PROVE  /\ Entries(r) \subseteq Entry
           /\ \A e \in Entries(r) : /\ r.first <= e.sequence
                                    /\ e.sequence < r.first + BatchSize * Cardinality(r.batches)
                                    /\ e.batch \in r.batches
           /\ \A e, f \in Entries(r) : e.sequence = f.sequence => e = f
           /\ \A b \in r.batches, i \in 1 .. BatchSize :
                 \E e \in Entries(r) : e.batch = b /\ e.index = i
<1>1. /\ r.first \in Nat /\ r.batches \in SUBSET Batch /\ BatchSize \in Nat \ {0}
      /\ Cardinality(r.batches) \in Nat
  BY WriteQueueAssumption, BatchesFinite DEF Record
<1> DEFINE B == r.batches
           at(b) == Place(b, B) * BatchSize
           entry(b, i) == [sequence |-> r.first + Place(b, B) * BatchSize + (i - 1),
                           batch |-> b, index |-> i]
<1>2. Entries(r) = {entry(b, i) : b \in B, i \in 1 .. BatchSize} BY DEF Entries
<1>3. \A b \in B : /\ at(b) \in Nat
                   /\ at(b) + BatchSize <= BatchSize * Cardinality(B)
  <2> SUFFICES ASSUME NEW b \in B
               PROVE at(b) \in Nat /\ at(b) + BatchSize <= BatchSize * Cardinality(B)
    OBVIOUS
  <2>1. Place(b, B) \in Nat /\ Place(b, B) + 1 <= Cardinality(B) BY <1>1, Places
  <2>2. at(b) \in Nat /\ (Place(b, B) + 1) * BatchSize = at(b) + BatchSize
        /\ (Place(b, B) + 1) * BatchSize <= Cardinality(B) * BatchSize
    BY <1>1, <2>1, Products
  <2>3. Cardinality(B) * BatchSize = BatchSize * Cardinality(B) BY <1>1
  <2> QED BY <2>2, <2>3
<1>4. \A b, d \in B : b < d => at(b) + BatchSize <= at(d)
  <2> SUFFICES ASSUME NEW b \in B, NEW d \in B, b < d PROVE at(b) + BatchSize <= at(d)
    OBVIOUS
  <2>1. /\ Place(b, B) \in Nat /\ Place(d, B) \in Nat
        /\ Place(b, B) + 1 <= Place(d, B)
    BY <1>1, Places
  <2> QED BY <1>1, <2>1, Products
<1> HIDE DEF at
<1>5. \A b \in B, i \in 1 .. BatchSize :
        /\ entry(b, i).sequence = r.first + at(b) + (i - 1)
        /\ entry(b, i).batch = b /\ entry(b, i).index = i
  BY DEF at
<1> HIDE DEF entry
<1>6. \A b \in B, i \in 1 .. BatchSize :
        /\ entry(b, i).sequence \in Nat
        /\ r.first <= entry(b, i).sequence
        /\ entry(b, i).sequence < r.first + BatchSize * Cardinality(B)
  <2> SUFFICES ASSUME NEW b \in B, NEW i \in 1 .. BatchSize
               PROVE  /\ entry(b, i).sequence \in Nat
                      /\ r.first <= entry(b, i).sequence
                      /\ entry(b, i).sequence < r.first + BatchSize * Cardinality(B)
    OBVIOUS
  <2> DEFINE total == BatchSize * Cardinality(B)
  <2>1. at(b) \in Nat /\ at(b) + BatchSize <= total /\ total \in Nat
    BY <1>1, <1>3, Products
  <2> HIDE DEF total
  <2>2. r.first + at(b) + (i - 1) \in Nat /\ r.first <= r.first + at(b) + (i - 1)
        /\ r.first + at(b) + (i - 1) < r.first + total
    BY <1>1, <2>1
  <2> QED BY <1>5, <2>2 DEF total
<1>7. ASSUME NEW b \in B, NEW d \in B, NEW i \in 1 .. BatchSize, NEW j \in 1 .. BatchSize,
             entry(b, i).sequence = entry(d, j).sequence
      PROVE  b = d /\ i = j
  <2>1. r.first + at(b) + (i - 1) = r.first + at(d) + (j - 1) BY <1>5, <1>7
  <2>2. at(b) \in Nat /\ at(d) \in Nat BY <1>3
  <2>3. b \in Nat /\ d \in Nat BY <1>1 DEF Batch
  <2>4. ~(b < d) BY <1>1, <1>4, <2>1, <2>2
  <2>5. ~(d < b) BY <1>1, <1>4, <2>1, <2>2
  <2>6. b = d BY <2>3, <2>4, <2>5
  <2> QED BY <1>1, <2>1, <2>2, <2>6
<1>8. \A b \in B, i \in 1 .. BatchSize : entry(b, i) \in Entry
  BY <1>1, <1>6 DEF Entry, entry
<1> QED BY <1>2, <1>5, <1>6, <1>7, <1>8

\* While the inserting has not come to its end, its next entry is one that is
\* not there yet.
LEMMA NextEntry ==
    ASSUME NEW r \in Record, NEW M, NEW e, ~(Entries(r) \subseteq M),
           e = CHOOSE x \in Entries(r) \ M : \A f \in Entries(r) \ M : x.sequence <= f.sequence
    PROVE  e \in Entries(r) \ M
<1> DEFINE left == Entries(r) \ M
           T == {x.sequence : x \in left}
<1>1. T \subseteq Nat /\ T # {} BY RecordEntries DEF Entry
<1>2. PICK t \in T : \A u \in T : t <= u BY <1>1, LeastNumber
<1>3. \E x \in left : \A f \in left : x.sequence <= f.sequence BY <1>2
<1> QED BY <1>3

\* The entries are left alone: a group goes on with what it has inserted, or
\* there is none yet.
LEMMA EntriesUntouched ==
    ASSUME Core, Stored' \subseteq Stored, UNCHANGED lastSequence,
           \/ /\ mem' = mem /\ group' = group
              /\ \A c \in Client : pc'[c] \in Writing \/ pc[c] \in Writing => pc'[c] = pc[c]
           \/ \A c \in Client : /\ pc[c] \notin Writing
                               /\ pc'[c] \notin {"inserting", "inserted"}
    PROVE  EntryInv'
<1>1. CASE /\ mem' = mem /\ group' = group
           /\ \A c \in Client : pc'[c] \in Writing \/ pc[c] \in Writing => pc'[c] = pc[c]
  <2>1. \A c \in Client :
            /\ pc'[c] = "inserting" <=> pc[c] = "inserting"
            /\ pc'[c] = "inserted" <=> pc[c] = "inserted"
    BY <1>1 DEF Writing
  <2>2. Inserting' <=> Inserting BY <1>1, <2>1 DEF Inserting
  <2>3. Entries(group.record)' = Entries(group.record) BY <1>1 DEF Entries, Place
  <2>4. \A e \in Stored' : e \in Stored OBVIOUS
  <2> QED BY <1>1, <2>1, <2>2, <2>3, <2>4 DEF Core, EntryInv
<1>2. CASE \A c \in Client : pc[c] \notin Writing /\ pc'[c] \notin {"inserting", "inserted"}
  <2>1. ~Inserting BY <1>2 DEF Inserting, Writing
  <2>2. \A e \in Stored' : e \in Stored /\ e.sequence <= lastSequence
    BY <2>1 DEF Core, EntryInv
  <2> QED BY <1>2, <2>2 DEF Core, EntryInv
<1> QED BY <1>1, <1>2

-----------------------------------------------------------------------------
(* The steps of a client keep Core.                                         *)

LEMMA CallKeepsCore ==
    ASSUME Core, NEW c \in Client,
           (\E sync \in BOOLEAN : CallWrite(c, sync)) \/ CallCompactMemTable(c)
    PROVE  Core'
<1>1. PICK writer \in Writer :
        /\ Enqueue(c, writer)
        /\ \/ writer.batch = calls + 1 /\ calls < MaxWrites /\ calls' = calls + 1
              /\ UNCHANGED forced
           \/ writer.batch = 0 /\ calls' = calls /\ forced < MaxForced
              /\ forced' = forced + 1
  <2>1. ASSUME NEW sync \in BOOLEAN, CallWrite(c, sync)
        PROVE  LET w == [batch |-> calls + 1, sync |-> sync]
               IN  w \in Writer /\ Enqueue(c, w) /\ calls < MaxWrites /\ calls' = calls + 1
                   /\ UNCHANGED forced
    BY <2>1, WriteQueueAssumption DEF CallWrite, Writer, Core, TypeOK
  <2>2. ASSUME CallCompactMemTable(c)
        PROVE  LET w == [batch |-> 0, sync |-> FALSE]
               IN  w \in Writer /\ Enqueue(c, w) /\ forced < MaxForced
                   /\ forced' = forced + 1 /\ UNCHANGED calls
    BY <2>2, WriteQueueAssumption DEF CallCompactMemTable, Writer, Core, TypeOK
  <2> QED BY <2>1, <2>2
<1>2. /\ UNCHANGED <<result, group, memoryVars, diskVars, historyVars, background,
                     shuttingDown, errors>>
      /\ call' = [call EXCEPT ![c] = writer] /\ call \in [Client -> Writer]
  BY <1>1 DEF Enqueue, Core, TypeOK
<1>3. calls' \in 0 .. MaxWrites /\ forced' \in 0 .. MaxForced /\ calls <= calls'
  BY <1>1, WriteQueueAssumption DEF Core, TypeOK
<1>4. /\ pc' \in [Client -> Pc] /\ writers' \in Seq(Client) /\ QueueInv' /\ GroupInv'
      /\ holder' \in Client \cup {Free} /\ allowDelay' \in BOOLEAN
      /\ call' \in [Client -> Writer]
  BY <1>1, Joins
<1>5. TypeOK'
  BY <1>2, <1>3, <1>4
  DEF Core, TypeOK, memoryVars, diskVars, historyVars, Pc, Waiting, Writing, Away
<1>6. BackgroundInv' BY <1>2 DEF Core, BackgroundInv, memoryVars, diskVars, Log
<1>7. CallInv'
  <2>1. \A d \in Client : call[d].batch \in Nat /\ call[d].batch <= calls
    BY <1>2 DEF Core, CallInv, Writer
  <2>2. \A d \in Client : d # c => call'[d] = call[d] BY <1>2
  <2>3. call'[c].batch = writer.batch /\ calls \in Nat BY <1>2 DEF Core, TypeOK
  <2> QED BY <1>1, <1>3, <2>1, <2>2, <2>3 DEF Core, CallInv
<1>8. EntryInv'
  <2>1. \A d \in Client : pc'[d] \in Writing \/ pc[d] \in Writing => pc'[d] = pc[d]
    <3>1. pc[c] = "idle" /\ pc'[c] \in {"queued", "room"} /\ \A d \in Client : d # c => pc'[d] = pc[d]
      BY <1>1, PcType DEF Enqueue, Lead, Core
    <3> QED BY <3>1 DEF Writing
  <2>2. Stored' = Stored BY <1>2 DEF Stored, memoryVars
  <2> QED BY <1>2, <2>1, <2>2, EntriesUntouched DEF memoryVars
<1> QED BY <1>4, <1>5, <1>6, <1>7, <1>8 DEF Core

\* A step of a client outside the queue.
LEMMA AwayKeepsCore ==
    ASSUME Core, NEW c \in Client, Return(c) \/ CheckFlushed(c)
    PROVE  Core'
<1>1. pc[c] \in Away /\ \E q \in Away : pc' = [pc EXCEPT ![c] = q]
  BY DEF Return, CheckFlushed, Away
<1>2. /\ UNCHANGED <<call, result, allowDelay, holder, writers, group, calls, forced,
                     memoryVars, diskVars, mayReturn, background, shuttingDown, errors>>
      /\ acked' \subseteq Writer /\ failed' \subseteq Writer
  BY DEF Return, CheckFlushed, historyVars, Core, TypeOK
<1>3. pc' \in [Client -> Pc] /\ QueueInv' /\ GroupInv' /\ CallInv'
  BY <1>1, <1>2, AwayMoves DEF memoryVars
<1>4. TypeOK'
  BY <1>2, <1>3
  DEF Core, TypeOK, memoryVars, diskVars, Pc, Waiting, Writing, Away
<1>5. BackgroundInv' BY <1>2 DEF Core, BackgroundInv, memoryVars, diskVars, Log
<1>6. EntryInv'
  <2>1. \A d \in Client : pc'[d] \in Writing \/ pc[d] \in Writing => pc'[d] = pc[d]
    BY <1>1, PcType DEF Core, Writing, Away
  <2>2. Stored' = Stored BY <1>2 DEF Stored, memoryVars
  <2> QED BY <1>2, <2>1, <2>2, EntriesUntouched DEF memoryVars
<1> QED BY <1>3, <1>4, <1>5, <1>6 DEF Core

\* A step of the first writer on its way through MakeRoomForWrite.
LEMMA RoomKeepsCore ==
    ASSUME Core, NEW c \in Client,
           WakeUp(c) \/ Delay(c) \/ WaitForRoom(c) \/ LookAgain(c)
    PROVE  Core'
<1>1. /\ pc[c] \in Waiting \ {"queued"}
      /\ \E q \in Waiting \ {"queued"} :
            pc' = [pc EXCEPT ![c] = q] /\ holder' = IF q = "room" THEN c ELSE Free
      /\ allowDelay' \in BOOLEAN
      /\ UNCHANGED <<call, result, writers, group, calls, forced, memoryVars, diskVars,
                     historyVars, background, shuttingDown, errors>>
  <2>1. call[c] \in Writer /\ allowDelay \in BOOLEAN BY DEF Core, TypeOK
  <2>2. CASE WakeUp(c)
    BY <2>1, <2>2 DEF WakeUp, Lead, Waiting
  <2>3. CASE Delay(c)
    <3>1. /\ pc[c] = "room" /\ pc' = [pc EXCEPT ![c] = "delayed"]
          /\ holder' = IF "delayed" = "room" THEN c ELSE Free
      BY <2>3 DEF Delay, InRoom
    <3>2. allowDelay' \in BOOLEAN BY <2>1, <2>3 DEF Delay
    <3> QED BY <3>1, <3>2, <2>3 DEF Delay, Waiting
  <2>4. CASE WaitForRoom(c)
    <3>1. /\ pc[c] = "room" /\ pc' = [pc EXCEPT ![c] = "full"]
          /\ holder' = IF "full" = "room" THEN c ELSE Free
      BY <2>4 DEF WaitForRoom, InRoom
    <3>2. allowDelay' \in BOOLEAN BY <2>1, <2>4 DEF WaitForRoom
    <3> QED BY <3>1, <3>2, <2>4 DEF WaitForRoom, Waiting
  <2>5. CASE LookAgain(c)
    BY <2>1, <2>5 DEF LookAgain, Waiting
  <2> QED BY <2>2, <2>3, <2>4, <2>5
<1>2. pc' \in [Client -> Pc] /\ QueueInv' /\ holder' \in Client \cup {Free}
  BY <1>1, FirstMoves
<1>3. \A d \in Client : pc[d] \notin Writing /\ pc'[d] \notin Writing
  BY <1>1, FirstWriter, PcType DEF Core, Waiting, Writing, Away
<1>4. TypeOK'
  BY <1>1, <1>2
  DEF Core, TypeOK, memoryVars, diskVars, historyVars, Pc, Waiting, Writing, Away
<1>5. GroupInv' BY <1>1, <1>3 DEF Core, GroupInv, NoGroup, Torn
<1>6. BackgroundInv' BY <1>1 DEF Core, BackgroundInv, memoryVars, diskVars, Log
<1>7. CallInv' BY <1>1 DEF Core, CallInv
<1>8. EntryInv'
  <2>1. Stored' = Stored BY <1>1 DEF Stored, memoryVars
  <2>2. \A d \in Client : pc'[d] \notin {"inserting", "inserted"} BY <1>3 DEF Writing
  <2> QED BY <1>1, <1>3, <2>1, <2>2, EntriesUntouched DEF memoryVars
<1> QED BY <1>2, <1>4, <1>5, <1>6, <1>7, <1>8 DEF Core

\* The first writer leaves the queue before it got a group.
LEMMA GiveUpKeeps ==
    ASSUME Core, NEW c \in Client, pc[c] \in Waiting \ {"queued"},
           NEW status \in Statuses, GiveUp(c, status), UNCHANGED lastSequence
    PROVE  /\ pc' \in [Client -> Pc] /\ writers' \in Seq(Client)
           /\ result' \in [Client -> Statuses] /\ holder' = Free
           /\ QueueInv' /\ GroupInv' /\ CallInv'
           /\ UNCHANGED <<call, allowDelay, group, calls, forced>>
           /\ group = NoGroup
           /\ \A d \in Client :
                \/ d = c /\ pc'[d] = "returning" /\ result'[d] = status
                \/ /\ pc'[d] = pc[d] \/ (pc[d] = "queued" /\ pc'[d] = "signalled")
                   /\ result'[d] = result[d]
<1>1. pc \in [Client -> Pc] /\ Alike(pc, pc) BY PcType DEF Core, Alike
<1>2. Len(writers) \in Nat \ {0} /\ writers[1] = c BY FirstWriter
<1>3. 1 \in 1 .. Len(writers) BY <1>2
<1>4. Pop(pc, 1, status) /\ holder' = Free /\ UNCHANGED <<call, allowDelay, group, calls, forced>>
  BY DEF GiveUp
<1>5. /\ pc' \in [Client -> Pc] /\ writers' \in Seq(Client)
      /\ result' \in [Client -> Statuses] /\ Popped(pc, 1, status)
      /\ \A d \in Client : pc'[d] \notin Writing
      /\ QueueInv'
  BY <1>1, <1>3, <1>4, PopQueue
<1>6. \A d \in Client : pc[d] \notin Writing
  BY FirstWriter, PcType DEF Core, Waiting, Writing, Away
<1>7. group = NoGroup BY <1>6 DEF Core, GroupInv
<1>8. GroupInv' BY <1>4, <1>5, <1>7 DEF GroupInv, NoGroup, Torn
<1>9. CallInv' BY <1>4 DEF Core, CallInv
<1>10. \A d \in Client : (\E i \in 1 .. 1 : writers[i] = d) <=> d = c BY <1>2
<1> QED BY <1>4, <1>5, <1>7, <1>8, <1>9, <1>10 DEF Popped

\* The first writer takes its group to the log.
LEMMA GroupBegins ==
    ASSUME Core, NEW c \in Client, pc[c] = "room", call[c].batch # 0,
           Proceed(c), UNCHANGED lastSequence
    PROVE  /\ pc' = [pc EXCEPT ![c] = "logging"] /\ holder' = Free
           /\ UNCHANGED <<call, result, allowDelay, writers, calls, forced>>
           /\ pc' \in [Client -> Pc] /\ QueueInv' /\ GroupInv' /\ CallInv'
           /\ group = NoGroup
           /\ group' \in [record : Record, size : Nat, status : Statuses, syncError : BOOLEAN]
           /\ group'.status = "ok" /\ ~group'.syncError
           /\ group'.record.first = lastSequence + 1
<1> DEFINE record(size) ==
        [first |-> lastSequence + 1,
         batches |-> {call[writers[i]].batch : i \in 1 .. size} \ {0}]
<1>1. PICK size \in GroupSizes(c) :
        group' = [record |-> record(size), size |-> size, status |-> "ok", syncError |-> FALSE]
  BY DEF Proceed
<1>2. /\ pc' = [pc EXCEPT ![c] = "logging"] /\ holder' = Free
      /\ UNCHANGED <<call, result, allowDelay, writers, calls, forced>>
  BY DEF Proceed
<1>3. pc' \in [Client -> Pc] /\ QueueInv'
  BY <1>2, FirstMoves DEF Waiting, Writing
<1>4. size \in 1 .. Len(writers) /\ \A i \in 2 .. size : call[writers[i]].sync => call[c].sync
  BY <1>1 DEF GroupSizes
<1>5. Len(writers) \in Nat \ {0} /\ writers[1] = c /\ \A i \in 1 .. Len(writers) : writers[i] \in Client
  BY FirstWriter DEF Waiting, Core, TypeOK
<1>6. lastSequence \in Nat /\ call \in [Client -> Writer] BY DEF Core, TypeOK
<1>7. \A i \in 1 .. size : writers[i] \in Client /\ call[writers[i]].batch \in 0 .. MaxWrites
  BY <1>4, <1>5, <1>6 DEF Writer
<1>8. record(size) \in Record
  <2>1. {call[writers[i]].batch : i \in 1 .. size} \ {0} \subseteq Batch
    BY <1>7, WriteQueueAssumption DEF Batch
  <2> QED BY <2>1, <1>6 DEF Record
<1>9. \A i \in 1 .. size : call[writers[i]].sync => call[c].sync
  <2>1. \A i \in 1 .. size : i = 1 \/ i \in 2 .. size BY <1>4, <1>5
  <2> QED BY <2>1, <1>4, <1>5
<1>10. \A d \in Client : pc[d] \notin Writing /\ (pc'[d] \in Writing <=> d = c)
  BY <1>2, FirstWriter, PcType DEF Core, Pc, Waiting, Writing, Away
<1>11. group = NoGroup BY <1>10 DEF Core, GroupInv
<1>12. GroupInv'
  <2>1. pc'[c] = "logging"
    BY <1>2, PcType DEF Core
  <2>2. /\ group'.size = size /\ group'.record = record(size) /\ group'.status = "ok"
        /\ group'.syncError = FALSE /\ record(size).first = lastSequence + 1
        /\ record(size).batches = {call[writers[i]].batch : i \in 1 .. size} \ {0}
    BY <1>1
  <2> HIDE DEF record
  <2>3. pc'[c] \in Writing BY <2>1 DEF Writing
  <2> QED BY <2>2, <2>3, <1>2, <1>4, <1>9, <1>10 DEF GroupInv
<1>13. CallInv' BY <1>2 DEF Core, CallInv
<1> QED BY <1>1, <1>2, <1>3, <1>4, <1>5, <1>8, <1>11, <1>12, <1>13 DEF Statuses

\* The end of MakeRoomForWrite.
LEMMA ProceedKeeps ==
    ASSUME Core, NEW c \in Client, pc[c] = "room", Proceed(c), UNCHANGED lastSequence
    PROVE  /\ pc' \in [Client -> Pc] /\ writers' \in Seq(Client)
           /\ result' \in [Client -> Statuses] /\ holder' = Free
           /\ QueueInv' /\ GroupInv' /\ CallInv'
           /\ UNCHANGED <<call, allowDelay, calls, forced>>
           /\ group' \in [record : Record, size : Nat, status : Statuses, syncError : BOOLEAN]
<1>1. CASE call[c].batch = 0
  <2>1. GiveUp(c, "ok") BY <1>1 DEF Proceed
  <2> QED BY <2>1, GiveUpKeeps DEF Waiting, Statuses, Core, TypeOK
<1>2. CASE call[c].batch # 0
  BY <1>2, GroupBegins DEF Core, TypeOK, Statuses
<1> QED BY <1>1, <1>2

LEMMA GroupKeepsCore ==
    ASSUME Core, NEW c \in Client,
           YieldError(c) \/ NewLogFails(c) \/ FindRoom(c) \/ SwitchMemTable(c)
    PROVE  Core'
<1>1. pc[c] = "room" /\ pc[c] \in Waiting \ {"queued"} /\ UNCHANGED lastSequence
  BY DEF YieldError, NewLogFails, FindRoom, SwitchMemTable, InRoom, Waiting, memoryVars
<1>2. /\ pc' \in [Client -> Pc] /\ writers' \in Seq(Client)
      /\ result' \in [Client -> Statuses] /\ holder' = Free
      /\ QueueInv' /\ GroupInv' /\ CallInv'
      /\ UNCHANGED <<call, allowDelay, calls, forced>>
      /\ group' \in [record : Record, size : Nat, status : Statuses, syncError : BOOLEAN]
  <2>1. CASE YieldError(c) \/ NewLogFails(c)
    <3>1. GiveUp(c, "error") BY <2>1 DEF YieldError, NewLogFails
    <3> QED BY <3>1, <1>1, GiveUpKeeps DEF Core, TypeOK, Statuses
  <2>2. CASE FindRoom(c) \/ SwitchMemTable(c)
    <3>1. Proceed(c) BY <2>2 DEF FindRoom, SwitchMemTable
    <3> QED BY <3>1, <1>1, ProceedKeeps
  <2> QED BY <2>1, <2>2
<1>3. \A d \in Client : pc[d] \notin Writing /\ pc'[d] \notin {"inserting", "inserted"}
  <2>1. \A d \in Client : pc[d] \notin Writing
    BY <1>1, FirstWriter, PcType DEF Core, Waiting, Writing, Away
  <2>2. CASE GiveUp(c, "error") \/ GiveUp(c, "ok")
    <3>1. PICK status \in Statuses : GiveUp(c, status) BY <2>2 DEF Statuses
    <3>2. \A d \in Client : pc'[d] \in {pc[d], "returning", "signalled"}
      BY <3>1, <1>1, GiveUpKeeps
    <3> QED BY <2>1, <3>2 DEF Writing
  <2>3. CASE pc' = [pc EXCEPT ![c] = "logging"]
    <3>1. \A d \in Client : pc'[d] \in {pc[d], "logging"} BY <2>3, PcType DEF Core
    <3> QED BY <2>1, <3>1 DEF Writing
  <2> QED BY <2>2, <2>3 DEF YieldError, NewLogFails, FindRoom, SwitchMemTable, Proceed
<1>4. CASE SwitchMemTable(c)
  <2>1. /\ logs' = Append(logs, <<>>) /\ synced' = Append(synced, 0)
        /\ imm' = mem /\ hasImm' = TRUE /\ mem' = {} /\ ~hasImm
        /\ background' = IF background.at = "idle" THEN Scheduled(FALSE, TRUE, level0)
                         ELSE background
        /\ UNCHANGED <<lastSequence, tables, level0, bgError, manifest, torn, historyVars,
                       shuttingDown, errors>>
    BY <1>4 DEF SwitchMemTable, MustWait
  <2>2. /\ logs' \in Seq(Seq(Record)) /\ synced' \in Seq(Nat)
        /\ Len(synced') = Len(logs') /\ DOMAIN logs \subseteq DOMAIN logs'
    BY <2>1 DEF Core, TypeOK
  <2>3. /\ background' \in [at : {"idle", "scheduled", "building", "applying", "merging",
                                   "installing"},
                             inputs : Nat, log : Nat]
        /\ background'.at \notin {"building", "applying"}
        /\ background'.inputs <= level0
    BY <2>1 DEF Core, TypeOK, BackgroundInv, Scheduled
  <2>4. TypeOK'
    BY <1>2, <2>1, <2>2, <2>3
    DEF Core, TypeOK, historyVars, Pc, Waiting, Writing, Away, Statuses
  <2>5. BackgroundInv' BY <2>1, <2>3 DEF BackgroundInv
  <2>6. EntryInv'
    <3>1. Stored' \subseteq Stored BY <2>1 DEF Stored
    <3> QED BY <2>1, <1>3, <3>1, EntriesUntouched
  <2> QED BY <1>2, <2>4, <2>5, <2>6 DEF Core
<1>5. CASE YieldError(c) \/ NewLogFails(c) \/ FindRoom(c)
  <2>1. /\ UNCHANGED <<memoryVars, diskVars, historyVars, background, shuttingDown>>
        /\ errors' \in 0 .. MaxErrors
    BY <1>5, WriteQueueAssumption
    DEF YieldError, NewLogFails, FindRoom, Fail, Core, TypeOK
  <2>2. TypeOK'
    BY <1>2, <2>1 DEF Core, TypeOK, memoryVars, diskVars, historyVars, Pc, Waiting, Writing,
                      Away, Statuses
  <2>3. BackgroundInv' BY <2>1 DEF Core, BackgroundInv, memoryVars, diskVars, Log
  <2>4. EntryInv'
    <3>1. Stored' = Stored BY <2>1 DEF Stored, memoryVars
    <3> QED BY <2>1, <1>3, <3>1, EntriesUntouched DEF memoryVars
  <2> QED BY <1>2, <2>2, <2>3, <2>4 DEF Core
<1> QED BY <1>4, <1>5

-----------------------------------------------------------------------------
(* The steps of the writer with its group.                                  *)

\* The first writer goes on with its group.
LEMMA StepKeeps ==
    ASSUME Core, NEW c \in Client, pc[c] \in Writing, NEW q \in Writing,
           NEW status \in Statuses, NEW syncError \in BOOLEAN,
           Step(c, q, status, syncError), UNCHANGED lastSequence,
           q # "inserted" => status = "ok", syncError => status = "error"
    PROVE  /\ pc' \in [Client -> Pc] /\ QueueInv' /\ GroupInv' /\ CallInv'
           /\ UNCHANGED <<call, result, allowDelay, writers, calls, forced>>
           /\ holder' = holder /\ holder = Free
           /\ group' = [group EXCEPT !.status = status, !.syncError = syncError]
           /\ group' \in [record : Record, size : Nat, status : Statuses, syncError : BOOLEAN]
           /\ pc'[c] = q /\ \A d \in Client : d # c => pc'[d] = pc[d] /\ pc[d] \notin Writing
<1>1. /\ pc' = [pc EXCEPT ![c] = q]
      /\ group' = [group EXCEPT !.status = status, !.syncError = syncError]
      /\ UNCHANGED <<call, result, allowDelay, holder, writers, calls, forced>>
  BY DEF Step
<1>2. holder = Free
  BY FirstWriter DEF Core, TypeOK, QueueInv, Writing, Away
<1>3. pc' \in [Client -> Pc] /\ QueueInv'
  BY <1>1, <1>2, FirstMoves DEF Writing
<1>4. pc'[c] = q /\ \A d \in Client : d # c => pc'[d] = pc[d] /\ pc[d] \notin Writing
  BY <1>1, FirstWriter, PcType DEF Core, Writing, Away
<1>5. /\ group' \in [record : Record, size : Nat, status : Statuses, syncError : BOOLEAN]
      /\ group'.record = group.record /\ group'.size = group.size
      /\ group'.status = status /\ group'.syncError = syncError
  BY <1>1 DEF Core, TypeOK, Statuses
<1>6. GroupInv'
  <2>1. /\ call[c].batch # 0
        /\ group.size \in 1 .. Len(writers)
        /\ group.record.first = lastSequence + 1
        /\ group.record.batches
                = {call[writers[i]].batch : i \in 1 .. group.size} \ {0}
        /\ \A i \in 1 .. group.size : call[writers[i]].sync => call[c].sync
    BY DEF Core, GroupInv
  <2>2. \A d \in Client : pc'[d] \in Writing <=> d = c BY <1>4
  <2> QED BY <2>1, <2>2, <1>1, <1>4, <1>5 DEF GroupInv
<1>7. CallInv' BY <1>1 DEF Core, CallInv
<1> QED BY <1>1, <1>2, <1>3, <1>4, <1>5, <1>6, <1>7

\* Before its entries are inserted, a group's numbers are new.
LEMMA NumbersAreNew ==
    ASSUME Core, NEW c \in Client, pc[c] \in Writing
    PROVE  /\ group.record \in Record /\ group.record.first = lastSequence + 1
           /\ call[c].batch \in group.record.batches
           /\ \A e \in Entries(group.record) : e \in Entry /\ lastSequence < e.sequence
           /\ Entries(group.record) # {}
           /\ pc[c] \in {"logging", "syncing"} \/ group.status = "error" =>
                /\ \A e \in Stored : e.sequence <= lastSequence
                /\ ~(Entries(group.record) \subseteq mem)
<1>1. /\ group.record \in Record /\ group.record.first = lastSequence + 1
      /\ lastSequence \in Nat
  BY DEF Core, TypeOK, GroupInv
<1>2. call[c].batch \in group.record.batches
  <2>1. writers[1] = c BY FirstWriter
  <2>2. group.size \in 1 .. Len(writers) /\ Len(writers) \in Nat /\ call[c].batch # 0
    BY DEF Core, TypeOK, GroupInv
  <2>3. 1 \in 1 .. group.size BY <2>2
  <2> QED BY <2>1, <2>2, <2>3 DEF Core, GroupInv
<1>3. \A e \in Entries(group.record) : e \in Entry /\ lastSequence < e.sequence
  BY <1>1, RecordEntries DEF Entry
<1>4. Entries(group.record) # {}
  <2>1. 1 \in 1 .. BatchSize BY WriteQueueAssumption
  <2> QED BY <1>1, <1>2, <2>1, RecordEntries
<1>5. ASSUME pc[c] \in {"logging", "syncing"} \/ group.status = "error"
      PROVE  /\ \A e \in Stored : e.sequence <= lastSequence
             /\ ~(Entries(group.record) \subseteq mem)
  <2>1. ~Inserting
    BY <1>5, FirstWriter DEF Inserting, Away
  <2>2. \A e \in Stored : e.sequence <= lastSequence BY <2>1 DEF Core, EntryInv
  <2>3. PICK e \in Entries(group.record) : TRUE BY <1>4
  <2>4. lastSequence < e.sequence /\ e.sequence \in Nat BY <1>3 DEF Entry
  <2>5. e \notin mem BY <1>1, <2>2, <2>4 DEF Stored
  <2> QED BY <2>2, <2>5
<1> QED BY <1>1, <1>2, <1>3, <1>4, <1>5

LEMMA WritingKeepsCore ==
    ASSUME Core, NEW c \in Client,
           AddRecord(c) \/ AddRecordFails(c) \/ Sync(c) \/ SyncFails(c) \/ Insert(c)
    PROVE  Core'
<1>1. pc[c] \in Writing /\ UNCHANGED lastSequence
  BY DEF AddRecord, AddRecordFails, Sync, SyncFails, Insert, memoryVars, Writing
<1>2. \E q \in Writing, status \in Statuses, syncError \in BOOLEAN :
        /\ Step(c, q, status, syncError)
        /\ q # "inserted" => status = "ok"
        /\ syncError => status = "error"
  <2> DEFINE Goal(q, status, syncError) ==
        /\ q \in Writing /\ status \in Statuses /\ syncError \in BOOLEAN
        /\ Step(c, q, status, syncError)
        /\ q # "inserted" => status = "ok"
        /\ syncError => status = "error"
  <2>1. CASE AddRecord(c)
    <3>1. Goal(IF call[c].sync THEN "syncing" ELSE "inserting", "ok", FALSE)
      BY <2>1 DEF AddRecord, Writing, Statuses
    <3> QED BY <3>1
  <2>2. CASE AddRecordFails(c)
    <3>1. Goal("inserted", "error", FALSE) BY <2>2 DEF AddRecordFails, Writing, Statuses
    <3> QED BY <3>1
  <2>3. CASE Sync(c)
    <3>1. Goal("inserting", "ok", FALSE) BY <2>3 DEF Sync, Writing, Statuses
    <3> QED BY <3>1
  <2>4. CASE SyncFails(c)
    <3>1. Goal("inserted", "error", TRUE) BY <2>4 DEF SyncFails, Writing, Statuses
    <3> QED BY <3>1
  <2>5. CASE Insert(c)
    <3>1. PICK q \in {"inserted", "inserting"} : Step(c, q, "ok", FALSE)
      BY <2>5 DEF Insert
    <3>2. Goal(q, "ok", FALSE) BY <3>1 DEF Writing, Statuses
    <3> QED BY <3>2
  <2> QED BY <2>1, <2>2, <2>3, <2>4, <2>5
<1>3. /\ pc' \in [Client -> Pc] /\ QueueInv' /\ GroupInv' /\ CallInv'
      /\ UNCHANGED <<call, result, allowDelay, writers, calls, forced, holder>>
      /\ group' \in [record : Record, size : Nat, status : Statuses, syncError : BOOLEAN]
  BY <1>1, <1>2, StepKeeps
<1>4. Log \in Nat \ {0} /\ Log \in DOMAIN logs /\ logs[Log] \in Seq(Record)
      /\ group.record \in Record /\ Torn \in Record
  BY DEF Core, TypeOK, Log, Record, Torn
<1>5. /\ logs' \in Seq(Seq(Record)) /\ Len(logs') = Len(logs) /\ DOMAIN logs' = DOMAIN logs
      /\ synced' \in Seq(Nat) /\ Len(synced') = Len(synced)
  <2>1. CASE AddRecord(c) \/ AddRecordFails(c)
    <3>1. PICK r \in Record : logs' = [logs EXCEPT ![Log] = Append(@, r)] /\ UNCHANGED synced
      BY <2>1, <1>4 DEF AddRecord, AddRecordFails
    <3>2. Append(logs[Log], r) \in Seq(Record) BY <1>4
    <3> QED BY <3>1, <3>2, <1>4 DEF Core, TypeOK
  <2>2. CASE Sync(c)
    <3>1. synced' = [synced EXCEPT ![Log] = Len(logs[Log])] /\ UNCHANGED logs
      BY <2>2 DEF Sync
    <3>2. Len(logs[Log]) \in Nat BY <1>4
    <3>3. /\ synced \in Seq(Nat) /\ Len(synced) = Len(logs) /\ logs \in Seq(Seq(Record))
      BY DEF Core, TypeOK
    <3>4. synced' \in Seq(Nat) /\ Len(synced') = Len(synced)
      BY <3>1, <3>2, <3>3, <1>4, ExceptSeq DEF Log
    <3> QED BY <3>1, <3>3, <3>4
  <2>3. CASE SyncFails(c) \/ Insert(c)
    BY <2>3 DEF SyncFails, Insert, diskVars, Core, TypeOK
  <2> QED BY <2>1, <2>2, <2>3
<1>6. mem' \subseteq Entry /\ EntryInv'
  <2>1. group'.record = group.record /\ lastSequence' = lastSequence /\ lastSequence \in Nat
    BY <1>1, <1>2 DEF Step, Core, TypeOK
  <2>2. Entries(group.record)' = Entries(group.record) BY <2>1 DEF Entries, Place
  <2>3. \A d \in Client : d # c => pc'[d] = pc[d] /\ pc[d] \notin Writing
    BY <1>1, <1>2, FirstWriter, PcType DEF Step, Core, Writing, Away
  <2>4. \A e \in Stored : e \in Entry BY DEF Core, TypeOK, Stored
  <2>5. CASE ~Insert(c)
    <3>1. mem' = mem /\ Stored' = Stored
      BY <2>5 DEF AddRecord, AddRecordFails, Sync, SyncFails, memoryVars, Stored
    <3>2. pc[c] \in {"logging", "syncing"}
      BY <2>5 DEF AddRecord, AddRecordFails, Sync, SyncFails
    <3>3. pc'[c] # "inserted" \/ group'.status = "error"
      <4>1. pc \in [Client -> Pc] /\ group \in [record : Record, size : Nat, status : Statuses,
                                              syncError : BOOLEAN]
        BY PcType DEF Core, TypeOK, Statuses
      <4> QED BY <4>1, <2>5 DEF AddRecord, AddRecordFails, Sync, SyncFails, Step
    <3>4. /\ \A e \in Stored : e.sequence <= lastSequence
          /\ ~(Entries(group.record) \subseteq mem)
      BY <1>1, <3>2, NumbersAreNew
    <3>5. \A d \in Client : pc'[d] = "inserted" => d = c BY <2>3 DEF Writing
    <3>6. group'.status # "ok" \/ pc'[c] # "inserted" BY <3>3
    <3>7. EntryInv'
      BY <2>1, <2>2, <3>1, <3>4, <3>5, <3>6 DEF Core, EntryInv
    <3> QED BY <3>1, <3>7 DEF Core, TypeOK
  <2>6. CASE Insert(c)
    <3> DEFINE left == Entries(group.record) \ mem
               entry == CHOOSE e \in left : \A f \in left : e.sequence <= f.sequence
    <3>1. /\ pc[c] = "inserting" /\ mem' = mem \cup {entry} /\ UNCHANGED <<imm, tables>>
          /\ Step(c, IF left = {entry} THEN "inserted" ELSE "inserting", "ok", FALSE)
      BY <2>6 DEF Insert
    <3>2. entry \in left
      <4>1. ~(Entries(group.record) \subseteq mem) BY <3>1 DEF Core, EntryInv
      <4> QED BY <4>1, NextEntry, <1>1, NumbersAreNew
    <3> HIDE DEF entry
    <3>3. /\ pc'[c] = IF left = {entry} THEN "inserted" ELSE "inserting"
          /\ group'.status = "ok"
      BY <3>1, PcType DEF Step, Core, TypeOK
    <3>4. Inserting' BY <3>3 DEF Inserting
    <3>5. Stored' = Stored \cup {entry} BY <3>1 DEF Stored
    <3>6. /\ \A e \in Entries(group.record) : e \in Entry /\ lastSequence < e.sequence
          /\ \A e, f \in Entries(group.record) : e.sequence = f.sequence => e = f
      BY <1>1, NumbersAreNew, RecordEntries
    <3>7. \A e \in Stored' :
            \/ e.sequence <= lastSequence
            \/ e \in Entries(group.record) /\ e \in mem'
      BY <3>1, <3>2, <3>5 DEF Core, EntryInv
    <3>8. \A f \in Stored : f.sequence = entry.sequence => f = entry
      <4> SUFFICES ASSUME NEW f \in Stored, f.sequence = entry.sequence PROVE f = entry
        OBVIOUS
      <4>1. lastSequence < f.sequence /\ f.sequence \in Nat BY <3>2, <3>6 DEF Entry
      <4>2. f \in Entries(group.record) BY <4>1, <2>1 DEF Core, EntryInv
      <4> QED BY <4>2, <3>2, <3>6
    <3>9. \A e, f \in Stored' : e.sequence = f.sequence => e = f
      BY <3>5, <3>8 DEF Core, EntryInv
    <3>10. \A d \in Client : pc'[d] = "inserting" => ~(Entries(group.record) \subseteq mem')
      <4> SUFFICES ASSUME NEW d \in Client, pc'[d] = "inserting"
                   PROVE  ~(Entries(group.record) \subseteq mem')
        OBVIOUS
      <4>1. d = c BY <2>3 DEF Writing
      <4>2. left # {entry} BY <4>1, <3>3
      <4> QED BY <4>2, <3>1, <3>2
    <3>11. \A d \in Client : pc'[d] = "inserted" => Entries(group.record) \subseteq mem'
      <4> SUFFICES ASSUME NEW d \in Client, pc'[d] = "inserted"
                   PROVE  Entries(group.record) \subseteq mem'
        OBVIOUS
      <4>1. d = c BY <2>3 DEF Writing
      <4>2. left = {entry} BY <4>1, <3>3
      <4> QED BY <4>2, <3>1
    <3>12. EntryInv'
      BY <2>1, <2>2, <3>4, <3>7, <3>9, <3>10, <3>11 DEF EntryInv
    <3>13. mem' \subseteq Entry BY <3>1, <3>2, <3>6 DEF Core, TypeOK
    <3> QED BY <3>12, <3>13
  <2> QED BY <2>5, <2>6
<1>7. /\ UNCHANGED <<imm, hasImm, tables, level0, bgError, manifest, acked, failed,
                     background, shuttingDown>>
      /\ torn' \in BOOLEAN /\ errors' \in 0 .. MaxErrors
      /\ mayReturn' \subseteq 0 .. MaxWrites
  <2>1. CASE AddRecord(c) \/ Sync(c)
    BY <2>1 DEF AddRecord, Sync, memoryVars, historyVars, Core, TypeOK
  <2>2. CASE AddRecordFails(c)
    BY <2>2, WriteQueueAssumption
    DEF AddRecordFails, Fail, memoryVars, historyVars, Core, TypeOK
  <2>3. CASE SyncFails(c)
    <3>1. mayReturn' = {w.batch : w \in acked} \cup
            {call[d].batch : d \in {d \in Client : pc[d] = "returning" /\ result[d] = "ok"}}
      BY <2>3 DEF SyncFails
    <3>2. acked \subseteq Writer /\ call \in [Client -> Writer] BY DEF Core, TypeOK
    <3>3. mayReturn' \subseteq 0 .. MaxWrites BY <3>1, <3>2 DEF Writer
    <3> QED
      BY <2>3, <3>3, WriteQueueAssumption
      DEF SyncFails, Fail, memoryVars, diskVars, Core, TypeOK
  <2>4. CASE Insert(c)
    BY <2>4 DEF Insert, diskVars, historyVars, Core, TypeOK
  <2> QED BY <2>1, <2>2, <2>3, <2>4
<1>8. TypeOK'
  BY <1>1, <1>3, <1>5, <1>6, <1>7
  DEF Core, TypeOK, Pc, Waiting, Writing, Away, Statuses
<1>9. BackgroundInv' BY <1>5, <1>7 DEF Core, BackgroundInv, Log
<1> QED BY <1>3, <1>6, <1>8, <1>9 DEF Core

LEMMA FinishKeepsCore ==
    ASSUME Core, NEW c \in Client, Finish(c)
    PROVE  Core'
<1> DEFINE p == IF group.syncError /\ ~bgError THEN SignalAll(pc) ELSE pc
<1>1. /\ pc[c] = "inserted" /\ holder = Free /\ holder' = Free
      /\ lastSequence' = lastSequence + BatchSize * Cardinality(group.record.batches)
      /\ bgError' = (bgError \/ group.syncError)
      /\ Pop(p, group.size, group.status)
      /\ group' = NoGroup
      /\ UNCHANGED <<call, allowDelay, calls, forced, mem, imm, hasImm, tables,
                     level0, diskVars, historyVars, background, shuttingDown, errors>>
  BY DEF Finish
<1>2. pc \in [Client -> Pc] /\ p \in [Client -> Pc] /\ Alike(pc, p)
  BY PcType, Signalled DEF Core, Alike
<1> HIDE DEF p
<1>3. group.size \in 1 .. Len(writers) /\ group.status \in Statuses /\ group.record \in Record
      /\ group.syncError \in BOOLEAN
  BY <1>1 DEF Core, TypeOK, GroupInv, Writing, Statuses
<1>4. /\ pc' \in [Client -> Pc] /\ writers' \in Seq(Client)
      /\ result' \in [Client -> Statuses]
      /\ \A d \in Client : pc'[d] \notin Writing
      /\ QueueInv'
  BY <1>1, <1>2, <1>3, PopQueue DEF Writing
<1>5. lastSequence' \in Nat /\ lastSequence <= lastSequence'
  <2>1. Cardinality(group.record.batches) \in Nat BY <1>3, BatchesFinite DEF Record
  <2>2. BatchSize * Cardinality(group.record.batches) \in Nat
    BY <2>1, Products, WriteQueueAssumption
  <2>3. lastSequence \in Nat BY DEF Core, TypeOK
  <2> HIDE DEF Core
  <2> QED BY <2>2, <2>3, <1>1
<1>6. NoGroup \in [record : Record, size : Nat, status : Statuses, syncError : BOOLEAN]
  BY DEF NoGroup, Torn, Record, Statuses
<1>7. TypeOK'
  BY <1>1, <1>3, <1>4, <1>5, <1>6
  DEF Core, TypeOK, diskVars, historyVars, Pc, Waiting, Writing, Away, Statuses
<1>8. GroupInv' BY <1>1, <1>4 DEF GroupInv, NoGroup, Torn
<1>9. BackgroundInv' BY <1>1 DEF Core, BackgroundInv, diskVars, Log
<1>10. CallInv' BY <1>1 DEF Core, CallInv
<1>11. EntryInv'
  <2>1. \A e \in Stored : e.sequence \in Nat BY DEF Core, TypeOK, Stored, Entry
  <2>2. \A e \in Entries(group.record) :
            e.sequence < lastSequence + 1 + BatchSize * Cardinality(group.record.batches)
    BY <1>1, <1>3, RecordEntries, NumbersAreNew DEF Writing
  <2>3. \A e \in Stored : e.sequence <= lastSequence'
    <3> SUFFICES ASSUME NEW e \in Stored PROVE e.sequence <= lastSequence'
      OBVIOUS
    <3>1. CASE e.sequence <= lastSequence BY <3>1, <2>1, <1>5 DEF Core, TypeOK
    <3>2. CASE e \in Entries(group.record)
      <4> DEFINE n == BatchSize * Cardinality(group.record.batches)
      <4>1. e.sequence < lastSequence + 1 + n /\ lastSequence' = lastSequence + n
        BY <3>2, <2>2, <1>1
      <4>2. e.sequence \in Nat /\ lastSequence \in Nat
        BY <2>1 DEF Core, TypeOK
      <4>3. n \in Nat
        BY <1>3, WriteQueueAssumption, BatchesFinite, Products DEF Record
      <4> HIDE DEF n
      <4> QED BY <4>1, <4>2, <4>3
    <3> QED BY <3>1, <3>2 DEF Core, EntryInv
  <2>4. Stored' = Stored BY <1>1 DEF Stored
  <2> QED BY <1>4, <2>3, <2>4 DEF Core, EntryInv, Writing
<1> QED BY <1>4, <1>7, <1>8, <1>9, <1>10, <1>11 DEF Core

-----------------------------------------------------------------------------
(* The background thread.                                                   *)

Thread == [at : {"idle", "scheduled", "building", "applying", "merging", "installing"},
           inputs : Nat, log : Nat]
AtRest == [at : {"idle", "scheduled"}, inputs : {0}, log : {0}]

\* Work that is only scheduled has nothing in its hands.
LEMMA ScheduledType ==
    ASSUME NEW error, NEW flush, NEW files
    PROVE  Scheduled(error, flush, files) \in AtRest
BY DEF Scheduled, AtRest

\* A flush ends in the compaction it came up in, or at rest.
LEMMA EndsWork ==
    ASSUME background \in Thread, background.inputs <= level0, level0 \in Nat,
           NEW files \in Nat, level0 <= files,
           \/ background' \in AtRest
           \/ background' = [background EXCEPT !.at = "merging", !.log = 0]
    PROVE  /\ background' \in Thread /\ background'.at \in {"idle", "scheduled", "merging"}
           /\ background'.inputs <= files
<1>1. CASE background' \in AtRest BY <1>1 DEF Thread, AtRest
<1>2. CASE background' = [background EXCEPT !.at = "merging", !.log = 0]
  <2>1. /\ background' \in Thread /\ background'.at = "merging"
        /\ background'.inputs = background.inputs /\ background.inputs \in Nat
    BY <1>2 DEF Thread
  <2> QED BY <2>1
<1> QED BY <1>1, <1>2

LEMMA BackgroundKeepsCore ==
    ASSUME Core, BackgroundStep
    PROVE  Core'
<1>1. /\ UNCHANGED <<call, result, allowDelay, holder, writers, group, calls, forced,
                     lastSequence, mem, logs, synced, historyVars, shuttingDown>>
      /\ UNCHANGED pc \/ pc' = SignalAll(pc)
  BY DEF BackgroundStep, StartWork, FlushFirst, TableBuilt, BuildFails, FlushApplied,
         ApplyFails, Merged, Installed, MergeFails, EndFlush, backgroundLeaves
<1>2. pc' \in [Client -> Pc] /\ Alike(pc, pc')
  BY <1>1, PcType, Signalled DEF Core, Alike
<1>3. QueueInv' /\ GroupInv' /\ CallInv'
  BY <1>1, <1>2, QueueUntouched
<1>4. Stored' = Stored
  <2>1. CASE FlushApplied
    BY <2>1, <1>1 DEF FlushApplied, Stored
  <2>2. CASE ~FlushApplied
    BY <2>2, <1>1 DEF BackgroundStep, StartWork, FlushFirst, TableBuilt, BuildFails,
                      ApplyFails, Merged, Installed, MergeFails, Stored
  <2> QED BY <2>1, <2>2
<1>5. EntryInv'
  <2>1. \A c \in Client : pc'[c] \in Writing \/ pc[c] \in Writing => pc'[c] = pc[c]
    BY <1>2 DEF Alike, Writing
  <2> QED BY <1>1, <1>4, <2>1, EntriesUntouched
<1> DEFINE Types == /\ background' \in [at : {"idle", "scheduled", "building", "applying",
                                             "merging", "installing"},
                                       inputs : Nat, log : Nat]
                    /\ imm' \subseteq Entry /\ tables' \subseteq Entry
                    /\ hasImm' \in BOOLEAN /\ (imm' # {} => hasImm')
                    /\ level0' \in Nat /\ bgError' \in BOOLEAN /\ torn' \in BOOLEAN
                    /\ manifest'.log \in DOMAIN logs /\ manifest'.tables \subseteq Entry
                    /\ errors' \in 0 .. MaxErrors
<1>6. Types /\ BackgroundInv'
  <2>1. /\ background \in [at : {"idle", "scheduled", "building", "applying", "merging",
                                 "installing"},
                           inputs : Nat, log : Nat]
        /\ imm \subseteq Entry /\ tables \subseteq Entry
        /\ hasImm \in BOOLEAN /\ (imm # {} => hasImm)
        /\ level0 \in Nat /\ bgError \in BOOLEAN /\ torn \in BOOLEAN
        /\ manifest.log \in DOMAIN logs /\ manifest.tables \subseteq Entry
        /\ errors \in 0 .. MaxErrors /\ MaxErrors \in Nat
    BY WriteQueueAssumption DEF Core, TypeOK
  <2>11. /\ Log \in Nat /\ DOMAIN logs = 1 .. Log /\ Log' = Log /\ Log \in DOMAIN logs
         /\ logs' = logs
    BY <1>1 DEF Core, TypeOK, Log
  <2>2. CASE StartWork
    <3>1. /\ UNCHANGED <<imm, hasImm, tables, level0, bgError, manifest, torn, errors>>
          /\ \/ background' \in AtRest
             \/ background' = [background EXCEPT !.at = "building"] /\ hasImm
             \/ background' = [background EXCEPT !.at = "merging", !.inputs = level0]
      BY <2>2, ScheduledType DEF StartWork
    <3>2. /\ background' \in Thread /\ background'.at # "applying"
          /\ background'.at = "building" => hasImm
          /\ background'.inputs <= level0
      <4>1. CASE background' \in AtRest BY <4>1, <2>1 DEF Thread, AtRest
      <4>2. CASE background' = [background EXCEPT !.at = "building"] /\ hasImm
        BY <4>2, <2>1 DEF Core, BackgroundInv, Thread
      <4>3. CASE background' = [background EXCEPT !.at = "merging", !.inputs = level0]
        <5>1. /\ background' \in Thread /\ background'.at = "merging"
              /\ background'.inputs = level0
          BY <4>3, <2>1 DEF Thread
        <5> QED BY <5>1, <2>1
      <4> QED BY <3>1, <4>1, <4>2, <4>3
    <3>3. Types BY <2>1, <3>1, <3>2 DEF Thread
    <3>4. BackgroundInv' BY <2>11, <3>1, <3>2 DEF BackgroundInv
    <3> QED BY <3>3, <3>4
  <2>3. CASE FlushFirst
    BY <2>1, <2>11, <2>3 DEF FlushFirst, Core, BackgroundInv
  <2>4. CASE TableBuilt
    BY <2>1, <2>11, <2>4 DEF TableBuilt, Core, BackgroundInv
  <2>5. CASE BuildFails
    <3>1. /\ UNCHANGED <<imm, hasImm, tables, level0, manifest, torn>> /\ bgError' = TRUE
          /\ errors' = errors \/ (errors < MaxErrors /\ errors' = errors + 1)
          /\ \/ background' = [background EXCEPT !.at = "merging", !.log = 0]
             \/ background' \in AtRest
      BY <2>5, ScheduledType DEF BuildFails, Fail, EndFlush
    <3>2. /\ background' \in Thread /\ background'.at \in {"idle", "scheduled", "merging"}
          /\ background'.inputs <= level0
      BY <3>1, <2>1, EndsWork DEF Core, BackgroundInv, Thread
    <3>3. Types BY <2>1, <3>1, <3>2 DEF Thread
    <3>4. BackgroundInv' BY <2>11, <3>1, <3>2 DEF BackgroundInv
    <3> QED BY <3>3, <3>4
  <2>6. CASE FlushApplied
    <3>1. /\ UNCHANGED <<bgError, torn, errors>> /\ background.at = "applying"
          /\ manifest' = [log |-> background.log, tables |-> manifest.tables \cup imm]
          /\ tables' = tables \cup imm /\ imm' = {} /\ hasImm' = FALSE
          /\ level0' \in {level0, level0 + 1}
          /\ \/ background' = [background EXCEPT !.at = "merging", !.log = 0]
             \/ background' \in AtRest
      BY <2>6, ScheduledType DEF FlushApplied, EndFlush
    <3>2. level0' \in Nat /\ level0 <= level0' BY <3>1, <2>1
    <3>3. background' \in Thread /\ background'.at \in {"idle", "scheduled", "merging"}
          /\ background'.inputs <= level0'
      BY <3>1, <3>2, <2>1, EndsWork DEF Core, BackgroundInv, Thread
    <3>4. background.log = Log BY <3>1 DEF Core, BackgroundInv
    <3> QED BY <2>1, <2>11, <3>1, <3>2, <3>3, <3>4 DEF BackgroundInv, Thread
  <2>7. CASE ApplyFails
    <3>1. /\ UNCHANGED <<imm, hasImm, tables, level0>> /\ background.at = "applying"
          /\ bgError' = TRUE /\ errors < MaxErrors /\ errors' = errors + 1
          /\ torn' = torn \/ torn' = TRUE
          /\ \/ manifest' = [log |-> background.log, tables |-> manifest.tables \cup imm]
             \/ manifest' = manifest
          /\ \/ background' = [background EXCEPT !.at = "merging", !.log = 0]
             \/ background' \in AtRest
      BY <2>7, ScheduledType DEF ApplyFails, Fail, EndFlush
    <3>2. background' \in Thread /\ background'.at \in {"idle", "scheduled", "merging"}
          /\ background'.inputs <= level0'
      BY <3>1, <2>1, EndsWork DEF Core, BackgroundInv, Thread
    <3>3. background.log = Log BY <3>1 DEF Core, BackgroundInv
    <3>4. manifest'.log \in DOMAIN logs /\ manifest'.tables \subseteq Entry
      BY <3>1, <3>3, <2>1, <2>11
    <3>5. errors' \in 0 .. MaxErrors BY <3>1, <2>1
    <3> QED BY <2>1, <2>11, <3>1, <3>2, <3>4, <3>5 DEF BackgroundInv, Thread
  <2>8. CASE Merged
    BY <2>1, <2>11, <2>8 DEF Merged, Core, BackgroundInv
  <2>9. CASE Installed
    BY <2>1, <2>11, <2>9 DEF Installed, Scheduled, Core, BackgroundInv
  <2>10. CASE MergeFails
    <3>1. /\ UNCHANGED <<imm, hasImm, tables, level0, manifest>> /\ bgError' = TRUE
          /\ errors' = errors \/ (errors < MaxErrors /\ errors' = errors + 1)
          /\ torn' \in {torn, TRUE}
          /\ background' \in AtRest
      BY <2>10, ScheduledType DEF MergeFails, Fail
    <3>2. /\ background' \in Thread /\ background'.at \in {"idle", "scheduled", "merging"}
          /\ background'.inputs <= level0
      <4>1. background' \in Thread BY <3>1 DEF Thread, AtRest
      <4>2. background'.at \in {"idle", "scheduled"} /\ background'.inputs = 0
        BY <3>1 DEF AtRest
      <4> QED BY <4>1, <4>2, <2>1
    <3>3. torn' \in BOOLEAN BY <2>1, <3>1, Zenon
    <3>4. errors' \in 0 .. MaxErrors
      <4>1. errors' = errors \/ (errors < MaxErrors /\ errors' = errors + 1) BY <3>1
      <4> QED BY <2>1, <4>1
    <3>5. Types BY <2>1, <3>1, <3>2, <3>3, <3>4 DEF Thread
    <3>6. BackgroundInv' BY <2>11, <3>1, <3>2 DEF BackgroundInv
    <3> QED BY <3>5, <3>6
  <2> QED BY <2>2, <2>3, <2>4, <2>5, <2>6, <2>7, <2>8, <2>9, <2>10 DEF BackgroundStep
<1>7. TypeOK'
  BY <1>1, <1>2, <1>6
  DEF Core, TypeOK, historyVars, Pc, Waiting, Writing, Away
<1> QED BY <1>3, <1>5, <1>6, <1>7 DEF Core

-----------------------------------------------------------------------------
(* The invariant.                                                           *)

LEMMA CoreInit ==
    ASSUME Init
    PROVE  Core
<1>1. /\ pc = [c \in Client |-> "idle"]
      /\ call = [c \in Client |-> [batch |-> 0, sync |-> FALSE]]
      /\ result = [c \in Client |-> "ok"]
      /\ allowDelay = FALSE /\ holder = Free
      /\ writers = <<>> /\ group = NoGroup
      /\ lastSequence = 0 /\ level0 = 0
      /\ mem = {} /\ imm = {} /\ hasImm = FALSE /\ tables = {}
      /\ logs = <<<<>>>> /\ synced = <<0>>
      /\ manifest = [log |-> 1, tables |-> {}]
      /\ background = [at |-> "idle", inputs |-> 0, log |-> 0]
      /\ bgError = FALSE /\ shuttingDown = FALSE
      /\ calls = 0 /\ forced = 0 /\ errors = 0
      /\ torn = FALSE /\ acked = {} /\ failed = {} /\ mayReturn = Batch
  BY DEF Init
<1>2. TypeOK
  <2>1. MaxWrites \in Nat /\ MaxForced \in Nat /\ MaxErrors \in Nat
    BY WriteQueueAssumption
  <2>2. call \in [Client -> Writer] BY <1>1, <2>1 DEF Writer
  <2>3. group \in [record : Record, size : Nat, status : {"ok", "error"}, syncError : BOOLEAN]
    BY <1>1 DEF NoGroup, Torn, Record
  <2>4. logs \in Seq(Seq(Record)) /\ synced \in Seq(Nat) /\ Len(synced) = Len(logs)
        /\ 1 \in DOMAIN logs
    BY <1>1
  <2>5. mayReturn \subseteq 0 .. MaxWrites BY <1>1, <2>1 DEF Batch
  <2>6. background \in Thread BY <1>1 DEF Thread
  <2>7. /\ imm # {} => hasImm
        /\ mem \subseteq Entry /\ imm \subseteq Entry /\ tables \subseteq Entry
        /\ manifest.log \in DOMAIN logs /\ manifest.tables \subseteq Entry
        /\ acked \subseteq Writer /\ failed \subseteq Writer
    BY <1>1, <2>4
  <2>8. pc \in [Client -> Pc] /\ result \in [Client -> Statuses] /\ writers \in Seq(Client)
    BY <1>1 DEF Pc, Away, Statuses
  <2>9. /\ allowDelay \in BOOLEAN /\ hasImm \in BOOLEAN /\ bgError \in BOOLEAN
        /\ shuttingDown \in BOOLEAN /\ torn \in BOOLEAN
    BY <1>1
  <2>10. /\ lastSequence \in Nat /\ level0 \in Nat /\ calls \in 0 .. MaxWrites
         /\ forced \in 0 .. MaxForced /\ errors \in 0 .. MaxErrors
         /\ holder \in Client \cup {Free}
    BY <1>1, <2>1
  <2> QED
    BY <2>2, <2>3, <2>4, <2>5, <2>6, <2>7, <2>8, <2>9, <2>10
    DEF TypeOK, Thread, Pc, Waiting, Writing, Away, Statuses
<1>3. QueueInv
  BY <1>1, WriteQueueAssumption DEF QueueInv, Waiting, Writing, Free
<1>4. GroupInv BY <1>1 DEF GroupInv, Writing
<1>5. BackgroundInv BY <1>1 DEF BackgroundInv
<1>6. CallInv BY <1>1 DEF CallInv
<1>7. EntryInv BY <1>1 DEF EntryInv, Stored
<1> QED BY <1>2, <1>3, <1>4, <1>5, <1>6, <1>7 DEF Core

LEMMA CoreUnchanged ==
    ASSUME Core, UNCHANGED <<clientVars, memoryVars, diskVars, historyVars, background, errors>>,
           shuttingDown' \in BOOLEAN
    PROVE  Core'
<1>1. TypeOK'
  BY DEF Core, TypeOK, clientVars, memoryVars, diskVars, historyVars
<1>2. QueueInv' /\ GroupInv' /\ CallInv' /\ BackgroundInv'
  BY DEF Core, QueueInv, GroupInv, NoGroup, Torn, CallInv, BackgroundInv, Log, clientVars,
         memoryVars, diskVars
<1>3. EntryInv'
  <2>1. Stored' = Stored BY DEF Stored, memoryVars
  <2> QED BY <2>1, EntriesUntouched DEF clientVars, memoryVars
<1> QED BY <1>1, <1>2, <1>3 DEF Core

LEMMA CoreNext ==
    ASSUME Core, [Next]_vars
    PROVE  Core'
<1>1. ASSUME NEW c \in Client, NEW sync \in BOOLEAN, CallWrite(c, sync) PROVE Core'
  BY <1>1, CallKeepsCore
<1>2. ASSUME NEW c \in Client, CallCompactMemTable(c) PROVE Core'
  BY <1>2, CallKeepsCore
<1>3. ASSUME NEW c \in Client, ClientStep(c) PROVE Core'
  BY <1>3, AwayKeepsCore, RoomKeepsCore, GroupKeepsCore, WritingKeepsCore, FinishKeepsCore
  DEF ClientStep
<1>4. CASE BackgroundStep BY <1>4, BackgroundKeepsCore
<1>5. CASE Close \/ UNCHANGED vars
  BY <1>5, CoreUnchanged DEF Close, vars, Core, TypeOK
<1> QED BY <1>1, <1>2, <1>3, <1>4, <1>5 DEF Next

LEMMA CoreAlways == Spec => []Core
<1>1. Init => Core BY CoreInit
<1>2. Core /\ [Next]_vars => Core' BY CoreNext
<1> QED BY <1>1, <1>2, PTL DEF Spec

\* The variables keep their types, whatever the threads do and whatever fails:
\* the group's size stays within the queue, the inserting always finds its next
\* entry, the manifest names a log there is. (DBImpl::Write and BackgroundCall.)
THEOREM WriteQueueTypeOK == Spec => []TypeOK
<1>1. Core => TypeOK BY DEF Core
<1> QED BY <1>1, CoreAlways, PTL

-----------------------------------------------------------------------------
(* Through failures and crashes.                                            *)

\* A write that will return OK: its call is on the way back, or its group is
\* in the log and in the memtable.
Done(c) ==
    \/ pc[c] = "returning" /\ result[c] = "ok"
    \/ /\ \E d \in Client : pc[d] = "inserted"
       /\ group.status = "ok"
       /\ \E i \in 1 .. group.size : writers[i] = c

\* A step that moves threads only: the writer with a group stays where it is, a
\* call that is over failed or had no batch.
Quiet ==
    /\ UNCHANGED <<lastSequence, mem, imm, tables, logs, synced, manifest, acked, failed,
                   mayReturn, group>>
    /\ bgError => bgError'
    /\ \A c \in Client :
        /\ pc'[c] \in Writing \/ pc[c] \in Writing => pc'[c] = pc[c]
        /\ pc'[c] = "returning" =>
            \/ pc[c] = "returning" /\ result'[c] = result[c]
            \/ pc[c] = "room" /\ (result'[c] = "error" \/ call[c].batch = 0)
        /\ \/ call'[c] = call[c] /\ (pc'[c] \in Waiting => pc[c] \in Waiting)
           \/ pc[c] = "idle" /\ pc'[c] \in Waiting /\ call'[c].batch \in {0, calls + 1}
    /\ calls' = calls \/ (calls < MaxWrites /\ calls' = calls + 1)
    /\ \A i \in 1 .. group.size : writers'[i] = writers[i]

LEMMA QuietCalls ==
    ASSUME Core, NEW c \in Client,
           (\E sync \in BOOLEAN : CallWrite(c, sync)) \/ CallCompactMemTable(c)
    PROVE  Quiet
<1> DEFINE Called == calls' = calls \/ (calls < MaxWrites /\ calls' = calls + 1)
<1>1. Called /\ \E writer \in Writer : Enqueue(c, writer) /\ writer.batch \in {0, calls + 1}
  <2>1. ASSUME NEW sync \in BOOLEAN, CallWrite(c, sync)
        PROVE  Called /\ \E writer \in Writer : Enqueue(c, writer) /\ writer.batch \in {0, calls + 1}
    <3> DEFINE w == [batch |-> calls + 1, sync |-> sync]
    <3>1. w \in Writer /\ Enqueue(c, w) /\ w.batch \in {0, calls + 1} /\ Called
      BY <2>1, WriteQueueAssumption DEF CallWrite, Writer, Core, TypeOK
    <3> QED BY <3>1
  <2>2. ASSUME CallCompactMemTable(c)
        PROVE  Called /\ \E writer \in Writer : Enqueue(c, writer) /\ writer.batch \in {0, calls + 1}
    <3> DEFINE w == [batch |-> 0, sync |-> FALSE]
    <3>1. w \in Writer /\ Enqueue(c, w) /\ w.batch = 0 /\ Called
      BY <2>2, WriteQueueAssumption DEF CallCompactMemTable, Writer
    <3> QED BY <3>1
  <2> QED BY <2>1, <2>2
<1>2. PICK writer \in Writer : Enqueue(c, writer) /\ writer.batch \in {0, calls + 1} BY <1>1
<1>3. /\ UNCHANGED <<result, group, memoryVars, diskVars, historyVars>>
      /\ pc[c] = "idle" /\ call' = [call EXCEPT ![c] = writer] /\ writers' = Append(writers, c)
      /\ pc' = [pc EXCEPT ![c] = "room"] \/ pc' = [pc EXCEPT ![c] = "queued"]
  BY <1>2 DEF Enqueue, Lead
<1>4. pc \in [Client -> Pc] /\ call \in [Client -> Writer] /\ writers \in Seq(Client)
  BY PcType DEF Core, TypeOK
<1>5. /\ \A d \in Client : d # c => pc'[d] = pc[d] /\ call'[d] = call[d]
      /\ pc'[c] \in {"room", "queued"} /\ call'[c] = writer
  BY <1>3, <1>4
<1>6. \A i \in 1 .. group.size : writers'[i] = writers[i]
  <2>1. CASE \E d \in Client : pc[d] \in Writing
    <3>1. group.size \in 1 .. Len(writers) BY <2>1 DEF Core, GroupInv
    <3> QED BY <3>1, <1>3, <1>4
  <2>2. CASE \A d \in Client : pc[d] \notin Writing
    <3>1. group.size = 0 BY <2>2 DEF Core, GroupInv, NoGroup
    <3> QED BY <3>1
  <2> QED BY <2>1, <2>2
<1> QED
  BY <1>1, <1>3, <1>5, <1>6, <1>2
  DEF Quiet, memoryVars, diskVars, historyVars, Waiting, Writing

LEMMA QuietGiveUp ==
    ASSUME Core, NEW c \in Client, pc[c] = "room", NEW status \in Statuses,
           status = "error" \/ call[c].batch = 0, GiveUp(c, status),
           UNCHANGED <<memoryVars, diskVars, historyVars>>
    PROVE  Quiet
<1>1. /\ UNCHANGED <<call, group, calls>> /\ group = NoGroup
      /\ \A d \in Client :
            \/ d = c /\ pc'[d] = "returning" /\ result'[d] = status
            \/ /\ pc'[d] = pc[d] \/ (pc[d] = "queued" /\ pc'[d] = "signalled")
               /\ result'[d] = result[d]
  BY GiveUpKeeps DEF Waiting, memoryVars
<1> QED
  BY <1>1 DEF Quiet, NoGroup, memoryVars, diskVars, historyVars, Waiting, Writing

LEMMA QuietThreads ==
    ASSUME Core, NEW c \in Client,
           \/ WakeUp(c) \/ CheckFlushed(c) \/ Delay(c) \/ WaitForRoom(c) \/ LookAgain(c)
           \/ YieldError(c) \/ NewLogFails(c)
           \/ FindRoom(c) /\ call[c].batch = 0
    PROVE  Quiet
<1>1. CASE WakeUp(c) \/ CheckFlushed(c) \/ Delay(c) \/ WaitForRoom(c) \/ LookAgain(c)
  <2>1. /\ UNCHANGED <<call, result, writers, group, calls, memoryVars, diskVars, historyVars>>
        /\ pc[c] \notin Writing
        /\ \E q \in Waiting \cup {"flushing", "idle"} :
              pc' = [pc EXCEPT ![c] = q] /\ (q \in Waiting => pc[c] \in Waiting)
    <3>1. CASE WakeUp(c)
      <4>1. pc' = [pc EXCEPT ![c] = "room"] /\ pc[c] = "signalled" BY <3>1 DEF WakeUp, Lead
      <4> QED BY <4>1, <3>1 DEF WakeUp, Waiting, Writing
    <3>2. CASE CheckFlushed(c)
      <4>1. /\ pc[c] = "flushCheck"
            /\ pc' = [pc EXCEPT ![c] = "flushing"] \/ pc' = [pc EXCEPT ![c] = "idle"]
        BY <3>2 DEF CheckFlushed
      <4> QED BY <4>1, <3>2 DEF CheckFlushed, Waiting, Writing
    <3>3. CASE Delay(c)
      <4>1. pc' = [pc EXCEPT ![c] = "delayed"] /\ pc[c] = "room" BY <3>3 DEF Delay, InRoom
      <4> QED BY <4>1, <3>3 DEF Delay, Waiting, Writing
    <3>4. CASE WaitForRoom(c)
      <4>1. pc' = [pc EXCEPT ![c] = "full"] /\ pc[c] = "room" BY <3>4 DEF WaitForRoom, InRoom
      <4> QED BY <4>1, <3>4 DEF WaitForRoom, Waiting, Writing
    <3>5. CASE LookAgain(c)
      <4>1. pc' = [pc EXCEPT ![c] = "room"] /\ pc[c] \in {"delayed", "woken"}
        BY <3>5 DEF LookAgain
      <4> QED BY <4>1, <3>5 DEF LookAgain, Waiting, Writing
    <3> QED BY <1>1, <3>1, <3>2, <3>3, <3>4, <3>5
  <2>2. \A d \in Client :
            \/ pc'[d] = pc[d]
            \/ /\ d = c /\ pc'[d] \in Waiting \cup {"flushing", "idle"}
               /\ pc'[d] \in Waiting => pc[d] \in Waiting
    BY <2>1, PcType DEF Core
  <2> QED
    BY <2>1, <2>2 DEF Quiet, memoryVars, diskVars, historyVars, Waiting, Writing
<1>2. CASE YieldError(c) \/ NewLogFails(c)
  <2>1. /\ pc[c] = "room" /\ GiveUp(c, "error") /\ UNCHANGED <<memoryVars, diskVars, historyVars>>
    BY <1>2 DEF YieldError, NewLogFails, InRoom
  <2> QED BY <2>1, QuietGiveUp DEF Statuses
<1>3. CASE FindRoom(c) /\ call[c].batch = 0
  <2>1. /\ pc[c] = "room" /\ GiveUp(c, "ok") /\ UNCHANGED <<memoryVars, diskVars, historyVars>>
    BY <1>3 DEF FindRoom, Proceed, InRoom
  <2> QED BY <2>1, <1>3, QuietGiveUp DEF Statuses
<1> QED BY <1>1, <1>2, <1>3

LEMMA QuietBackground ==
    ASSUME Core, BackgroundStep, ~FlushApplied, UNCHANGED manifest
    PROVE  Quiet
<1>1. /\ UNCHANGED <<call, result, writers, group, calls, lastSequence, mem, imm, tables, logs,
                     synced, historyVars>>
      /\ UNCHANGED pc \/ pc' = SignalAll(pc)
      /\ bgError => bgError'
  <2>1. UNCHANGED backgroundLeaves
    BY DEF BackgroundStep, StartWork, FlushFirst, TableBuilt, BuildFails,
           ApplyFails, Merged, Installed, MergeFails
  <2>2. UNCHANGED <<imm, tables>> /\ (UNCHANGED pc \/ pc' = SignalAll(pc))
    BY DEF BackgroundStep, StartWork, FlushFirst, TableBuilt, BuildFails,
           ApplyFails, Merged, Installed, MergeFails, EndFlush
  <2>3. bgError => bgError'
    BY DEF BackgroundStep, StartWork, FlushFirst, TableBuilt, BuildFails,
           ApplyFails, Merged, Installed, MergeFails
  <2> QED BY <2>1, <2>2, <2>3 DEF backgroundLeaves
<1>2. Alike(pc, pc') BY <1>1, PcType, Signalled DEF Core, Alike
<1> QED BY <1>1, <1>2 DEF Quiet, Alike, historyVars, Waiting, Writing

\* The steps that are not quiet.
LEMMA Steps ==
    ASSUME Core, [Next]_vars
    PROVE  \/ Quiet
           \/ FlushApplied \/ (ApplyFails /\ manifest' # manifest)
           \/ \E c \in Client :
                \/ Return(c) \/ (FindRoom(c) /\ call[c].batch # 0) \/ SwitchMemTable(c)
                \/ AddRecord(c) \/ AddRecordFails(c) \/ Sync(c) \/ SyncFails(c)
                \/ Insert(c) \/ Finish(c)
<1>1. ASSUME NEW c \in Client, NEW sync \in BOOLEAN, CallWrite(c, sync) PROVE Quiet
  BY <1>1, QuietCalls
<1>2. ASSUME NEW c \in Client, CallCompactMemTable(c) PROVE Quiet
  BY <1>2, QuietCalls
<1>3. ASSUME NEW c \in Client, ClientStep(c)
      PROVE  \/ Quiet
             \/ Return(c) \/ (FindRoom(c) /\ call[c].batch # 0) \/ SwitchMemTable(c)
             \/ AddRecord(c) \/ AddRecordFails(c) \/ Sync(c) \/ SyncFails(c)
             \/ Insert(c) \/ Finish(c)
  BY <1>3, QuietThreads DEF ClientStep
<1>4. CASE BackgroundStep
  <2>1. CASE ~FlushApplied /\ UNCHANGED manifest BY <1>4, <2>1, QuietBackground
  <2>2. CASE ~FlushApplied /\ manifest' # manifest
    BY <1>4, <2>2 DEF BackgroundStep, StartWork, FlushFirst, TableBuilt, BuildFails,
                      Merged, Installed, MergeFails
  <2> QED BY <2>1, <2>2
<1>5. CASE Close \/ UNCHANGED vars
  <2>1. UNCHANGED <<clientVars, memoryVars, diskVars, historyVars>> BY <1>5 DEF Close, vars
  <2> QED BY <2>1 DEF Quiet, clientVars, memoryVars, diskVars, historyVars
<1> QED BY <1>1, <1>2, <1>3, <1>4, <1>5 DEF Next

\* Who is with the first writer in its group.
InGroup(c) == \E i \in 1 .. group.size : writers[i] = c

\* A group is taken to the log: what the two steps that do so have in common.
LEMMA Begins ==
    ASSUME Core, NEW c \in Client,
           (FindRoom(c) /\ call[c].batch # 0) \/ (SwitchMemTable(c) /\ call[c].batch # 0)
    PROVE  /\ pc' = [pc EXCEPT ![c] = "logging"] /\ pc[c] = "room"
           /\ UNCHANGED <<call, result, writers, lastSequence, bgError, manifest, tables,
                          acked, failed, mayReturn>>
           /\ group = NoGroup /\ ~bgError
           /\ group'.status = "ok" /\ ~group'.syncError
           /\ group'.record.first = lastSequence + 1
<1>1. /\ pc[c] = "room" /\ Proceed(c) /\ ~bgError /\ call[c].batch # 0
      /\ UNCHANGED <<lastSequence, bgError, manifest, tables, acked, failed, mayReturn>>
  BY DEF FindRoom, SwitchMemTable, InRoom, memoryVars, diskVars, historyVars
<1> QED BY <1>1, GroupBegins

\* The steps of the writer with its group, and who is done after them.
LEMMA Writes ==
    ASSUME Core, NEW c \in Client,
           AddRecord(c) \/ AddRecordFails(c) \/ Sync(c) \/ SyncFails(c) \/ Insert(c)
    PROVE  /\ pc[c] \in Writing /\ pc'[c] \in Writing
           /\ \A d \in Client : d # c => pc'[d] = pc[d] /\ pc[d] \notin Writing
           /\ UNCHANGED <<call, result, writers, lastSequence, imm, tables, bgError, manifest,
                          acked, failed>>
           /\ group'.record = group.record /\ group'.size = group.size
           /\ AddRecord(c) => pc[c] = "logging" /\ group'.status = "ok" /\ ~group'.syncError
                              /\ pc'[c] = IF call[c].sync THEN "syncing" ELSE "inserting"
           /\ AddRecordFails(c) => pc[c] = "logging" /\ pc'[c] = "inserted"
                                   /\ group'.status = "error" /\ ~group'.syncError
           /\ Sync(c) => pc[c] = "syncing" /\ pc'[c] = "inserting" /\ group'.status = "ok"
                         /\ ~group'.syncError
           /\ SyncFails(c) => pc[c] = "syncing" /\ pc'[c] = "inserted"
                              /\ group'.status = "error" /\ group'.syncError
           /\ Insert(c) => pc[c] = "inserting" /\ pc'[c] \in {"inserting", "inserted"}
                           /\ group'.status = "ok" /\ ~group'.syncError
<1>1. /\ pc \in [Client -> Pc]
      /\ group \in [record : Record, size : Nat, status : Statuses, syncError : BOOLEAN]
  BY PcType DEF Core, TypeOK, Statuses
<1>2. pc[c] \in Writing
  BY DEF AddRecord, AddRecordFails, Sync, SyncFails, Insert, Writing
<1>3. \A d \in Client : d # c => pc[d] \notin Writing
  BY <1>2, FirstWriter DEF Writing, Away
<1>4. UNCHANGED <<lastSequence, imm, tables, bgError, manifest, acked, failed>>
  BY DEF AddRecord, AddRecordFails, Sync, SyncFails, Insert, memoryVars, diskVars, historyVars
<1> DEFINE Common == /\ pc'[c] \in Writing /\ \A d \in Client : d # c => pc'[d] = pc[d]
                     /\ UNCHANGED <<call, result, writers>>
                     /\ group'.record = group.record /\ group'.size = group.size
<1>5. ASSUME AddRecord(c)
      PROVE  Common /\ pc[c] = "logging" /\ group'.status = "ok" /\ ~group'.syncError
             /\ pc'[c] = IF call[c].sync THEN "syncing" ELSE "inserting"
  BY <1>1, <1>3, <1>5 DEF AddRecord, Step, Writing
<1>6. ASSUME AddRecordFails(c)
      PROVE  Common /\ pc[c] = "logging" /\ pc'[c] = "inserted"
             /\ group'.status = "error" /\ ~group'.syncError
  BY <1>1, <1>3, <1>6 DEF AddRecordFails, Step, Writing
<1>7. ASSUME Sync(c)
      PROVE  Common /\ pc[c] = "syncing" /\ pc'[c] = "inserting"
             /\ group'.status = "ok" /\ ~group'.syncError
  BY <1>1, <1>3, <1>7 DEF Sync, Step, Writing
<1>8. ASSUME SyncFails(c)
      PROVE  Common /\ pc[c] = "syncing" /\ pc'[c] = "inserted"
             /\ group'.status = "error" /\ group'.syncError
  BY <1>1, <1>3, <1>8 DEF SyncFails, Step, Writing
<1>9. ASSUME Insert(c)
      PROVE  Common /\ pc[c] = "inserting" /\ pc'[c] \in {"inserting", "inserted"}
             /\ group'.status = "ok" /\ ~group'.syncError
  <2>1. PICK q \in {"inserting", "inserted"} : Step(c, q, "ok", FALSE) BY <1>9 DEF Insert
  <2>2. pc[c] = "inserting" BY <1>9 DEF Insert
  <2>3. /\ pc' = [pc EXCEPT ![c] = q] /\ UNCHANGED <<call, result, writers>>
        /\ group' = [group EXCEPT !.status = "ok", !.syncError = FALSE]
    BY <2>1 DEF Step
  <2> QED BY <1>1, <1>3, <2>2, <2>3 DEF Writing
<1> HIDE DEF Common
<1>10. Common BY <1>5, <1>6, <1>7, <1>8, <1>9
<1> QED BY <1>2, <1>3, <1>4, <1>5, <1>6, <1>7, <1>8, <1>9, <1>10 DEF Common

\* Nobody returns from these steps but the group of Finish, with its status.
LEMMA Finishes ==
    ASSUME Core, NEW c \in Client, Finish(c)
    PROVE  /\ pc[c] = "inserted" /\ \A d \in Client : pc'[d] \notin Writing
           /\ group' = NoGroup /\ bgError' = (bgError \/ group.syncError)
           /\ lastSequence' = lastSequence + BatchSize * Cardinality(group.record.batches)
           /\ UNCHANGED <<call, calls, mem, imm, tables, logs, synced, manifest, acked,
                          failed, mayReturn>>
           /\ \A d \in Client :
                IF InGroup(d) THEN pc'[d] = "returning" /\ result'[d] = group.status
                ELSE /\ pc'[d] = "returning" => pc[d] = "returning"
                     /\ pc'[d] \in Waiting => pc[d] \in Waiting
                     /\ result'[d] = result[d]
<1> DEFINE p == IF group.syncError /\ ~bgError THEN SignalAll(pc) ELSE pc
<1>1. /\ pc[c] = "inserted" /\ group' = NoGroup
      /\ bgError' = (bgError \/ group.syncError) /\ holder' = Free
      /\ lastSequence' = lastSequence + BatchSize * Cardinality(group.record.batches)
      /\ Pop(p, group.size, group.status)
      /\ UNCHANGED <<call, calls, mem, imm, tables, logs, synced, manifest, acked, failed,
                     mayReturn>>
  BY DEF Finish, diskVars, historyVars
<1>2. p \in [Client -> Pc] /\ Alike(pc, p)
  BY PcType, Signalled DEF Core, Alike
<1> HIDE DEF p
<1>3. group.size \in 1 .. Len(writers) /\ group.status \in Statuses
  BY <1>1 DEF Core, TypeOK, GroupInv, Writing, Statuses
<1>4. Popped(p, group.size, group.status) /\ \A d \in Client : pc'[d] \notin Writing
  BY <1>1, <1>2, <1>3, PopQueue DEF Writing
<1> QED BY <1>1, <1>2, <1>4 DEF Popped, InGroup, Alike, Waiting

\* A write is done from the insertion of its last entry on.
LEMMA DoneComesFrom ==
    ASSUME Core, [Next]_vars, NEW c \in Client, Done(c)', call'[c].batch # 0
    PROVE  /\ call'[c] = call[c]
           /\ \/ Done(c)
              \/ \E d \in Client : Insert(d) /\ pc'[d] = "inserted" /\ InGroup(c)
<1>1. CASE Quiet
  <2>1. CASE pc'[c] = "returning" /\ result'[c] = "ok"
    <3>1. call'[c] = call[c] BY <1>1, <2>1 DEF Quiet, Waiting
    <3>2. pc[c] = "returning" /\ result'[c] = result[c] BY <1>1, <2>1, <3>1 DEF Quiet
    <3> QED BY <2>1, <3>1, <3>2 DEF Done
  <2>2. CASE ~(pc'[c] = "returning" /\ result'[c] = "ok")
    <3>1. PICK d \in Client : pc'[d] = "inserted" BY <2>2 DEF Done
    <3>2. pc[d] = "inserted" BY <1>1, <3>1 DEF Quiet, Writing
    <3>3. group.size \in 1 .. Len(writers) BY <3>2 DEF Core, GroupInv, Writing
    <3>4. group' = group /\ InGroup(c) BY <1>1, <2>2 DEF Done, InGroup, Quiet
    <3>5. pc[c] \in Waiting \cup Writing
      BY <3>3, <3>4 DEF InGroup, Core, QueueInv, TypeOK
    <3>6. call'[c] = call[c] BY <1>1, <3>5 DEF Quiet, Waiting, Writing
    <3> QED BY <2>2, <3>2, <3>4, <3>6 DEF Done, InGroup
  <2> QED BY <2>1, <2>2
<1>2. CASE FlushApplied \/ (ApplyFails /\ manifest' # manifest)
  <2>1. /\ UNCHANGED <<call, result, group, writers>> /\ pc' = SignalAll(pc)
    BY <1>2 DEF FlushApplied, ApplyFails, EndFlush, backgroundLeaves
  <2>2. Alike(pc, pc') BY <2>1, PcType, Signalled DEF Core
  <2> QED BY <2>1, <2>2 DEF Done, Alike
<1>3. ASSUME NEW d \in Client, Return(d) PROVE Done(c) /\ call'[c] = call[c]
  <2>1. UNCHANGED <<call, result, group, writers>> /\ pc[d] = "returning"
        /\ \E q \in {"flushCheck", "idle"} : pc' = [pc EXCEPT ![d] = q]
    BY <1>3 DEF Return
  <2>2. \A e \in Client : pc'[e] = pc[e] \/ pc'[e] \in {"flushCheck", "idle"}
    BY <2>1, PcType DEF Core
  <2> QED BY <2>1, <2>2 DEF Done
<1>4. ASSUME NEW d \in Client,
             (FindRoom(d) /\ call[d].batch # 0) \/ (SwitchMemTable(d) /\ call[d].batch # 0)
      PROVE  Done(c) /\ call'[c] = call[c]
  <2>1. /\ pc' = [pc EXCEPT ![d] = "logging"] /\ pc[d] = "room"
        /\ UNCHANGED <<call, result, writers>>
    BY <1>4, Begins
  <2>2. \A e \in Client : pc'[e] = pc[e] \/ pc'[e] = "logging" BY <2>1, PcType DEF Core
  <2>3. \A e \in Client : pc[e] # "inserted"
    BY <2>1, FirstWriter DEF Waiting, Away
  <2> QED BY <2>1, <2>2, <2>3 DEF Done
<1>5. ASSUME NEW d \in Client, SwitchMemTable(d), call[d].batch = 0
      PROVE  Done(c) /\ call'[c] = call[c]
  <2>1. pc[d] = "room" /\ GiveUp(d, "ok") /\ UNCHANGED lastSequence
    BY <1>5 DEF SwitchMemTable, Proceed, InRoom
  <2>2. /\ UNCHANGED <<call, group>> /\ group = NoGroup
        /\ \A e \in Client :
            \/ e = d /\ pc'[e] = "returning" /\ result'[e] = "ok"
            \/ /\ pc'[e] = pc[e] \/ (pc[e] = "queued" /\ pc'[e] = "signalled")
               /\ result'[e] = result[e]
    BY <2>1, GiveUpKeeps DEF Waiting, Statuses
  <2> QED BY <2>2, <1>5 DEF Done, NoGroup
<1>6. ASSUME NEW d \in Client,
             AddRecord(d) \/ AddRecordFails(d) \/ Sync(d) \/ SyncFails(d) \/ Insert(d)
      PROVE  /\ call'[c] = call[c]
             /\ Done(c) \/ (Insert(d) /\ pc'[d] = "inserted" /\ InGroup(c))
  <2>1. /\ pc'[d] \in Writing /\ \A e \in Client : e # d => pc'[e] = pc[e] /\ pc[e] \notin Writing
        /\ UNCHANGED <<call, result, writers>> /\ group'.size = group.size
    BY <1>6, Writes
  <2>2. CASE pc'[c] = "returning" /\ result'[c] = "ok"
    BY <2>1, <2>2 DEF Done, Writing
  <2>3. CASE ~(pc'[c] = "returning" /\ result'[c] = "ok")
    <3>1. PICK e \in Client : pc'[e] = "inserted" BY <2>3 DEF Done
    <3>2. group'.status = "ok" /\ InGroup(c) BY <2>1, <2>3 DEF Done, InGroup
    <3>3. pc'[d] = "inserted" BY <2>1, <3>1 DEF Writing
    <3>4. Insert(d) BY <1>6, <3>2, <3>3, Writes
    <3> QED BY <2>1, <3>2, <3>3, <3>4
  <2> QED BY <2>2, <2>3
<1>7. ASSUME NEW d \in Client, Finish(d)
      PROVE  Done(c) /\ call'[c] = call[c]
  <2>1. /\ pc[d] = "inserted" /\ call' = call /\ pc'[c] = "returning" /\ result'[c] = "ok"
    BY <1>7, Finishes DEF Done, Writing
  <2> QED BY <1>7, <2>1, Finishes DEF Done, InGroup
<1> QED BY <1>1, <1>2, <1>3, <1>4, <1>5, <1>6, <1>7, Steps

-----------------------------------------------------------------------------
(* A failed Sync of the log.                                                *)

\* What a failed Sync leaves: until its group is done syncError says so, from
\* then on bgError does and no group is formed.
SyncErrorInv ==
    /\ \A c \in Client : Done(c) /\ call[c].batch # 0 => call[c].batch \in mayReturn
    /\ \A w \in acked : w.batch \in mayReturn
    /\ \/ Batch \subseteq mayReturn
       \/ group.syncError
       \/ bgError /\ group = NoGroup

LEMMA SyncErrorNext ==
    ASSUME Core, SyncErrorInv, [Next]_vars
    PROVE  SyncErrorInv'
<1>1. ASSUME mayReturn' = mayReturn
      PROVE  \A c \in Client : Done(c)' /\ call'[c].batch # 0 => call'[c].batch \in mayReturn'
  <2> SUFFICES ASSUME NEW c \in Client, Done(c)', call'[c].batch # 0
               PROVE  call'[c].batch \in mayReturn
    BY <1>1
  <2>1. call'[c] = call[c] BY DoneComesFrom
  <2>2. CASE Done(c) BY <2>1, <2>2 DEF SyncErrorInv
  <2>3. ASSUME NEW d \in Client, Insert(d), InGroup(c) PROVE call[c].batch \in mayReturn
    <3>1. pc[d] = "inserting" BY <2>3 DEF Insert
    <3>2. group.size # 0 /\ group.status = "ok" /\ (group.syncError => group.status = "error")
      BY <3>1 DEF Core, GroupInv, Writing
    <3>3. Batch \subseteq mayReturn BY <3>2 DEF SyncErrorInv, NoGroup
    <3>4. call[c].batch \in 0 .. MaxWrites /\ MaxWrites \in Nat
      BY WriteQueueAssumption DEF Core, TypeOK, Writer
    <3> QED BY <2>1, <3>3, <3>4 DEF Batch
  <2> QED BY <2>1, <2>2, <2>3, DoneComesFrom
<1>2. CASE Quiet
  BY <1>1, <1>2 DEF Quiet, SyncErrorInv
<1>3. CASE FlushApplied \/ ApplyFails
  <2>1. UNCHANGED <<group, historyVars>>
    BY <1>3 DEF FlushApplied, ApplyFails, backgroundLeaves
  <2>2. bgError => bgError' BY <1>3 DEF FlushApplied, ApplyFails
  <2> QED BY <1>1, <2>1, <2>2 DEF SyncErrorInv, historyVars
<1>4. ASSUME NEW c \in Client, Return(c) PROVE SyncErrorInv'
  <2>1. /\ UNCHANGED <<group, mayReturn, bgError>> /\ pc[c] = "returning"
        /\ acked' = acked \cup
                (IF call[c].batch # 0 /\ result[c] = "ok" THEN {call[c]} ELSE {})
    BY <1>4 DEF Return, memoryVars
  <2>2. \A w \in acked' : w.batch \in mayReturn BY <2>1 DEF SyncErrorInv, Done
  <2> QED BY <1>1, <2>1, <2>2 DEF SyncErrorInv
<1>5. ASSUME NEW c \in Client,
             (FindRoom(c) /\ call[c].batch # 0) \/ (SwitchMemTable(c) /\ call[c].batch # 0)
      PROVE  SyncErrorInv'
  <2>1. /\ UNCHANGED <<mayReturn, acked>> /\ group = NoGroup /\ ~bgError BY <1>5, Begins
  <2>2. Batch \subseteq mayReturn BY <2>1 DEF SyncErrorInv, NoGroup
  <2> QED BY <1>1, <2>1, <2>2 DEF SyncErrorInv
<1>6. ASSUME NEW c \in Client, SwitchMemTable(c), call[c].batch = 0 PROVE SyncErrorInv'
  <2>1. UNCHANGED <<historyVars, group, bgError>>
    BY <1>6 DEF SwitchMemTable, Proceed, GiveUp
  <2> QED BY <1>1, <2>1 DEF SyncErrorInv, historyVars
<1>7. ASSUME NEW c \in Client, AddRecord(c) \/ AddRecordFails(c) \/ Sync(c) \/ Insert(c)
      PROVE  SyncErrorInv'
  <2>1. UNCHANGED <<mayReturn, acked>>
    BY <1>7 DEF AddRecord, AddRecordFails, Sync, Insert, historyVars
  <2>2. pc[c] \in Writing /\ pc[c] # "inserted"
    BY <1>7 DEF AddRecord, AddRecordFails, Sync, Insert, Writing
  <2>3. group.size # 0 /\ group.status = "ok" /\ (group.syncError => group.status = "error")
    BY <2>2 DEF Core, GroupInv
  <2>4. Batch \subseteq mayReturn BY <2>3 DEF SyncErrorInv, NoGroup
  <2> QED BY <1>1, <2>1, <2>4 DEF SyncErrorInv
<1>8. ASSUME NEW c \in Client, SyncFails(c) PROVE SyncErrorInv'
  <2>1. /\ pc'[c] = "inserted" /\ group'.status = "error" /\ group'.syncError
        /\ \A d \in Client : d # c => pc'[d] = pc[d]
        /\ UNCHANGED <<call, result, acked>>
    BY <1>8, Writes
  <2>2. mayReturn' = {w.batch : w \in acked}
            \cup {call[d].batch : d \in {d \in Client : pc[d] = "returning" /\ result[d] = "ok"}}
    BY <1>8 DEF SyncFails
  <2>3. \A d \in Client : Done(d)' => pc[d] = "returning" /\ result[d] = "ok"
    BY <2>1 DEF Done
  <2> QED BY <2>1, <2>2, <2>3 DEF SyncErrorInv
<1>9. ASSUME NEW c \in Client, Finish(c) PROVE SyncErrorInv'
  <2>1. /\ UNCHANGED <<mayReturn, acked>> /\ group' = NoGroup
        /\ bgError' = (bgError \/ group.syncError)
    BY <1>9, Finishes
  <2> QED BY <1>1, <2>1 DEF SyncErrorInv
<1> QED BY <1>2, <1>3, <1>4, <1>5, <1>6, <1>7, <1>8, <1>9, Steps

\* Once a Sync of the log failed no later write succeeds, whoever the writers
\* are and whatever else fails: the error reaches bgError before the next group
\* is formed. (DBImpl::Write, RecordBackgroundError, MakeRoomForWrite.)
THEOREM WriteQueueNothingAfterSyncError == Spec => []NothingAfterSyncError
<1>1. Init => SyncErrorInv
  BY DEF Init, SyncErrorInv, Done
<1>2. Core /\ SyncErrorInv /\ [Next]_vars => SyncErrorInv' BY SyncErrorNext
<1>3. SyncErrorInv => NothingAfterSyncError
  BY DEF SyncErrorInv, NothingAfterSyncError, Acked
<1> QED BY <1>1, <1>2, <1>3, CoreAlways, PTL DEF Spec

-----------------------------------------------------------------------------
(* The sequence numbers of the records.                                     *)

\* The record of the group is in the log, last.
Logged == logs[Log] # <<>> /\ logs[Log][Len(logs[Log])] = group.record

InLog == {"syncing", "inserting", "inserted"}

\* Only the record of the group may go beyond the last sequence number, and it
\* is the last of the last log.
RecordsEnd ==
    \A n \in DOMAIN logs : \A i \in DOMAIN logs[n] :
        \/ End(logs[n][i]) <= lastSequence
        \/ /\ n = Log /\ i = Len(logs[Log]) /\ logs[n][i] = group.record
           /\ \E c \in Client : pc[c] \in InLog

RecordsFollow ==
    \A n, m \in DOMAIN logs : \A i \in DOMAIN logs[n], j \in DOMAIN logs[m] :
        logs[m][j] # Torn /\ (n < m \/ (n = m /\ i < j))
        => End(logs[n][i]) < logs[m][j].first

LogInv ==
    /\ RecordsEnd /\ RecordsFollow
    /\ \A c \in Client : pc[c] \in InLog /\ group.status = "ok" => Logged

LEMMA EndOfRecord ==
    ASSUME NEW r \in Record
    PROVE  /\ End(r) \in Int
           /\ \/ End(r) = 0
              \/ End(r) = r.first + BatchSize * Cardinality(r.batches) - 1
<1> DEFINE n == BatchSize * Cardinality(r.batches)
<1>1. n \in Nat /\ r.first \in Nat
  BY WriteQueueAssumption, BatchesFinite, Products DEF Record
<1>2. CASE r = Torn BY <1>2 DEF End
<1>3. CASE r # Torn
  <2>1. End(r) = r.first + n - 1 BY <1>3 DEF End
  <2> HIDE DEF n
  <2>2. End(r) \in Int BY <1>1, <2>1
  <2> QED BY <2>1, <2>2 DEF n
<1> QED BY <1>2, <1>3

\* The logs are left alone.
LEMMA LogsUntouched ==
    ASSUME LogInv, UNCHANGED <<logs, lastSequence>>,
           \/ /\ group'.record = group.record
              /\ group'.status = "ok" => group.status = "ok"
              /\ \A c \in Client : pc'[c] \in InLog <=> pc[c] \in InLog
           \/ \A c \in Client : pc[c] \notin InLog /\ pc'[c] \notin InLog
    PROVE  LogInv'
<1>1. Log' = Log BY DEF Log
<1>2. RecordsFollow' BY DEF LogInv, RecordsFollow, End
<1>3. CASE /\ group'.record = group.record
           /\ group'.status = "ok" => group.status = "ok"
           /\ \A c \in Client : pc'[c] \in InLog <=> pc[c] \in InLog
  BY <1>1, <1>2, <1>3 DEF LogInv, RecordsEnd, Logged, End
<1>4. CASE \A c \in Client : pc[c] \notin InLog /\ pc'[c] \notin InLog
  BY <1>1, <1>2, <1>4 DEF LogInv, RecordsEnd, End
<1> QED BY <1>3, <1>4

\* A record is appended to the last log, when all before it are at their end.
LEMMA RecordAppended ==
    ASSUME Core, LogInv, \A c \in Client : pc[c] \notin InLog, NEW r \in Record,
           logs' = [logs EXCEPT ![Log] = Append(@, r)],
           r = Torn \/ (r = group'.record /\ r.first = lastSequence + 1),
           UNCHANGED lastSequence, \E c \in Client : pc'[c] \in InLog,
           group'.status = "ok" => r = group'.record
    PROVE  LogInv'
<1>1. /\ logs \in Seq(Seq(Record)) /\ Log \in DOMAIN logs /\ DOMAIN logs = 1 .. Log
      /\ Log \in Nat /\ logs[Log] \in Seq(Record) /\ lastSequence \in Nat
  BY DEF Core, TypeOK, Log
<1> DEFINE len == Len(logs[Log])
<1>2. /\ DOMAIN logs' = DOMAIN logs /\ Log' = Log /\ len \in Nat
      /\ \A n \in DOMAIN logs : n # Log => logs'[n] = logs[n]
      /\ DOMAIN logs'[Log] = 1 .. len + 1 /\ DOMAIN logs[Log] = 1 .. len
      /\ Len(logs'[Log]) = len + 1 /\ logs'[Log][len + 1] = r /\ logs'[Log] # <<>>
      /\ \A i \in 1 .. len : logs'[Log][i] = logs[Log][i]
  BY <1>1 DEF Log
<1> HIDE DEF len
<1>3. \A n \in DOMAIN logs : \A i \in DOMAIN logs[n] :
        logs[n][i] \in Record /\ End(logs[n][i]) \in Int /\ End(logs[n][i]) <= lastSequence
  BY <1>1, EndOfRecord DEF LogInv, RecordsEnd
<1>4. \A n \in DOMAIN logs' : \A i \in DOMAIN logs'[n] :
        \/ i \in DOMAIN logs[n] /\ logs'[n][i] = logs[n][i]
        \/ n = Log /\ i = len + 1 /\ logs'[n][i] = r
  BY <1>1, <1>2
<1>5. RecordsEnd'
  <2> SUFFICES ASSUME NEW n \in DOMAIN logs', NEW i \in DOMAIN logs'[n]
               PROVE  \/ End(logs'[n][i]) <= lastSequence
                      \/ /\ n = Log /\ i = len + 1 /\ logs'[n][i] = group'.record
    BY <1>2 DEF RecordsEnd, End
  <2>1. CASE i \in DOMAIN logs[n] /\ logs'[n][i] = logs[n][i] BY <1>2, <1>3, <2>1
  <2>2. CASE n = Log /\ i = len + 1 /\ logs'[n][i] = r
    <3>1. CASE r = Torn BY <2>2, <3>1, <1>1 DEF End
    <3>2. CASE r = group'.record BY <2>2, <3>2
    <3> QED BY <3>1, <3>2
  <2> QED BY <1>4, <2>1, <2>2
<1>6. RecordsFollow'
  <2> SUFFICES ASSUME NEW n \in DOMAIN logs', NEW m \in DOMAIN logs',
                      NEW i \in DOMAIN logs'[n], NEW j \in DOMAIN logs'[m],
                      logs'[m][j] # Torn, n < m \/ (n = m /\ i < j)
               PROVE  End(logs'[n][i]) < logs'[m][j].first
    BY DEF RecordsFollow, End
  <2>1. i \in DOMAIN logs[n] /\ logs'[n][i] = logs[n][i]
    <3>1. CASE n = Log /\ i = len + 1
      <4>1. m = Log /\ len + 1 < j BY <3>1, <1>1, <1>2
      <4>2. j \in 1 .. len + 1 BY <4>1, <1>2
      <4> QED BY <4>1, <4>2, <1>2
    <3> QED BY <3>1, <1>4
  <2>2. CASE j \in DOMAIN logs[m] /\ logs'[m][j] = logs[m][j]
    BY <2>1, <2>2, <1>2 DEF LogInv, RecordsFollow
  <2>3. CASE logs'[m][j] = r
    <3>1. r.first = lastSequence + 1 BY <2>3
    <3>2. End(logs[n][i]) <= lastSequence /\ End(logs[n][i]) \in Int BY <2>1, <1>2, <1>3
    <3> QED BY <2>1, <2>3, <3>1, <3>2, <1>1
  <2> QED BY <1>4, <2>2, <2>3
<1>7. group'.status = "ok" => Logged' BY <1>2 DEF Logged
<1> QED BY <1>5, <1>6, <1>7 DEF LogInv

LEMMA LogNext ==
    ASSUME Core, LogInv, [Next]_vars
    PROVE  LogInv'
<1>1. CASE Quiet
  <2>1. \A c \in Client : pc'[c] \in InLog <=> pc[c] \in InLog
    BY <1>1 DEF Quiet, Writing, InLog
  <2> QED BY <1>1, <2>1, LogsUntouched DEF Quiet
<1>2. CASE FlushApplied \/ ApplyFails
  <2>1. UNCHANGED <<logs, lastSequence, group>> /\ pc' = SignalAll(pc)
    BY <1>2 DEF FlushApplied, ApplyFails, EndFlush, backgroundLeaves
  <2>2. Alike(pc, pc') BY <2>1, PcType, Signalled DEF Core
  <2>3. \A c \in Client : pc'[c] \in InLog <=> pc[c] \in InLog
    BY <2>2 DEF Alike, InLog
  <2> QED BY <2>1, <2>3, LogsUntouched
<1>3. ASSUME NEW c \in Client, Return(c) PROVE LogInv'
  <2>1. UNCHANGED <<logs, lastSequence, group>> /\ pc[c] = "returning"
        /\ \E q \in {"flushCheck", "idle"} : pc' = [pc EXCEPT ![c] = q]
    BY <1>3 DEF Return, memoryVars, diskVars
  <2>2. \A d \in Client : pc'[d] \in InLog <=> pc[d] \in InLog
    BY <2>1, PcType DEF Core, InLog
  <2> QED BY <2>1, <2>2, LogsUntouched
<1>4. ASSUME NEW c \in Client,
             (FindRoom(c) /\ call[c].batch # 0) \/ SwitchMemTable(c)
      PROVE  LogInv'
  <2>1. pc[c] = "room" /\ UNCHANGED lastSequence /\ Proceed(c)
    BY <1>4 DEF FindRoom, SwitchMemTable, InRoom, memoryVars
  <2>2. \A d \in Client : pc[d] \notin InLog
    BY <2>1, FirstWriter DEF Waiting, Away, InLog
  <2>3. \A d \in Client : pc'[d] \notin InLog
    <3>1. CASE call[c].batch # 0
      <4>1. pc' = [pc EXCEPT ![c] = "logging"] BY <1>4, <3>1, Begins
      <4> QED BY <2>2, <4>1, PcType DEF Core, InLog
    <3>2. CASE call[c].batch = 0
      <4>1. GiveUp(c, "ok") BY <2>1, <3>2 DEF Proceed
      <4>2. \A d \in Client : pc'[d] \in {pc[d], "returning", "signalled"}
        BY <4>1, <2>1, GiveUpKeeps DEF Waiting, Statuses
      <4> QED BY <2>2, <4>2 DEF InLog
    <3> QED BY <3>1, <3>2
  <2>4. CASE FindRoom(c)
    BY <2>1, <2>2, <2>3, <2>4, LogsUntouched DEF FindRoom, diskVars
  <2>5. CASE SwitchMemTable(c)
    <3>1. logs' = Append(logs, <<>>) BY <2>5 DEF SwitchMemTable
    <3>2. logs \in Seq(Seq(Record)) BY DEF Core, TypeOK
    <3>3. /\ DOMAIN logs' = 1 .. Len(logs) + 1 /\ DOMAIN logs = 1 .. Len(logs)
          /\ logs'[Len(logs) + 1] = <<>> /\ Len(logs) \in Nat
          /\ \A n \in DOMAIN logs : logs'[n] = logs[n]
      BY <3>1, <3>2
    <3>4. \A n \in DOMAIN logs' : \A i \in DOMAIN logs'[n] : n \in DOMAIN logs /\ logs'[n] = logs[n]
      BY <3>3
    <3>5. \A n \in DOMAIN logs : \A i \in DOMAIN logs[n] : End(logs[n][i]) <= lastSequence
      BY <2>2 DEF LogInv, RecordsEnd
    <3>6. RecordsEnd' BY <3>4, <3>5, <2>1 DEF RecordsEnd, End
    <3>7. RecordsFollow' BY <3>4 DEF LogInv, RecordsFollow, End
    <3> QED BY <2>3, <3>6, <3>7 DEF LogInv
  <2> QED BY <1>4, <2>4, <2>5
<1>5. ASSUME NEW c \in Client, AddRecord(c) \/ AddRecordFails(c) PROVE LogInv'
  <2>1. /\ pc[c] = "logging" /\ pc'[c] \in InLog /\ group'.record = group.record
        /\ UNCHANGED lastSequence /\ \A d \in Client : d # c => pc[d] \notin Writing
    BY <1>5, Writes DEF InLog
  <2>2. group.record \in Record /\ group.record.first = lastSequence + 1 /\ Torn \in Record
    BY <2>1, NumbersAreNew DEF Writing, Torn, Record
  <2>3. \A d \in Client : pc[d] \notin InLog BY <2>1 DEF InLog, Writing
  <2>4. CASE AddRecord(c)
    <3>1. logs' = [logs EXCEPT ![Log] = Append(@, group.record)] BY <2>4 DEF AddRecord
    <3> QED BY <2>1, <2>2, <2>3, <3>1, RecordAppended
  <2>5. CASE AddRecordFails(c)
    <3>1. PICK r \in Record : r = Torn /\ logs' = [logs EXCEPT ![Log] = Append(@, r)]
      BY <2>2, <2>5 DEF AddRecordFails
    <3>2. group'.status # "ok" BY <2>5, Writes
    <3> QED BY <2>1, <2>3, <3>1, <3>2, RecordAppended
  <2> QED BY <1>5, <2>4, <2>5
<1>6. ASSUME NEW c \in Client, Sync(c) \/ SyncFails(c) \/ Insert(c) PROVE LogInv'
  <2>1. /\ pc[c] \in InLog /\ pc[c] # "inserted" /\ pc'[c] \in InLog /\ group'.record = group.record
        /\ UNCHANGED lastSequence /\ \A d \in Client : d # c => pc'[d] = pc[d]
    BY <1>6, Writes DEF InLog
  <2>2. UNCHANGED logs BY <1>6 DEF Sync, SyncFails, Insert, diskVars
  <2>3. group.status = "ok" BY <2>1 DEF Core, GroupInv, InLog, Writing
  <2>4. \A d \in Client : pc'[d] \in InLog <=> pc[d] \in InLog BY <2>1
  <2> QED BY <2>1, <2>2, <2>3, <2>4, LogsUntouched
<1>7. ASSUME NEW c \in Client, Finish(c) PROVE LogInv'
  <2>1. /\ \A d \in Client : pc'[d] \notin Writing
        /\ lastSequence' = lastSequence + BatchSize * Cardinality(group.record.batches)
        /\ UNCHANGED logs /\ pc[c] \in Writing
    BY <1>7, Finishes DEF Writing
  <2> DEFINE n == BatchSize * Cardinality(group.record.batches)
  <2>2. group.record \in Record /\ group.record.first = lastSequence + 1 /\ lastSequence \in Nat
    BY <2>1, NumbersAreNew DEF Core, TypeOK
  <2>3. n \in Nat BY <2>2, WriteQueueAssumption, BatchesFinite, Products DEF Record
  <2>4. lastSequence' = lastSequence + n BY <2>1
  <2>5. End(group.record) <= lastSequence' /\ End(group.record) \in Int
    <3>1. End(group.record) = 0 \/ End(group.record) = group.record.first + n - 1
      BY <2>2, EndOfRecord
    <3> HIDE DEF n
    <3> QED BY <2>2, <2>3, <2>4, <3>1
  <2> HIDE DEF n
  <2>6. \A m \in DOMAIN logs : \A i \in DOMAIN logs[m] : End(logs[m][i]) <= lastSequence'
    <3> SUFFICES ASSUME NEW m \in DOMAIN logs, NEW i \in DOMAIN logs[m]
                 PROVE  End(logs[m][i]) <= lastSequence'
      OBVIOUS
    <3>1. End(logs[m][i]) \in Int
      <4>1. logs[m][i] \in Record BY DEF Core, TypeOK
      <4> QED BY <4>1, EndOfRecord
    <3>2. End(logs[m][i]) <= lastSequence \/ logs[m][i] = group.record
      BY DEF LogInv, RecordsEnd
    <3> QED BY <3>1, <3>2, <2>2, <2>3, <2>4, <2>5
  <2>7. RecordsEnd' BY <2>1, <2>6 DEF RecordsEnd, End
  <2>8. RecordsFollow' BY <2>1 DEF LogInv, RecordsFollow, End
  <2> QED BY <2>1, <2>7, <2>8 DEF LogInv, InLog, Writing
<1> QED BY <1>1, <1>2, <1>3, <1>4, <1>5, <1>6, <1>7, Steps

LEMMA LogAlways == Spec => [](Core /\ LogInv)
<1>1. Init => LogInv
  <2>1. Init => DOMAIN logs = {1} /\ logs[1] = <<>> /\ \A c \in Client : pc[c] = "idle"
    BY DEF Init
  <2> QED BY <2>1 DEF LogInv, RecordsEnd, RecordsFollow, InLog
<1>2. Core /\ LogInv /\ [Next]_vars => LogInv' BY LogNext
<1> QED BY <1>1, <1>2, CoreAlways, PTL DEF Spec

\* Sequence numbers follow the logs, however the groups are formed and whatever
\* fails: the records' numbers in the order of the logs, the next record's after
\* all of them, no two entries with one number. (DBImpl::Write, SetSequence.)
THEOREM WriteQueueSequencesFollowLog == Spec => []SequencesFollowLog
<1>1. Core /\ LogInv => SequencesFollowLog
  BY DEF Core, LogInv, RecordsEnd, RecordsFollow, EntryInv, Stored, SequencesFollowLog
<1> QED BY <1>1, LogAlways, PTL

-----------------------------------------------------------------------------
(* The writes that are done and what a crash leaves of them.                *)

Batches(entries) == {e.batch : e \in entries}

\* What a crash leaves when it leaves kept of the logs: the batch is in a table
\* of the manifest, or in a log from the manifest's on.
Kept(b, kept) ==
    \/ b \in Batches(manifest.tables)
    \/ \E n \in manifest.log .. Log : \E i \in 1 .. kept[n] : b \in logs[n][i].batches

\* The same after the flush that is next, which gives up all logs but the last.
KeptNext(b, kept) ==
    \/ b \in Batches(manifest.tables \cup imm)
    \/ \E i \in 1 .. kept[Log] : b \in logs[Log][i].batches

\* And after the one that follows, which writes the memtable.
Durable(w) ==
    /\ LET whole == [n \in DOMAIN logs |-> Len(logs[n])]
       IN  Kept(w.batch, whole) /\ KeptNext(w.batch, whole)
    /\ w.sync => Kept(w.batch, synced) /\ KeptNext(w.batch, synced)
    /\ w.batch \in Batches(manifest.tables \cup imm \cup mem)

DurableInv ==
    /\ \A n \in DOMAIN logs : synced[n] <= Len(logs[n])
    /\ \A w \in acked : Durable(w)
    /\ \A c \in Client : Done(c) /\ call[c].batch # 0 => Durable(call[c])
    /\ \A c \in Client :
            pc[c] \in {"inserting", "inserted"} /\ group.status = "ok" /\ call[c].sync
            => synced[Log] = Len(logs[Log])

\* The shape of the logs.
LEMMA LogsShape ==
    ASSUME Core
    PROVE  /\ logs \in Seq(Seq(Record)) /\ synced \in Seq(Nat)
           /\ Log \in Nat /\ Log \in DOMAIN logs /\ DOMAIN logs = 1 .. Log
           /\ DOMAIN synced = 1 .. Log
           /\ \A n \in 1 .. Log : /\ logs[n] \in Seq(Record) /\ Len(logs[n]) \in Nat
                                  /\ DOMAIN logs[n] = 1 .. Len(logs[n]) /\ synced[n] \in Nat
           /\ manifest.log \in 1 .. Log
<1>1. /\ logs \in Seq(Seq(Record)) /\ synced \in Seq(Nat) /\ Len(synced) = Len(logs)
      /\ manifest.log \in DOMAIN logs
  BY DEF Core, TypeOK
<1>2. /\ Log \in Nat /\ DOMAIN logs = 1 .. Log /\ DOMAIN synced = 1 .. Log
      /\ Log \in DOMAIN logs
  BY <1>1 DEF Log
<1>3. \A n \in 1 .. Log : logs[n] \in Seq(Record) /\ synced[n] \in Nat BY <1>1, <1>2
<1>4. \A n \in 1 .. Log : Len(logs[n]) \in Nat /\ DOMAIN logs[n] = 1 .. Len(logs[n]) BY <1>3
<1> QED BY <1>1, <1>2, <1>3, <1>4

\* Logs grow at their ends, and so does the part a Sync has covered.
Grown ==
    /\ UNCHANGED <<manifest, imm>> /\ mem \subseteq mem' /\ Log' = Log
    /\ DOMAIN logs' = DOMAIN logs
    /\ \A n \in 1 .. Log :
        /\ Len(logs'[n]) \in Nat /\ synced'[n] \in Nat
        /\ Len(logs[n]) <= Len(logs'[n]) /\ synced[n] <= synced'[n]
        /\ \A i \in 1 .. Len(logs[n]) : logs'[n][i] = logs[n][i]

LEMMA DurableGrows ==
    ASSUME Core, DurableInv, NEW w, Durable(w), Grown
    PROVE  Durable(w)'
<1> DEFINE whole == [n \in DOMAIN logs |-> Len(logs[n])]
           wholeN == [n \in DOMAIN logs' |-> Len(logs'[n])]
<1>1. /\ Log \in DOMAIN logs /\ DOMAIN logs = 1 .. Log /\ manifest.log \in 1 .. Log /\ Log \in Nat
      /\ \A n \in 1 .. Log : Len(logs[n]) \in Nat /\ synced[n] \in Nat
  BY LogsShape
<1>2. \A n \in 1 .. Log : synced[n] <= Len(logs[n]) BY <1>1 DEF DurableInv
<1>3. \A n \in 1 .. Log : \A i \in 1 .. whole[n] :
        i \in 1 .. wholeN[n] /\ logs'[n][i] = logs[n][i]
  BY <1>1 DEF Grown
<1>4. \A n \in 1 .. Log : \A i \in 1 .. synced[n] :
        i \in 1 .. synced'[n] /\ logs'[n][i] = logs[n][i]
  BY <1>1, <1>2 DEF Grown
<1>5. \A n \in manifest.log .. Log : n \in 1 .. Log BY <1>1
<1>6. /\ Kept(w.batch, whole) /\ KeptNext(w.batch, whole)
      /\ w.sync => Kept(w.batch, synced) /\ KeptNext(w.batch, synced)
      /\ w.batch \in Batches(manifest.tables \cup imm \cup mem)
  BY DEF Durable
<1> HIDE DEF whole, wholeN
<1>7. \/ w.batch \in Batches(manifest'.tables)
      \/ \E n \in manifest'.log .. Log' : \E i \in 1 .. wholeN[n] : w.batch \in logs'[n][i].batches
  BY <1>3, <1>5, <1>6 DEF Kept, Grown
<1>8. \/ w.batch \in Batches(manifest'.tables \cup imm')
      \/ \E i \in 1 .. wholeN[Log'] : w.batch \in logs'[Log'][i].batches
  BY <1>1, <1>3, <1>6 DEF KeptNext, Grown
<1>9. w.sync =>
      \/ w.batch \in Batches(manifest'.tables)
      \/ \E n \in manifest'.log .. Log' : \E i \in 1 .. synced'[n] : w.batch \in logs'[n][i].batches
  BY <1>4, <1>5, <1>6 DEF Kept, Grown
<1>10. w.sync =>
      \/ w.batch \in Batches(manifest'.tables \cup imm')
      \/ \E i \in 1 .. synced'[Log'] : w.batch \in logs'[Log'][i].batches
  BY <1>1, <1>4, <1>6 DEF KeptNext, Grown
<1>11. w.batch \in Batches(manifest'.tables \cup imm' \cup mem')
  BY <1>6 DEF Batches, Grown
<1> QED
  BY <1>7, <1>8, <1>9, <1>10, <1>11 DEF Durable, Kept, KeptNext, Batches, wholeN

\* The memtable becomes imm and a new log is begun.
LEMMA DurableSwitched ==
    ASSUME Core, DurableInv, NEW w, Durable(w), imm = {}, imm' = mem,
           logs' = Append(logs, <<>>), synced' = Append(synced, 0), UNCHANGED manifest
    PROVE  Durable(w)'
<1> DEFINE whole == [n \in DOMAIN logs |-> Len(logs[n])]
           wholeN == [n \in DOMAIN logs' |-> Len(logs'[n])]
<1>1. /\ Log \in DOMAIN logs /\ DOMAIN logs = 1 .. Log /\ manifest.log \in 1 .. Log /\ Log \in Nat
      /\ logs \in Seq(Seq(Record)) /\ synced \in Seq(Nat) /\ DOMAIN synced = 1 .. Log
  BY LogsShape
<1>2. /\ Log' = Log + 1 /\ DOMAIN logs' = 1 .. Log + 1
      /\ \A n \in 1 .. Log : logs'[n] = logs[n] /\ synced'[n] = synced[n]
  BY <1>1 DEF Log
<1>3. \A n \in manifest.log .. Log : n \in 1 .. Log /\ n \in manifest'.log .. Log'
                                   /\ wholeN[n] = whole[n]
  BY <1>1, <1>2
<1>4. /\ Kept(w.batch, whole) /\ (w.sync => Kept(w.batch, synced))
      /\ w.batch \in Batches(manifest.tables \cup imm \cup mem)
  BY DEF Durable
<1> HIDE DEF whole, wholeN
<1>5. \/ w.batch \in Batches(manifest'.tables)
      \/ \E n \in manifest'.log .. Log' : \E i \in 1 .. wholeN[n] : w.batch \in logs'[n][i].batches
  BY <1>2, <1>3, <1>4 DEF Kept
<1>6. w.sync =>
      \/ w.batch \in Batches(manifest'.tables)
      \/ \E n \in manifest'.log .. Log' : \E i \in 1 .. synced'[n] : w.batch \in logs'[n][i].batches
  BY <1>2, <1>3, <1>4 DEF Kept
<1>7. w.batch \in Batches(manifest'.tables \cup imm') BY <1>4
<1>8. w.batch \in Batches(manifest'.tables \cup imm' \cup mem') BY <1>7 DEF Batches
<1> QED BY <1>5, <1>6, <1>7, <1>8 DEF Durable, Kept, KeptNext, Batches, wholeN

\* The flush is in the manifest, whether imm is given up for it or not.
LEMMA DurableFlushed ==
    ASSUME Core, NEW w, Durable(w), UNCHANGED <<logs, synced, mem>>,
           manifest' = [log |-> Log, tables |-> manifest.tables \cup imm],
           imm' = {} \/ imm' = imm
    PROVE  Durable(w)'
<1> DEFINE whole == [n \in DOMAIN logs |-> Len(logs[n])]
<1>1. manifest'.log = Log /\ manifest'.tables = manifest.tables \cup imm /\ Log' = Log
      /\ Log \in Nat
  BY LogsShape DEF Log
<1>2. /\ KeptNext(w.batch, whole) /\ (w.sync => KeptNext(w.batch, synced))
      /\ w.batch \in Batches(manifest.tables \cup imm \cup mem)
  BY DEF Durable
<1>3. Batches(manifest.tables \cup imm) \subseteq Batches(manifest'.tables \cup imm')
  BY <1>1 DEF Batches
<1>4. Batches(manifest.tables \cup imm \cup mem) \subseteq Batches(manifest'.tables \cup imm' \cup mem')
  BY <1>1 DEF Batches
<1> HIDE DEF whole
<1>5. \/ w.batch \in Batches(manifest'.tables)
      \/ \E n \in manifest'.log .. Log' : \E i \in 1 .. whole[n] : w.batch \in logs'[n][i].batches
  BY <1>1, <1>2 DEF KeptNext
<1>6. w.sync =>
      \/ w.batch \in Batches(manifest'.tables)
      \/ \E n \in manifest'.log .. Log' : \E i \in 1 .. synced'[n] : w.batch \in logs'[n][i].batches
  BY <1>1, <1>2 DEF KeptNext
<1>7. \/ w.batch \in Batches(manifest'.tables \cup imm')
      \/ \E i \in 1 .. whole[Log'] : w.batch \in logs'[Log'][i].batches
  BY <1>1, <1>2, <1>3 DEF KeptNext
<1>8. w.sync =>
      \/ w.batch \in Batches(manifest'.tables \cup imm')
      \/ \E i \in 1 .. synced'[Log'] : w.batch \in logs'[Log'][i].batches
  BY <1>1, <1>2, <1>3 DEF KeptNext
<1>9. w.batch \in Batches(manifest'.tables \cup imm' \cup mem') BY <1>2, <1>4
<1>10. whole = [n \in DOMAIN logs' |-> Len(logs'[n])] BY DEF whole
<1> QED
  BY <1>5, <1>6, <1>7, <1>8, <1>9, <1>10 DEF Durable, Kept, KeptNext, Batches

\* The batches of a group are in the memtable and in the last log.
LEMMA DurableInserted ==
    ASSUME Core', LogInv', NEW d \in Client, pc'[d] = "inserted", group'.status = "ok",
           call'[d].sync => synced'[Log'] = Len(logs'[Log']),
           NEW c \in Client, InGroup(c)', call'[c].batch # 0
    PROVE  Durable(call[c])'
<1>1. /\ Log' \in Nat /\ Log' \in DOMAIN logs' /\ manifest'.log \in 1 .. Log'
      /\ logs'[Log'] \in Seq(Record)
  BY DEF Core, TypeOK, Log
<1> DEFINE len == Len(logs'[Log'])
           w == call'[c]
           whole == [n \in DOMAIN logs' |-> Len(logs'[n])]
<1>2. logs'[Log'] # <<>> /\ logs'[Log'][len] = group'.record
  BY DEF LogInv, Logged, InLog
<1>3. len \in 1 .. len /\ Log' \in manifest'.log .. Log' BY <1>1, <1>2
<1>4. /\ Entries(group.record)' \subseteq mem' /\ group'.record \in Record
  BY DEF Core, EntryInv, TypeOK
<1>5. /\ w.batch \in group'.record.batches /\ (w.sync => call'[d].sync)
  BY DEF Core, GroupInv, Writing, InGroup
<1>6. w.batch \in Batches(mem')
  <2>1. 1 \in 1 .. BatchSize BY WriteQueueAssumption
  <2>2. \E e \in Entries(group'.record) : e.batch = w.batch
    BY <1>4, <1>5, <2>1, RecordEntries
  <2>3. Entries(group.record)' = Entries(group'.record) BY DEF Entries, Place
  <2> QED BY <1>4, <2>2, <2>3 DEF Batches
<1>7. w.batch \in logs'[Log'][len].batches BY <1>2, <1>5
<1>8. whole[Log'] = len BY <1>1
<1>9. w.sync => synced'[Log'] = len BY <1>5
<1>10. w.batch \in Batches(manifest'.tables \cup imm' \cup mem') BY <1>6 DEF Batches
<1> HIDE DEF len, w, whole
<1>11. \/ w.batch \in Batches(manifest'.tables)
       \/ \E n \in manifest'.log .. Log' : \E i \in 1 .. whole[n] : w.batch \in logs'[n][i].batches
  BY <1>3, <1>7, <1>8
<1>12. \/ w.batch \in Batches(manifest'.tables \cup imm')
       \/ \E i \in 1 .. whole[Log'] : w.batch \in logs'[Log'][i].batches
  BY <1>3, <1>7, <1>8
<1>13. w.sync =>
       \/ w.batch \in Batches(manifest'.tables)
       \/ \E n \in manifest'.log .. Log' : \E i \in 1 .. synced'[n] : w.batch \in logs'[n][i].batches
  BY <1>3, <1>7, <1>9
<1>14. w.sync =>
       \/ w.batch \in Batches(manifest'.tables \cup imm')
       \/ \E i \in 1 .. synced'[Log'] : w.batch \in logs'[Log'][i].batches
  BY <1>3, <1>7, <1>9
<1> QED
  BY <1>10, <1>11, <1>12, <1>13, <1>14 DEF Durable, Kept, KeptNext, Batches, w, whole

LEMMA DurableNext ==
    ASSUME Core, LogInv, DurableInv, [Next]_vars, Core', LogInv'
    PROVE  DurableInv'
\* The same for all steps: the writes that were durable still are, and who is
\* done now was before or has just been inserted.
<1> DEFINE Synced(c) == pc[c] \in {"inserting", "inserted"} /\ group.status = "ok" /\ call[c].sync
                        => synced[Log] = Len(logs[Log])
           SyncedLogs == \A n \in DOMAIN logs : synced[n] <= Len(logs[n])
<1>1. ASSUME \A w : Durable(w) => Durable(w)',
             \A w \in acked' : w \in acked \/ \E c \in Client : w = call[c] /\ Done(c) /\ w.batch # 0,
             \A c \in Client : Synced(c)', SyncedLogs'
      PROVE  DurableInv'
  <2>1. ASSUME NEW c \in Client, Done(c)', call'[c].batch # 0 PROVE Durable(call[c])'
    <3>1. call'[c] = call[c] BY <2>1, DoneComesFrom
    <3>2. CASE Done(c)
      <4>1. Durable(call[c]) BY <2>1, <3>1, <3>2 DEF DurableInv
      <4>2. PICK w : w = call[c] OBVIOUS
      <4>3. Durable(w)' BY <4>1, <4>2, <1>1
      <4> QED BY <3>1, <4>2, <4>3
    <3>3. ASSUME NEW d \in Client, Insert(d), pc'[d] = "inserted", InGroup(c)
          PROVE  Durable(call[c])'
      <4>1. /\ group'.status = "ok" /\ UNCHANGED writers /\ group'.size = group.size
        BY <3>3, Writes
      <4>2. InGroup(c)' BY <3>3, <4>1 DEF InGroup
      <4>3. call'[d].sync => synced'[Log'] = Len(logs'[Log'])
        BY <1>1, <3>3, <4>1
      <4> QED BY <2>1, <3>3, <4>1, <4>2, <4>3, DurableInserted
    <3> QED BY <2>1, <3>2, <3>3, DoneComesFrom
  <2>2. ASSUME NEW w \in acked' PROVE Durable(w)'
    <3>1. Durable(w) BY <1>1, <2>2 DEF DurableInv
    <3> QED BY <1>1, <3>1
  <2> QED BY <1>1, <2>1, <2>2 DEF DurableInv
<1>2. ASSUME Grown PROVE \A w : Durable(w) => Durable(w)'
  BY <1>2, DurableGrows
<1>3. /\ logs \in Seq(Seq(Record)) /\ synced \in Seq(Nat)
      /\ Log \in Nat /\ Log \in DOMAIN logs /\ DOMAIN logs = 1 .. Log /\ DOMAIN synced = 1 .. Log
      /\ \A n \in 1 .. Log : /\ logs[n] \in Seq(Record) /\ Len(logs[n]) \in Nat
                             /\ synced[n] \in Nat /\ synced[n] <= Len(logs[n])
  BY LogsShape DEF DurableInv
<1>15. /\ Log \in Nat /\ Log \in 1 .. Log
       /\ \A n \in 1 .. Log : Len(logs[n]) \in Nat /\ synced[n] \in Nat /\ synced[n] <= Len(logs[n])
  BY <1>3
<1>4. ASSUME UNCHANGED <<manifest, imm, logs, synced>>, mem \subseteq mem'
      PROVE  Grown /\ SyncedLogs' /\ Log' = Log
  BY <1>3, <1>4 DEF Grown, Log
<1>5. \A c \in Client : Synced(c) BY DEF DurableInv
<1>6. CASE Quiet
  <2>1. UNCHANGED <<manifest, imm, logs, synced, mem, acked, group>> BY <1>6 DEF Quiet
  <2>2. ASSUME NEW c \in Client PROVE Synced(c)'
    <3>1. CASE pc'[c] \in {"inserting", "inserted"}
      <4>1. pc'[c] = pc[c] /\ call'[c] = call[c] BY <1>6, <3>1 DEF Quiet, Writing
      <4> QED BY <4>1, <2>1, <1>4, <1>5
    <3> QED BY <3>1
  <2> QED BY <1>1, <1>2, <1>4, <2>1, <2>2
<1>7. CASE FlushApplied \/ (ApplyFails /\ manifest' # manifest)
  <2>1. /\ manifest' = [log |-> background.log, tables |-> manifest.tables \cup imm]
        /\ imm' = {} \/ imm' = imm
        /\ background.at = "applying" /\ pc' = SignalAll(pc)
        /\ UNCHANGED <<logs, synced, mem, acked, group, call>>
    BY <1>7 DEF FlushApplied, ApplyFails, EndFlush, backgroundLeaves, historyVars
  <2>2. background.log = Log BY <2>1 DEF Core, BackgroundInv
  <2>3. \A w : Durable(w) => Durable(w)' BY <2>1, <2>2, DurableFlushed
  <2>4. Alike(pc, pc') BY <2>1, PcType, Signalled DEF Core
  <2>5. \A c \in Client : pc'[c] \in {"inserting", "inserted"} => pc[c] = pc'[c]
    BY <2>4 DEF Alike
  <2>6. Log' = Log BY <2>1 DEF Log
  <2>7. \A c \in Client : Synced(c)' BY <2>1, <2>5, <2>6, <1>5
  <2>8. SyncedLogs' BY <2>1, <1>3
  <2> QED BY <1>1, <2>1, <2>3, <2>7, <2>8
<1>8. ASSUME NEW c \in Client, Return(c) PROVE DurableInv'
  <2>1. /\ UNCHANGED <<manifest, imm, logs, synced, mem, group, call>> /\ pc[c] = "returning"
        /\ acked' = acked \cup
                (IF call[c].batch # 0 /\ result[c] = "ok" THEN {call[c]} ELSE {})
        /\ \E q \in {"flushCheck", "idle"} : pc' = [pc EXCEPT ![c] = q]
    BY <1>8 DEF Return, memoryVars, diskVars
  <2>2. \A d \in Client : pc'[d] \in {"inserting", "inserted"} => pc[d] = pc'[d]
    BY <2>1, PcType DEF Core
  <2>3. \A d \in Client : Synced(d)' BY <2>1, <2>2, <1>4, <1>5
  <2>4. \A w \in acked' : w \in acked \/ \E d \in Client : w = call[d] /\ Done(d) /\ w.batch # 0
    BY <2>1 DEF Done
  <2> QED BY <1>1, <1>2, <1>4, <2>1, <2>3, <2>4
<1>9. ASSUME NEW c \in Client, FindRoom(c), call[c].batch # 0 PROVE DurableInv'
  <2>1. /\ UNCHANGED <<manifest, imm, logs, synced, mem, acked>>
    BY <1>9 DEF FindRoom, memoryVars, diskVars, historyVars
  <2>2. pc' = [pc EXCEPT ![c] = "logging"] /\ pc[c] = "room" BY <1>9, Begins
  <2>3. \A d \in Client : pc'[d] \notin {"inserting", "inserted"}
    BY <2>2, FirstWriter, PcType DEF Core, Waiting, Away
  <2> QED BY <1>1, <1>2, <1>4, <2>1, <2>3
<1>10. ASSUME NEW c \in Client, SwitchMemTable(c) PROVE DurableInv'
  <2>1. /\ imm' = mem /\ logs' = Append(logs, <<>>) /\ synced' = Append(synced, 0)
        /\ UNCHANGED <<manifest, acked>> /\ ~hasImm /\ pc[c] = "room" /\ Proceed(c)
        /\ UNCHANGED lastSequence
    BY <1>10 DEF SwitchMemTable, MustWait, InRoom, historyVars
  <2>2. imm = {} BY <2>1 DEF Core, TypeOK
  <2>3. \A w : Durable(w) => Durable(w)' BY <2>1, <2>2, DurableSwitched
  <2>4. \A d \in Client : pc'[d] \notin {"inserting", "inserted"}
    <3>1. \A d \in Client : pc[d] \notin {"inserting", "inserted"}
      BY <2>1, FirstWriter DEF Waiting, Away
    <3>2. CASE call[c].batch # 0
      <4>1. pc' = [pc EXCEPT ![c] = "logging"] BY <1>10, <3>2, Begins
      <4> QED BY <3>1, <4>1, PcType DEF Core
    <3>3. CASE call[c].batch = 0
      <4>1. GiveUp(c, "ok") BY <2>1, <3>3 DEF Proceed
      <4>2. \A d \in Client : pc'[d] \in {pc[d], "returning", "signalled"}
        BY <4>1, <2>1, GiveUpKeeps DEF Waiting, Statuses
      <4> QED BY <3>1, <4>2
    <3> QED BY <3>2, <3>3
  <2>5. SyncedLogs'
    <3>1. /\ DOMAIN logs' = 1 .. Log + 1 /\ logs'[Log + 1] = <<>> /\ synced'[Log + 1] = 0
          /\ \A n \in 1 .. Log : logs'[n] = logs[n] /\ synced'[n] = synced[n]
      BY <2>1, <1>3 DEF Log
    <3>2. ASSUME NEW n \in 1 .. Log + 1 PROVE synced'[n] <= Len(logs'[n])
      <4>1. CASE n \in 1 .. Log BY <3>1, <1>15, <4>1
      <4>2. CASE n = Log + 1
        <5>1. Len(<<>>) = 0 OBVIOUS
        <5> QED BY <3>1, <4>2, <5>1
      <4> QED BY <1>15, <4>1, <4>2
    <3> QED BY <3>1, <3>2
  <2> QED BY <1>1, <2>1, <2>3, <2>4, <2>5
<1>11. ASSUME NEW c \in Client, AddRecord(c) \/ AddRecordFails(c) PROVE DurableInv'
  <2>1. /\ UNCHANGED <<manifest, imm, mem, synced, acked, call>>
        /\ \A d \in Client : d # c => pc'[d] = pc[d] /\ pc[d] \notin Writing
        /\ \/ pc'[c] \notin {"inserting", "inserted"} \/ ~call[c].sync \/ group'.status = "error"
    <3>1. UNCHANGED <<mem, synced>> BY <1>11 DEF AddRecord, AddRecordFails, memoryVars
    <3> QED BY <1>11, <3>1, Writes
  <2>2. \A d \in Client : Synced(d)' BY <2>1 DEF Writing
  <2>3. PICK r \in Record : logs' = [logs EXCEPT ![Log] = Append(@, r)]
    <3>1. group.record \in Record /\ Torn \in Record BY DEF Core, TypeOK, Torn, Record
    <3> QED BY <1>11, <3>1 DEF AddRecord, AddRecordFails
  <2>4. /\ DOMAIN logs' = 1 .. Log /\ Log' = Log
        /\ \A n \in 1 .. Log :
            /\ Len(logs'[n]) \in Nat /\ Len(logs[n]) <= Len(logs'[n])
            /\ \A i \in 1 .. Len(logs[n]) : logs'[n][i] = logs[n][i]
    <3>1. /\ DOMAIN logs' = 1 .. Log /\ Log' = Log /\ logs'[Log] = Append(logs[Log], r)
          /\ \A n \in 1 .. Log : n # Log => logs'[n] = logs[n]
      <4>1. Log' = Log
        <5>1. Append(logs[Log], r) \in Seq(Record) BY <1>3
        <5> QED BY <2>3, <1>3, <5>1, ExceptSeq DEF Log
      <4> QED BY <2>3, <1>3, <4>1
    <3>2. /\ Len(logs'[Log]) = Len(logs[Log]) + 1
          /\ \A i \in 1 .. Len(logs[Log]) : logs'[Log][i] = logs[Log][i]
      BY <3>1, <1>3
    <3>3. ASSUME NEW n \in 1 .. Log
          PROVE  /\ Len(logs'[n]) \in Nat /\ Len(logs[n]) <= Len(logs'[n])
                 /\ \A i \in 1 .. Len(logs[n]) : logs'[n][i] = logs[n][i]
      <4>1. CASE n = Log BY <3>2, <1>15, <4>1
      <4>2. CASE n # Log BY <3>1, <1>15, <4>2
      <4> QED BY <4>1, <4>2
    <3> QED BY <3>1, <3>3
  <2>5. Grown BY <2>1, <2>4, <1>3 DEF Grown
  <2>6. SyncedLogs'
    <3>1. \A n \in 1 .. Log : synced'[n] = synced[n] BY <2>1
    <3> QED BY <3>1, <2>4, <1>3
  <2> QED BY <1>1, <1>2, <2>1, <2>2, <2>5, <2>6
<1>12. ASSUME NEW c \in Client, Sync(c) PROVE DurableInv'
  <2>1. /\ UNCHANGED <<manifest, imm, mem, logs, acked, call>>
        /\ synced' = [synced EXCEPT ![Log] = Len(logs[Log])]
        /\ \A d \in Client : d # c => pc'[d] = pc[d] /\ pc[d] \notin Writing
    <3>1. UNCHANGED <<mem, logs>> /\ synced' = [synced EXCEPT ![Log] = Len(logs[Log])]
      BY <1>12 DEF Sync, memoryVars
    <3> QED BY <1>12, <3>1, Writes
  <2>2. /\ Log' = Log /\ synced'[Log] = Len(logs[Log])
        /\ \A n \in 1 .. Log : n # Log => synced'[n] = synced[n]
    BY <2>1, <1>3 DEF Log
  <2>3. \A n \in 1 .. Log : synced'[n] \in Nat /\ synced[n] <= synced'[n] /\ synced'[n] <= Len(logs[n])
    <3> SUFFICES ASSUME NEW n \in 1 .. Log
                 PROVE  synced'[n] \in Nat /\ synced[n] <= synced'[n] /\ synced'[n] <= Len(logs[n])
      OBVIOUS
    <3>1. CASE n = Log BY <2>2, <1>15, <3>1
    <3>2. CASE n # Log BY <2>2, <1>15, <3>2
    <3> QED BY <3>1, <3>2
  <2>4. Grown BY <2>1, <2>2, <2>3, <1>3 DEF Grown
  <2>5. \A d \in Client : Synced(d)' BY <2>1, <2>2
  <2>6. SyncedLogs' BY <2>1, <2>3, <1>3
  <2> QED BY <1>1, <1>2, <2>1, <2>4, <2>5, <2>6
<1>13. ASSUME NEW c \in Client, SyncFails(c) \/ Insert(c) PROVE DurableInv'
  <2>1. /\ UNCHANGED <<manifest, imm, logs, synced, acked, call>> /\ mem \subseteq mem'
        /\ \A d \in Client : d # c => pc'[d] = pc[d] /\ pc[d] \notin Writing
    <3>1. UNCHANGED <<logs, synced>> /\ mem \subseteq mem'
      BY <1>13 DEF SyncFails, Insert, memoryVars, diskVars
    <3> QED BY <1>13, <3>1, Writes
  <2>2. \/ group'.status = "error"
        \/ pc[c] = "inserting" /\ group.status = "ok"
    <3>1. Insert(c) => pc[c] = "inserting" /\ group.status = "ok"
      BY DEF Insert, Core, GroupInv, Writing
    <3> QED BY <1>13, <3>1, Writes
  <2>3. Log' = Log BY <2>1 DEF Log
  <2>4. \A d \in Client : Synced(d)' BY <2>1, <2>2, <2>3, <1>5 DEF Writing
  <2> QED BY <1>1, <1>2, <1>4, <2>1, <2>4
<1>14. ASSUME NEW c \in Client, Finish(c) PROVE DurableInv'
  <2>1. /\ UNCHANGED <<manifest, imm, logs, synced, mem, acked>>
        /\ \A d \in Client : pc'[d] \notin {"inserting", "inserted"}
    BY <1>14, Finishes DEF Writing
  <2> QED BY <1>1, <1>2, <1>4, <2>1
<1> QED
  BY <1>6, <1>7, <1>8, <1>9, <1>10, <1>11, <1>12, <1>13, <1>14, Steps

LEMMA DurableAlways == Spec => [](Core /\ LogInv /\ DurableInv)
<1>1. Init => DurableInv
  <2>1. Init => /\ DOMAIN logs = {1} /\ Len(logs[1]) = 0 /\ synced[1] = 0 /\ acked = {}
                /\ \A c \in Client : pc[c] = "idle"
    BY DEF Init
  <2> QED BY <2>1 DEF DurableInv, Done
<1>2. Core /\ LogInv /\ DurableInv /\ [Next]_vars => DurableInv'
  BY CoreNext, LogNext, DurableNext
<1> QED BY <1>1, <1>2, LogAlways, PTL DEF Spec

LEMMA KeptIsRecovered ==
    ASSUME NEW b, NEW kept, Kept(b, kept)
    PROVE  b \in Recovered(kept)
BY DEF Kept, Recovered, Batches

\* No write that returned OK is lost when the process is killed, whoever was
\* grouped with whom and however far the flush of a memtable has come.
\* (DBImpl::Write, MakeRoomForWrite, CompactMemTable.)
THEOREM WriteQueueKilledLosesNothing == Spec => []KilledLosesNothing
<1>1. Core /\ DurableInv => KilledLosesNothing
  <2> SUFFICES ASSUME Core, DurableInv, NEW w \in acked
               PROVE  w.batch \in Recovered([n \in DOMAIN logs |-> Len(logs[n])])
    BY DEF KilledLosesNothing, Acked
  <2>1. Kept(w.batch, [n \in DOMAIN logs |-> Len(logs[n])]) BY DEF DurableInv, Durable
  <2> QED BY <2>1, KeptIsRecovered
<1> QED BY <1>1, DurableAlways, PTL

\* No sync write that returned OK is lost when the machine crashes: the group
\* it went with was synced before any of it returned. (BuildBatchGroup,
\* DBImpl::Write, CompactMemTable.)
THEOREM WriteQueueSyncedSurvives == Spec => []SyncedSurvives
<1>1. Core /\ DurableInv => SyncedSurvives
  <2> SUFFICES ASSUME DurableInv, NEW w \in acked, w.sync \in {TRUE}
               PROVE  w.batch \in Recovered(synced)
    BY DEF SyncedSurvives, Acked
  <2>1. Kept(w.batch, synced) BY DEF DurableInv, Durable
  <2> QED BY <2>1, KeptIsRecovered
<1> QED BY <1>1, DurableAlways, PTL

-----------------------------------------------------------------------------
(* WriteQueue implements AtomicWrites: groups of batches take effect in     *)
(* single steps, though their entries are inserted one by one.              *)

\* A call of Write that has not returned.
Running(c) == pc[c] \in Waiting \cup Writing \cup {"returning"}

\* What is stored belongs to calls that were made.
StoredCalled ==
    /\ \A e \in Stored : e.batch <= calls
    /\ \A w \in acked \cup failed : w.batch \in 1 .. calls

\* A batch returns once.
ReturnsOnce ==
    \A c \in Client, w \in acked \cup failed : Running(c) => w.batch # call[c].batch

\* Of a batch whose call runs only what its group is inserting is stored; of one
\* that goes back with an error there is nothing.
StoredInserting ==
    \A e \in Stored, c \in Client : e.batch = call[c].batch =>
        /\ pc[c] \in Waiting \cup Writing => e \in Entries(group.record) /\ Inserting
        /\ pc[c] = "returning" => result[c] = "ok"

\* Of a batch whose call goes back with OK readers find every entry.
DoneVisible ==
    \A c \in Client : pc[c] = "returning" /\ result[c] = "ok" /\ call[c].batch # 0 =>
        \A i \in 1 .. BatchSize : \E e \in Visible : e.batch = call[c].batch /\ e.index = i

BatchInv == StoredCalled /\ ReturnsOnce /\ StoredInserting /\ DoneVisible

-----------------------------------------------------------------------------
(* The group and its batches.                                               *)

\* A stored entry is of a batch, a batch is of one call.
LEMMA BatchesOwned ==
    ASSUME Core
    PROVE  /\ \A e \in Stored : e.batch \in Nat \ {0} /\ e.sequence \in Nat /\ e \in Entry
           /\ lastSequence \in Nat /\ calls \in Nat /\ pc \in [Client -> Pc]
           /\ \A c \in Client : call[c].batch \in 0 .. calls
           /\ \A c, d \in Client : call[c].batch = call[d].batch /\ call[c].batch # 0 => c = d
<1>1. \A e \in Stored : e \in Entry BY DEF Core, TypeOK, Stored
<1>2. calls \in Nat /\ \A c \in Client : call[c].batch \in 0 .. MaxWrites
  BY WriteQueueAssumption DEF Core, TypeOK, Writer
<1>3. \A e \in Entry : e.batch \in Nat \ {0} /\ e.sequence \in Nat
  BY WriteQueueAssumption DEF Entry, Batch
<1>4. lastSequence \in Nat /\ pc \in [Client -> Pc]
  BY PcType DEF Core, TypeOK
<1>5. \A c \in Client : call[c].batch \in 0 .. calls
  BY <1>2, WriteQueueAssumption DEF Core, CallInv
<1>6. \A c, d \in Client : call[c].batch = call[d].batch /\ call[c].batch # 0 => c = d
  BY DEF Core, CallInv
<1> QED BY <1>1, <1>2, <1>3, <1>4, <1>5, <1>6

\* A batch of the group is that of a thread in the group, and of no other.
LEMMA Owner ==
    ASSUME Core, NEW c \in Client, pc[c] \in Writing
    PROVE  /\ \A d \in Client : InGroup(d) => pc[d] \in Waiting \cup Writing
           /\ \A d \in Client : InGroup(d) /\ call[d].batch # 0
                                => call[d].batch \in group.record.batches
           /\ \A b \in group.record.batches :
                b # 0 /\ \E d \in Client : InGroup(d) /\ call[d].batch = b
           /\ \A e \in Entries(group.record), d \in Client :
                call[d].batch = e.batch => InGroup(d)
<1>1. /\ group.size \in 1 .. Len(writers)
      /\ group.record.batches = {call[writers[i]].batch : i \in 1 .. group.size} \ {0}
  BY DEF Core, GroupInv
<1>2. \A i \in 1 .. group.size : i \in DOMAIN writers /\ writers[i] \in Client
  <2>1. writers \in Seq(Client) /\ group.size \in Nat BY <1>1 DEF Core, TypeOK
  <2> QED BY <1>1, <2>1
<1>3. \A d \in Client : InGroup(d) => pc[d] \in Waiting \cup Writing
  BY <1>2 DEF InGroup, Core, QueueInv
<1>4. \A b \in group.record.batches :
        b # 0 /\ \E d \in Client : InGroup(d) /\ call[d].batch = b
  BY <1>1, <1>2 DEF InGroup
<1>5. \A e \in Entries(group.record) : e.batch \in group.record.batches
  BY NumbersAreNew, RecordEntries
<1>6. ASSUME NEW e \in Entries(group.record), NEW d \in Client, call[d].batch = e.batch
      PROVE  InGroup(d)
  BY <1>4, <1>5, <1>6, BatchesOwned
<1> QED BY <1>1, <1>3, <1>4, <1>6 DEF InGroup

\* The stored batches are left alone and nobody comes to the end of a write.
LEMMA BatchesKept ==
    ASSUME Core, BatchInv, Stored' = Stored, Visible' = Visible,
           UNCHANGED <<acked, failed, calls, call>>,
           (group'.record = group.record /\ (Inserting => Inserting')) \/ ~Inserting,
           \A c \in Client :
                /\ pc'[c] \in Waiting \cup Writing => pc[c] \in Waiting \cup Writing
                /\ pc'[c] = "returning" =>
                    \/ pc[c] = "returning" /\ result'[c] = result[c]
                    \/ pc[c] \in Waiting \cup Writing /\ call[c].batch = 0
    PROVE  BatchInv'
<1>1. StoredCalled' BY DEF BatchInv, StoredCalled
<1>2. ReturnsOnce' BY DEF BatchInv, ReturnsOnce, Running
<1>3. StoredInserting'
  <2> SUFFICES ASSUME NEW e \in Stored, NEW c \in Client, e.batch = call[c].batch
               PROVE  /\ pc'[c] \in Waiting \cup Writing
                         => e \in Entries(group.record)' /\ Inserting'
                      /\ pc'[c] = "returning" => result'[c] = "ok"
    BY DEF StoredInserting
  <2>1. pc'[c] \in Waiting \cup Writing => e \in Entries(group.record)' /\ Inserting'
    BY DEF BatchInv, StoredInserting, Entries
  <2>2. pc'[c] = "returning" => result'[c] = "ok"
    BY BatchesOwned DEF BatchInv, StoredInserting
  <2> QED BY <2>1, <2>2
<1>4. DoneVisible' BY DEF BatchInv, DoneVisible
<1> QED BY <1>1, <1>2, <1>3, <1>4 DEF BatchInv

\* The steps other than Return, Insert and Finish: no entry is stored, none
\* becomes visible, no write comes to its end with OK.
LEMMA QuietBatches ==
    ASSUME Core, BatchInv, Quiet
    PROVE  BatchInv'
<1>1. /\ UNCHANGED <<acked, failed, group>> /\ Stored' = Stored /\ Visible' = Visible
      /\ calls \in Nat /\ calls' \in Nat /\ calls <= calls'
  BY BatchesOwned, WriteQueueAssumption DEF Quiet, Stored, Visible
<1>2. StoredCalled' BY <1>1, BatchesOwned DEF BatchInv, StoredCalled, Stored
<1>3. \A c \in Client : Running(c)' =>
        \/ call'[c] = call[c] /\ Running(c)
        \/ call'[c].batch \in {0, calls + 1} /\ pc'[c] \in Waiting
  BY DEF Quiet, Running, Waiting, Writing
<1>4. ReturnsOnce'
  <2> SUFFICES ASSUME NEW c \in Client, NEW w \in acked \cup failed, Running(c)'
               PROVE  w.batch # call'[c].batch
    BY <1>1 DEF ReturnsOnce
  <2>1. w.batch \in 1 .. calls BY DEF BatchInv, StoredCalled
  <2> QED BY <1>1, <1>3, <2>1 DEF BatchInv, ReturnsOnce
<1>5. Inserting => Inserting' BY <1>1 DEF Inserting, Quiet, Writing
<1>6. Inserting => \A c \in Client : pc[c] # "room"
  <2>1. ASSUME NEW d \in Client, NEW c \in Client, pc[d] \in {"inserting", "inserted"},
               pc[c] = "room"
        PROVE  FALSE
    BY <2>1, FirstWriter DEF Writing, Away
  <2> QED BY <2>1 DEF Inserting
<1>7. StoredInserting'
  <2> SUFFICES ASSUME NEW e \in Stored, NEW c \in Client, e.batch = call'[c].batch
               PROVE  /\ pc'[c] \in Waiting \cup Writing
                         => e \in Entries(group.record) /\ Inserting
                      /\ pc'[c] = "returning" => result'[c] = "ok"
    BY <1>1, <1>5 DEF StoredInserting, Entries
  <2>1. e.batch \in 1 .. calls BY BatchesOwned DEF BatchInv, StoredCalled
  <2>2. CASE call'[c] = call[c] /\ (pc'[c] \in Waiting => pc[c] \in Waiting)
    <3>1. pc'[c] \in Writing => pc[c] \in Writing BY DEF Quiet
    <3>2. pc'[c] = "returning" =>
            \/ pc[c] = "returning" /\ result'[c] = result[c]
            \/ pc[c] = "room" /\ (result'[c] = "error" \/ call[c].batch = 0)
      BY DEF Quiet
    <3>3. /\ pc[c] \in Waiting \cup Writing => e \in Entries(group.record) /\ Inserting
          /\ pc[c] = "returning" => result[c] = "ok"
      BY <2>2 DEF BatchInv, StoredInserting
    <3>4. pc[c] # "room" BY <3>3, <1>6 DEF Waiting
    <3>5. pc'[c] \in Waiting \cup Writing => e \in Entries(group.record) /\ Inserting
      BY <2>2, <3>1, <3>3
    <3>6. pc'[c] = "returning" => result'[c] = "ok" BY <3>2, <3>3, <3>4
    <3> QED BY <3>5, <3>6
  <2>3. CASE call'[c].batch \in {0, calls + 1} BY <1>1, <2>1, <2>3
  <2> QED BY <2>2, <2>3 DEF Quiet
<1>8. DoneVisible'
  <2> SUFFICES ASSUME NEW c \in Client, pc'[c] = "returning", result'[c] = "ok",
                      call'[c].batch # 0
               PROVE  /\ call'[c] = call[c]
                      /\ \A i \in 1 .. BatchSize :
                            \E e \in Visible : e.batch = call[c].batch /\ e.index = i
    BY <1>1 DEF DoneVisible
  <2>1. call'[c] = call[c] BY DEF Quiet, Waiting
  <2>2. pc[c] = "returning" /\ result'[c] = result[c] BY <2>1 DEF Quiet
  <2> QED BY <2>1, <2>2 DEF BatchInv, DoneVisible
<1> QED BY <1>2, <1>4, <1>7, <1>8 DEF BatchInv

\* No group is formed while one is being inserted.
LEMMA NotInserting ==
    ASSUME Core, NEW c \in Client, pc[c] \in (Waiting \ {"queued"}) \cup {"logging", "syncing"}
    PROVE  ~Inserting
<1>1. \A d \in Client : d # c => pc[d] \in {"queued"} \cup Away
  BY FirstWriter DEF Writing
<1> QED BY <1>1 DEF Inserting, Away, Waiting

LEMMA OtherBatches ==
    ASSUME Core, BatchInv, NEW c \in Client,
           \/ FlushApplied \/ ApplyFails
           \/ (FindRoom(c) /\ call[c].batch # 0) \/ SwitchMemTable(c)
           \/ AddRecord(c) \/ AddRecordFails(c) \/ Sync(c) \/ SyncFails(c)
    PROVE  /\ BatchInv' /\ Visible' = Visible /\ UNCHANGED <<calls, acked, failed>>
<1>1. CASE FlushApplied \/ ApplyFails
  <2>1. /\ UNCHANGED <<calls, call, result, group, lastSequence, mem, acked, failed>>
        /\ pc' = SignalAll(pc) /\ mem \cup imm' \cup tables' = mem \cup imm \cup tables
    <3>1. CASE FlushApplied
      BY <3>1 DEF FlushApplied, EndFlush, backgroundLeaves, historyVars
    <3>2. CASE ApplyFails
      BY <3>2 DEF ApplyFails, EndFlush, backgroundLeaves, historyVars
    <3> QED BY <1>1, <3>1, <3>2
  <2>2. Alike(pc, pc') BY <2>1, PcType, Signalled DEF Core
  <2>3. Stored' = Stored /\ Visible' = Visible BY <2>1 DEF Stored, Visible
  <2>4. Inserting => Inserting' BY <2>1, <2>2 DEF Inserting, Alike
  <2>5. \A d \in Client :
          /\ pc'[d] \in Waiting \cup Writing => pc[d] \in Waiting \cup Writing
          /\ pc'[d] = "returning" => pc[d] = "returning" /\ result'[d] = result[d]
    BY <2>1, <2>2 DEF Alike, Waiting, Writing
  <2> QED BY <2>1, <2>3, <2>4, <2>5, BatchesKept
<1>2. CASE (FindRoom(c) /\ call[c].batch # 0) \/ SwitchMemTable(c)
  <2>1. /\ pc[c] = "room" /\ Proceed(c)
        /\ UNCHANGED <<lastSequence, tables, acked, failed>>
        /\ mem' \cup imm' = mem \cup imm
    <3>1. CASE FindRoom(c)
      BY <3>1 DEF FindRoom, InRoom, memoryVars, historyVars
    <3>2. CASE SwitchMemTable(c)
      <4>1. imm = {} BY <3>2 DEF SwitchMemTable, MustWait, Core, TypeOK
      <4> QED BY <3>2, <4>1 DEF SwitchMemTable, InRoom, historyVars
    <3> QED BY <1>2, <3>1, <3>2
  <2>2. Stored' = Stored /\ Visible' = Visible BY <2>1 DEF Stored, Visible
  <2>3. ~Inserting BY <2>1, NotInserting DEF Waiting
  <2>4. /\ UNCHANGED <<calls, call>>
        /\ \A d \in Client :
            /\ pc'[d] \in Waiting \cup Writing => pc[d] \in Waiting \cup Writing
            /\ pc'[d] = "returning" =>
                \/ pc[d] = "returning" /\ result'[d] = result[d]
                \/ pc[d] \in Waiting \cup Writing /\ call[d].batch = 0
    <3>1. CASE call[c].batch # 0
      <4>1. /\ pc' = [pc EXCEPT ![c] = "logging"] /\ UNCHANGED <<call, result, calls>>
        BY <2>1, <3>1, GroupBegins
      <4>2. \A d \in Client : pc'[d] = pc[d] \/ (d = c /\ pc'[d] = "logging")
        BY <4>1, BatchesOwned
      <4> QED BY <2>1, <4>1, <4>2 DEF Waiting
    <3>2. CASE call[c].batch = 0
      <4>1. GiveUp(c, "ok") BY <2>1, <3>2 DEF Proceed
      <4>2. /\ UNCHANGED <<calls, call>>
            /\ \A d \in Client :
                \/ d = c /\ pc'[d] = "returning"
                \/ /\ pc'[d] = pc[d] \/ (pc[d] = "queued" /\ pc'[d] = "signalled")
                   /\ result'[d] = result[d]
        BY <2>1, <4>1, GiveUpKeeps DEF Waiting, Statuses
      <4> QED BY <2>1, <3>2, <4>2 DEF Waiting, Writing
    <3> QED BY <3>1, <3>2
  <2> QED BY <2>1, <2>2, <2>3, <2>4, BatchesKept
<1>3. CASE AddRecord(c) \/ AddRecordFails(c) \/ Sync(c) \/ SyncFails(c)
  <2>1. /\ pc[c] \in {"logging", "syncing"} /\ pc'[c] \in Writing
        /\ \A d \in Client : d # c => pc'[d] = pc[d]
        /\ UNCHANGED <<call, result, lastSequence, imm, tables, acked, failed>>
        /\ UNCHANGED <<calls, mem>>
    BY <1>3, Writes DEF AddRecord, AddRecordFails, Sync, SyncFails, Step, memoryVars
  <2>2. Stored' = Stored /\ Visible' = Visible BY <2>1 DEF Stored, Visible
  <2>3. ~Inserting BY <2>1, NotInserting
  <2>4. \A d \in Client :
          /\ pc'[d] \in Waiting \cup Writing => pc[d] \in Waiting \cup Writing
          /\ pc'[d] = "returning" => pc[d] = "returning" /\ result'[d] = result[d]
    BY <2>1 DEF Writing
  <2> QED BY <2>1, <2>2, <2>3, <2>4, BatchesKept
<1> QED BY <1>1, <1>2, <1>3

-----------------------------------------------------------------------------
(* The steps at which something is stored, becomes visible or returns.      *)

StoreStep == [Store!Next]_(Store!vars)

LEMMA NothingHappens ==
    ASSUME Visible' = Visible, UNCHANGED <<calls, acked, failed>>
    PROVE  StoreStep
BY DEF StoreStep, Store!vars

\* The batch of a call that returns is all there, or nothing of it is.
LEMMA Returns ==
    ASSUME Core, BatchInv, NEW c \in Client, Return(c)
    PROVE  BatchInv' /\ StoreStep
<1> DEFINE b == call[c].batch
           done(status) == IF b # 0 /\ result[c] = status THEN {call[c]} ELSE {}
<1>1. /\ pc[c] = "returning" /\ \E q \in {"flushCheck", "idle"} : pc' = [pc EXCEPT ![c] = q]
      /\ acked' = acked \cup done("ok") /\ failed' = failed \cup done("error")
      /\ UNCHANGED <<call, result, group, calls, lastSequence, mem, imm, tables>>
  BY DEF Return, memoryVars
<1>2. Stored' = Stored /\ Visible' = Visible /\ (Inserting => Inserting')
  <2>1. Stored' = Stored /\ Visible' = Visible BY <1>1 DEF Stored, Visible
  <2>2. \A d \in Client : pc[d] \in {"inserting", "inserted"} => pc'[d] = pc[d]
    BY <1>1, BatchesOwned
  <2> QED BY <1>1, <2>1, <2>2 DEF Inserting
<1>3. /\ pc'[c] \in {"flushCheck", "idle"}
      /\ \A d \in Client : d # c => pc'[d] = pc[d]
  BY <1>1, BatchesOwned
<1>4. b \in 0 .. calls /\ calls \in Nat /\ result[c] \in {"ok", "error"}
  BY BatchesOwned DEF Core, TypeOK
<1>5. \A d \in Client : call[d].batch = b /\ b # 0 => d = c BY BatchesOwned
<1> HIDE DEF b
<1>6. \A w \in acked' \cup failed' : w \in acked \cup failed \/ (w.batch = b /\ b # 0)
  BY <1>1 DEF b
<1>7. BatchInv'
  <2>1. StoredCalled' BY <1>1, <1>2, <1>4, <1>6 DEF BatchInv, StoredCalled
  <2>2. ReturnsOnce'
    BY <1>1, <1>3, <1>5, <1>6 DEF BatchInv, ReturnsOnce, Running, Waiting, Writing
  <2>3. StoredInserting'
    <3> SUFFICES ASSUME NEW e \in Stored, NEW d \in Client, e.batch = call[d].batch
                 PROVE  /\ pc'[d] \in Waiting \cup Writing
                           => e \in Entries(group.record)' /\ Inserting'
                        /\ pc'[d] = "returning" => result[d] = "ok"
      BY <1>1, <1>2 DEF StoredInserting
    <3>1. pc'[d] \in Waiting \cup Writing \cup {"returning"} => pc'[d] = pc[d]
      BY <1>3 DEF Waiting, Writing
    <3>2. pc[d] \in Waiting \cup Writing => e \in Entries(group.record) /\ Inserting
      BY DEF BatchInv, StoredInserting
    <3>3. pc[d] = "returning" => result[d] = "ok"
      BY DEF BatchInv, StoredInserting
    <3> QED BY <1>1, <1>2, <3>1, <3>2, <3>3 DEF Entries
  <2>4. DoneVisible' BY <1>1, <1>2, <1>3 DEF BatchInv, DoneVisible
  <2> QED BY <2>1, <2>2, <2>3, <2>4 DEF BatchInv
<1>8. StoreStep
  <2>1. CASE b = 0 BY <1>1, <1>2, <2>1, NothingHappens DEF b
  <2>2. CASE b # 0 /\ result[c] = "ok"
    <3>1. b \in 1 .. calls BY <2>2, <1>4
    <3>2. acked' = acked \cup {call[c]} /\ failed' = failed BY <1>1, <2>2 DEF b
    <3>3. \A i \in 1 .. BatchSize : \E e \in Visible : e.batch = b /\ e.index = i
      BY <1>1, <2>2 DEF BatchInv, DoneVisible, b
    <3>4. Store!Whole({b}) \subseteq {<<e.batch, e.index>> : e \in Visible}
      BY <3>3 DEF Store!Whole
    <3>5. {w.batch : w \in acked}' = {w.batch : w \in acked} \cup {b} BY <3>2 DEF b
    <3>6. Store!ReturnOK(b) BY <1>1, <1>2, <3>2, <3>4, <3>5 DEF Store!ReturnOK
    <3>7. \E batch \in 1 .. calls : Store!ReturnOK(batch) \/ Store!ReturnError(batch)
      BY <3>1, <3>6 DEF Store!ReturnOK, Store!ReturnError
    <3>8. Store!Next BY <3>7 DEF Store!Next
    <3> QED BY <3>8 DEF StoreStep
  <2>3. CASE b # 0 /\ result[c] = "error"
    <3>1. b \in 1 .. calls BY <2>3, <1>4
    <3>2. failed' = failed \cup {call[c]} /\ acked' = acked BY <1>1, <2>3 DEF b
    <3>3. \A e \in Visible : e.batch # b
      BY <1>1, <2>3 DEF BatchInv, StoredInserting, b, Visible, Stored
    <3>4. Store!Whole({b}) \cap {<<e.batch, e.index>> : e \in Visible} = {}
      BY <3>3 DEF Store!Whole
    <3>5. {w.batch : w \in failed}' = {w.batch : w \in failed} \cup {b} BY <3>2 DEF b
    <3>6. Store!ReturnError(b) BY <1>1, <1>2, <3>2, <3>4, <3>5 DEF Store!ReturnError
    <3>7. \E batch \in 1 .. calls : Store!ReturnOK(batch) \/ Store!ReturnError(batch)
      BY <3>1, <3>6 DEF Store!ReturnOK, Store!ReturnError
    <3>8. Store!Next BY <3>7 DEF Store!Next
    <3> QED BY <3>8 DEF StoreStep
  <2> QED BY <1>4, <2>1, <2>2, <2>3
<1> QED BY <1>7, <1>8

\* An entry that is inserted is not yet visible.
LEMMA Inserts ==
    ASSUME Core, BatchInv, NEW c \in Client, Insert(c)
    PROVE  BatchInv' /\ StoreStep
<1> DEFINE left == Entries(group.record) \ mem
           entry == CHOOSE e \in left : \A f \in left : e.sequence <= f.sequence
<1>1. /\ pc[c] = "inserting" /\ pc'[c] \in {"inserting", "inserted"}
      /\ group'.status = "ok" /\ group'.record = group.record
      /\ \A d \in Client : d # c => pc'[d] = pc[d] /\ pc[d] \notin Writing
      /\ UNCHANGED <<call, result, lastSequence, imm, tables, acked, failed>>
  BY Writes
<1>2. mem' = mem \cup {entry} /\ UNCHANGED calls BY DEF Insert, Step
<1>3. entry \in Entries(group.record)
  <2>1. group.record \in Record BY <1>1, NumbersAreNew DEF Writing
  <2>2. ~(Entries(group.record) \subseteq mem) BY <1>1 DEF Core, EntryInv
  <2> QED BY <2>1, <2>2, NextEntry
<1> HIDE DEF entry
<1>4. entry.batch \in group.record.batches /\ lastSequence < entry.sequence /\ entry \in Entry
  BY <1>1, <1>3, NumbersAreNew, RecordEntries DEF Writing
<1>5. PICK d \in Client : InGroup(d) /\ call[d].batch = entry.batch
  BY <1>1, <1>4, Owner DEF Writing
<1>6. pc[d] \in Waiting \cup Writing BY <1>1, <1>5, Owner DEF Writing
<1>7. \A f \in Client : call[f].batch = entry.batch => f = d
  <2>1. entry.batch # 0 BY <1>1, <1>4, Owner DEF Writing
  <2> QED BY <1>5, <2>1, BatchesOwned
<1>8. Stored' = Stored \cup {entry} /\ Visible' = Visible
  <2>1. Stored' = Stored \cup {entry} BY <1>1, <1>2 DEF Stored
  <2>2. ~(entry.sequence <= lastSequence) BY <1>4, BatchesOwned DEF Entry
  <2> QED BY <1>1, <1>2, <2>1, <2>2 DEF Visible
<1>9. Inserting' /\ Entries(group.record)' = Entries(group.record)
  BY <1>1 DEF Inserting, Entries
<1>10. \A f \in Client :
        /\ pc'[f] \in Waiting \cup Writing => pc[f] \in Waiting \cup Writing
        /\ pc'[f] = "returning" => pc[f] = "returning"
  BY <1>1 DEF Writing
<1>11. StoredCalled'
  BY <1>1, <1>2, <1>5, <1>8, BatchesOwned DEF BatchInv, StoredCalled
<1>12. ReturnsOnce' BY <1>1, <1>10 DEF BatchInv, ReturnsOnce, Running
<1>13. StoredInserting'
  <2> SUFFICES ASSUME NEW e \in Stored \cup {entry}, NEW f \in Client, e.batch = call[f].batch
               PROVE  /\ pc'[f] \in Waiting \cup Writing => e \in Entries(group.record)
                      /\ pc'[f] = "returning" => result[f] = "ok"
    BY <1>1, <1>8, <1>9 DEF StoredInserting
  <2>1. CASE e = entry
    <3>1. f = d BY <2>1, <1>7
    <3>2. pc'[f] # "returning" BY <3>1, <1>6, <1>10 DEF Waiting, Writing
    <3> QED BY <2>1, <3>2, <1>3
  <2>2. CASE e \in Stored BY <2>2, <1>10 DEF BatchInv, StoredInserting
  <2> QED BY <2>1, <2>2
<1>14. DoneVisible' BY <1>1, <1>8, <1>10 DEF BatchInv, DoneVisible
<1>15. StoreStep BY <1>1, <1>2, <1>8, NothingHappens
<1> QED BY <1>11, <1>12, <1>13, <1>14, <1>15 DEF BatchInv

\* The entries of a group become visible together, or are not there.
LEMMA Commits ==
    ASSUME Core, BatchInv, NEW c \in Client, Finish(c)
    PROVE  BatchInv' /\ StoreStep
<1> DEFINE n == BatchSize * Cardinality(group.record.batches)
<1>1. /\ pc[c] = "inserted" /\ \A d \in Client : pc'[d] \notin Writing
      /\ lastSequence' = lastSequence + n
      /\ UNCHANGED <<call, calls, mem, imm, tables, acked, failed>>
      /\ \A d \in Client :
            IF InGroup(d) THEN pc'[d] = "returning" /\ result'[d] = group.status
            ELSE /\ pc'[d] = "returning" => pc[d] = "returning"
                 /\ pc'[d] \in Waiting => pc[d] \in Waiting
                 /\ result'[d] = result[d]
  BY Finishes
<1>2. pc[c] \in Writing /\ group.record \in Record /\ group.record.first = lastSequence + 1
  BY <1>1, NumbersAreNew DEF Writing
<1>3. n \in Nat BY <1>2, WriteQueueAssumption, BatchesFinite, Products DEF Record
<1>4. \A e \in Entries(group.record) :
        /\ e.batch \in group.record.batches /\ e.sequence \in Nat
        /\ lastSequence < e.sequence /\ e.sequence <= lastSequence'
  <2>1. \A e \in Entries(group.record) :
            /\ e.batch \in group.record.batches /\ e.sequence \in Nat
            /\ lastSequence < e.sequence /\ e.sequence < group.record.first + n
    BY <1>2, NumbersAreNew, RecordEntries DEF Entry
  <2> HIDE DEF n
  <2> QED BY <2>1, <1>1, <1>2, <1>3, BatchesOwned
<1> HIDE DEF n
<1>5. Stored' = Stored BY <1>1 DEF Stored
<1>6. Visible \subseteq Visible'
  <2>1. \A e \in Stored : e.sequence <= lastSequence => e.sequence <= lastSequence'
    BY <1>1, <1>3, BatchesOwned
  <2> QED BY <1>1, <2>1 DEF Visible, Stored
<1>7. group.status = "ok" => Visible' = Visible \cup Entries(group.record)
  <2> SUFFICES ASSUME group.status = "ok" PROVE Visible' = Visible \cup Entries(group.record)
    OBVIOUS
  <2>1. Entries(group.record) \subseteq Stored BY <1>1 DEF Core, EntryInv, Stored
  <2>2. \A e \in Stored : e.sequence <= lastSequence \/ e \in Entries(group.record)
    BY DEF Core, EntryInv
  <2> QED BY <1>1, <1>4, <1>5, <1>6, <2>1, <2>2 DEF Visible, Stored
<1>8. group.status # "ok" => Visible' = Visible
  <2> SUFFICES ASSUME group.status # "ok" PROVE Visible' = Visible
    OBVIOUS
  <2>1. \A e \in Stored : e.sequence <= lastSequence
    BY <1>2, NumbersAreNew DEF Core, TypeOK
  <2> QED BY <1>5, <1>6, <2>1 DEF Visible, Stored
<1>9. /\ \A d \in Client : InGroup(d) => pc[d] \in Waiting \cup Writing
      /\ \A d \in Client : InGroup(d) /\ call[d].batch # 0
                           => call[d].batch \in group.record.batches
      /\ \A b \in group.record.batches :
            b # 0 /\ \E d \in Client : InGroup(d) /\ call[d].batch = b
      /\ \A e \in Entries(group.record), d \in Client :
            call[d].batch = e.batch => InGroup(d)
  BY <1>2, Owner
<1>10. BatchInv'
  <2>1. StoredCalled' BY <1>1, <1>5 DEF BatchInv, StoredCalled
  <2>2. \A d \in Client : Running(d)' => Running(d) BY <1>1, <1>9 DEF Running
  <2>3. ReturnsOnce' BY <1>1, <2>2 DEF BatchInv, ReturnsOnce
  <2>4. StoredInserting'
    <3> SUFFICES ASSUME NEW e \in Stored, NEW d \in Client, e.batch = call[d].batch
                 PROVE  pc'[d] \notin Waiting \cup Writing
                        /\ (pc'[d] = "returning" => result'[d] = "ok")
      BY <1>1, <1>5 DEF StoredInserting
    <3>1. /\ pc[d] \in Waiting \cup Writing => e \in Entries(group.record) /\ Inserting
          /\ pc[d] = "returning" => result[d] = "ok"
      BY DEF BatchInv, StoredInserting
    <3>2. CASE InGroup(d)
      <4>1. group.status = "ok" BY <1>9, <3>1, <3>2 DEF Inserting
      <4> QED BY <1>1, <3>2, <4>1 DEF Waiting
    <3>3. CASE ~InGroup(d)
      <4>1. pc[d] \notin Waiting BY <1>9, <3>1, <3>3
      <4> QED BY <1>1, <3>1, <3>3, <4>1
    <3> QED BY <3>2, <3>3
  <2>5. DoneVisible'
    <3> SUFFICES ASSUME NEW d \in Client, pc'[d] = "returning", result'[d] = "ok",
                        call[d].batch # 0, NEW i \in 1 .. BatchSize
                 PROVE  \E e \in Visible' : e.batch = call[d].batch /\ e.index = i
      BY <1>1 DEF DoneVisible
    <3>1. CASE InGroup(d)
      <4>1. group.status = "ok" /\ call[d].batch \in group.record.batches
        BY <1>1, <1>9, <3>1
      <4>2. \E e \in Entries(group.record) : e.batch = call[d].batch /\ e.index = i
        BY <1>2, <4>1, RecordEntries
      <4> QED BY <1>7, <4>1, <4>2
    <3>2. CASE ~InGroup(d)
      <4>1. pc[d] = "returning" /\ result[d] = "ok" BY <1>1, <3>2
      <4> QED BY <1>6, <4>1 DEF BatchInv, DoneVisible
    <3> QED BY <3>1, <3>2
  <2> QED BY <2>1, <2>3, <2>4, <2>5 DEF BatchInv
<1>11. CASE group.status # "ok" BY <1>1, <1>8, <1>10, <1>11, NothingHappens
<1>12. CASE group.status = "ok"
  <2> DEFINE B == group.record.batches
  <2>1. B \in SUBSET (1 .. calls) BY <1>9, BatchesOwned
  <2>2. B \cap {w.batch : w \in failed} = {}
    BY <1>9 DEF BatchInv, ReturnsOnce, Running
  <2>3. \A e \in Visible : e.batch \notin B
    <3> SUFFICES ASSUME NEW e \in Visible, e.batch \in B PROVE FALSE
      OBVIOUS
    <3>1. e \in Stored /\ e.sequence <= lastSequence BY DEF Visible, Stored
    <3>2. PICK d \in Client : InGroup(d) /\ call[d].batch = e.batch BY <1>9
    <3>3. e \in Entries(group.record) BY <1>9, <3>1, <3>2 DEF BatchInv, StoredInserting
    <3> QED BY <1>4, <3>1, <3>3, BatchesOwned
  <2>4. Store!Whole(B) \cap {<<e.batch, e.index>> : e \in Visible} = {}
    BY <2>3 DEF Store!Whole
  <2>5. {<<e.batch, e.index>> : e \in Entries(group.record)} = Store!Whole(B)
    <3>1. \A e \in Entries(group.record) : e.batch \in B /\ e.index \in 1 .. BatchSize
      BY <1>2, <1>4, RecordEntries DEF Entry
    <3>2. \A b \in B, i \in 1 .. BatchSize :
            \E e \in Entries(group.record) : e.batch = b /\ e.index = i
      BY <1>2, RecordEntries
    <3> QED BY <3>1, <3>2 DEF Store!Whole
  <2>6. {<<e.batch, e.index>> : e \in Visible}'
            = {<<e.batch, e.index>> : e \in Visible} \cup Store!Whole(B)
    BY <1>7, <1>12, <2>5
  <2>7. Store!Commit(B) BY <1>1, <2>2, <2>4, <2>6 DEF Store!Commit
  <2>8. \E batches \in SUBSET (1 .. calls) : Store!Commit(batches)
    BY <2>1, <2>7 DEF Store!Commit
  <2>9. Store!Next BY <2>8 DEF Store!Next
  <2> QED BY <1>10, <2>9 DEF StoreStep
<1> QED BY <1>11, <1>12

LEMMA BatchNext ==
    ASSUME Core, BatchInv, [Next]_vars
    PROVE  BatchInv' /\ StoreStep
<1>1. CASE Quiet
  <2>1. Visible' = Visible /\ UNCHANGED <<acked, failed>> BY <1>1 DEF Quiet, Visible
  <2>2. CASE calls' = calls BY <1>1, <2>1, <2>2, QuietBatches, NothingHappens
  <2>3. CASE calls < MaxWrites /\ calls' = calls + 1
    <3>1. Store!Call BY <2>1, <2>3 DEF Store!Call
    <3>2. Store!Next BY <3>1 DEF Store!Next
    <3> QED BY <1>1, <3>2, QuietBatches DEF StoreStep
  <2> QED BY <1>1, <2>2, <2>3 DEF Quiet
<1>2. CASE FlushApplied \/ ApplyFails
  <2>1. CASE Client = {}
    <3>1. UNCHANGED <<mem, group, call, calls, lastSequence, acked, failed>>
      BY <1>2 DEF FlushApplied, ApplyFails, backgroundLeaves, historyVars
    <3>2. mem \cup imm' \cup tables' = mem \cup imm \cup tables
      BY <1>2 DEF FlushApplied, ApplyFails
    <3>3. Stored' = Stored /\ Visible' = Visible BY <3>1, <3>2 DEF Stored, Visible
    <3>4. BatchInv'
      BY <2>1, <3>1, <3>3
      DEF BatchInv, StoredCalled, ReturnsOnce, StoredInserting, DoneVisible
    <3> QED BY <3>1, <3>3, <3>4, NothingHappens
  <2>2. ASSUME NEW c \in Client PROVE BatchInv' /\ StoreStep
    BY <1>2, OtherBatches, NothingHappens
  <2> QED BY <2>1, <2>2
<1>3. ASSUME NEW c \in Client,
             \/ (FindRoom(c) /\ call[c].batch # 0) \/ SwitchMemTable(c)
             \/ AddRecord(c) \/ AddRecordFails(c) \/ Sync(c) \/ SyncFails(c)
      PROVE  BatchInv' /\ StoreStep
  BY <1>3, OtherBatches, NothingHappens
<1> QED BY <1>1, <1>2, <1>3, Returns, Inserts, Commits, Steps

\* Whoever writes, reads and fails at the same time, readers find what a store
\* would hold that takes up whole batches in single steps, and a write returns OK
\* only for a batch that is all there, an error only for one of which there is
\* nothing. (DBImpl::Write, WriteBatchInternal::InsertInto, DBImpl::Get.)
THEOREM WriteQueueImplementsAtomicWrites == Spec => ImplementsAtomicWrites
<1>1. Init => BatchInv /\ Store!Init
  <2> SUFFICES ASSUME Init PROVE BatchInv /\ Store!Init
    OBVIOUS
  <2>1. /\ Stored = {} /\ Visible = {} /\ acked = {} /\ failed = {} /\ calls = 0
        /\ \A c \in Client : pc[c] = "idle"
    BY DEF Init, Stored, Visible
  <2>2. BatchInv
    BY <2>1 DEF BatchInv, StoredCalled, ReturnsOnce, StoredInserting, DoneVisible, Running,
                Waiting, Writing
  <2> QED BY <2>1, <2>2 DEF Store!Init
<1>2. Core /\ BatchInv /\ [Next]_vars => BatchInv' /\ [Store!Next]_(Store!vars)
  BY BatchNext DEF StoreStep
<1> QED BY <1>1, <1>2, CoreAlways, PTL DEF Spec, ImplementsAtomicWrites, Store!Spec
===============================================================================
