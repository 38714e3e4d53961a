-------------------------- MODULE SearchFeedProofs --------------------------
(* Theorems about SearchFeed and PatientFeed, for every service and every    *)
(* number of key strokes.                                                    *)
EXTENDS PatientFeed, FiniteSetTheorems, SequenceTheorems, TLAPS

-----------------------------------------------------------------------------
(* Lemmas about the service's answers. *)

LEMMA PagesOfType ==
    ASSUME NEW q \in Text
    PROVE  PagesOf(q) \in Nat
<1>1. Total[q] \in Nat BY TotalAssumption
<1>2. PageSize \in Nat /\ PageSize >= 1 BY PageSizeAssumption
<1> DEFINE m == Total[q] + PageSize - 1
<1>3. m \in Nat BY <1>1, <1>2
<1>4. m \div PageSize \in Nat
  <2> HIDE DEF m
  <2> QED BY <1>2, <1>3
<1> QED BY <1>4 DEF PagesOf

\* Every answer is a sequence of photos of the query asked for.
LEMMA ResultsType ==
    ASSUME NEW q \in Text, NEW p \in Nat \ {0}
    PROVE  /\ Results(q, p) \in Seq(Photo)
           /\ \A i \in DOMAIN Results(q, p) : Results(q, p)[i].query = q
<1>1. Total[q] \in Nat BY TotalAssumption
<1>2. PageSize \in Nat /\ PageSize >= 1 BY PageSizeAssumption
<1> DEFINE from == (p - 1) * PageSize + 1
           to == Least(p * PageSize, Total[q])
<1>3. from \in Nat /\ from >= 1
  <2>1. p - 1 \in Nat OBVIOUS
  <2>2. (p - 1) * PageSize \in Nat BY <2>1, <1>2
  <2> QED BY <2>2
<1>4. to \in Int
  <2>1. p * PageSize \in Nat BY <1>2
  <2> QED BY <2>1, <1>1 DEF Least
<1>5. Results(q, p) = Slice(q, from, to) BY DEF Results
<1> HIDE DEF from, to
<1>6. \A n \in 1 .. (to - from + 1) :
         [query |-> q, index |-> from + n - 1] \in Photo
  BY <1>3, <1>4 DEF Photo
<1>7. CASE to - from + 1 \in Nat
  <2>1. Slice(q, from, to) \in Seq(Photo)
    BY <1>6, <1>7, IsASeq DEF Slice
  <2> QED BY <2>1, <1>5 DEF Slice
<1>8. CASE to - from + 1 \notin Nat
  <2>1. 1 .. (to - from + 1) = {} BY <1>3, <1>4, <1>8
  <2>2. Slice(q, from, to) = << >> BY <2>1 DEF Slice
  <2> QED BY <2>2, <1>5
<1> QED BY <1>7, <1>8

-----------------------------------------------------------------------------
(* Lemmas about the sequences of timers and requests. *)

LEMMA RemoveAtType ==
    ASSUME NEW S, NEW s \in Seq(S), NEW i \in DOMAIN s
    PROVE  RemoveAt(s, i) \in Seq(S)
<1>1. i \in 1 .. Len(s) /\ Len(s) \in Nat OBVIOUS
<1>2. SubSeq(s, 1, i - 1) \in Seq(S) BY <1>1
<1>3. SubSeq(s, i + 1, Len(s)) \in Seq(S) BY <1>1
<1> QED BY <1>2, <1>3 DEF RemoveAt

\* What is left are requests that were there.
LEMMA RemoveAtElements ==
    ASSUME NEW S, NEW s \in Seq(S), NEW i \in DOMAIN s
    PROVE  \A j \in DOMAIN RemoveAt(s, i) :
              \E k \in DOMAIN s : RemoveAt(s, i)[j] = s[k]
<1> DEFINE a == SubSeq(s, 1, i - 1)
           b == SubSeq(s, i + 1, Len(s))
<1>1. i \in 1 .. Len(s) /\ Len(s) \in Nat OBVIOUS
<1>2. a \in Seq(S) /\ Len(a) = i - 1 /\ \A j \in 1 .. i - 1 : a[j] = s[j]
  BY <1>1
<1>3. b \in Seq(S) /\ Len(b) = Len(s) - i /\ \A j \in 1 .. Len(s) - i : b[j] = s[i + j]
  BY <1>1
<1>4. RemoveAt(s, i) = a \o b BY DEF RemoveAt
<1> HIDE DEF a, b
<1>5. \A j \in DOMAIN (a \o b) : \E k \in DOMAIN s : (a \o b)[j] = s[k]
  <2> TAKE j \in DOMAIN (a \o b)
  <2>1. j \in 1 .. Len(s) - 1 BY <1>1, <1>2, <1>3
  <2>2. CASE j <= i - 1
    <3>1. (a \o b)[j] = s[j] BY <1>1, <1>2, <1>3, <2>1, <2>2
    <3> QED BY <1>1, <2>1, <3>1
  <2>3. CASE j > i - 1
    <3>1. (a \o b)[j] = s[j + 1] BY <1>1, <1>2, <1>3, <2>1, <2>3
    <3>2. j + 1 \in DOMAIN s BY <1>1, <2>1
    <3> QED BY <3>1, <3>2
  <2> QED BY <1>1, <2>1, <2>2, <2>3
<1> QED BY <1>4, <1>5

\* Removing the oldest request shifts the others by one.
LEMMA DropOldest ==
    ASSUME NEW S, NEW s \in Seq(S), 1 \in DOMAIN s
    PROVE  /\ RemoveAt(s, 1) \in Seq(S)
           /\ Len(RemoveAt(s, 1)) = Len(s) - 1
           /\ \A j \in 1 .. Len(s) - 1 : RemoveAt(s, 1)[j] = s[j + 1]
<1>1. Len(s) \in Nat /\ Len(s) >= 1 OBVIOUS
<1>2. SubSeq(s, 1, 0) = << >> BY SubSeqEmpty
<1>3. /\ SubSeq(s, 2, Len(s)) \in Seq(S)
      /\ Len(SubSeq(s, 2, Len(s))) = Len(s) - 1
      /\ \A j \in 1 .. Len(s) - 1 : SubSeq(s, 2, Len(s))[j] = s[j + 1]
  <2>1. Tail(s) = SubSeq(s, 2, Len(s)) BY <1>1, TailIsSubSeq
  <2>2. /\ Tail(s) \in Seq(S)
        /\ Len(Tail(s)) = Len(s) - 1
        /\ \A j \in 1 .. Len(s) - 1 : Tail(s)[j] = s[j + 1]
    BY <1>1
  <2> QED BY <2>1, <2>2
<1>4. RemoveAt(s, 1) = << >> \o SubSeq(s, 2, Len(s)) BY <1>2 DEF RemoveAt
<1> DEFINE t == SubSeq(s, 2, Len(s))
           r == RemoveAt(s, 1)
<1>5. t \in Seq(S) /\ Len(t) = Len(s) - 1 /\ \A j \in 1 .. Len(s) - 1 : t[j] = s[j + 1]
  BY <1>3
<1>6. r = << >> \o t BY <1>4
<1> HIDE DEF t, r
<1>7. r = t BY <1>5, <1>6, ConcatEmptySeq
<1>8. r \in Seq(S) /\ Len(r) = Len(s) - 1 /\ \A j \in 1 .. Len(s) - 1 : r[j] = s[j + 1]
  BY <1>5, <1>7
<1> QED BY <1>8 DEF r

-----------------------------------------------------------------------------
LEMMA TypeOKNext ==
    ASSUME TypeOK, [Next]_vars
    PROVE  TypeOK'
<1> USE DEF TypeOK
<1>1. ASSUME NEW text \in Text, TextDidChange(text) PROVE TypeOK'
  BY <1>1, MaxKeystrokesAssumption DEF TextDidChange, SearchTimer, Timer
<1>2. ASSUME NEW row \in DOMAIN photos, WillDisplay(row) PROVE TypeOK'
  BY <1>2 DEF WillDisplay, PageTimer, Timer
<1>3. CASE TimerFires
  <2>1. Head(timers) \in Timer BY <1>3 DEF TimerFires
  <2>2. RequestOf(Head(timers)) \in Request
    BY <2>1 DEF RequestOf, Timer, Request
  <2> QED BY <1>3, <2>2 DEF TimerFires
<1>4. ASSUME NEW i \in DOMAIN requests, Receive(i) PROVE TypeOK'
  <2>1. requests[i] \in Request OBVIOUS
  <2>2. requests' \in Seq(Request) BY <1>4, RemoveAtType DEF Receive, Answered
  <2>3. PagesOf(requests[i].query) \in Nat BY <2>1, PagesOfType DEF Request
  <2>4. Results(requests[i].query, requests[i].page) \in Seq(Photo)
    BY <2>1, ResultsType DEF Request
  <2>5. photos' \in Seq(Photo) BY <1>4, <2>4 DEF Receive, Apply
  <2> QED BY <1>4, <2>2, <2>3, <2>5 DEF Receive, Answered, Apply
<1>5. ASSUME NEW i \in DOMAIN requests, ReceiveNothing(i) PROVE TypeOK'
  <2>1. requests' \in Seq(Request)
    BY <1>5, RemoveAtType DEF ReceiveNothing, Answered
  <2> QED BY <1>5, <2>1 DEF ReceiveNothing, Answered
<1>6. CASE UNCHANGED vars BY <1>6 DEF vars
<1> QED BY <1>1, <1>2, <1>3, <1>4, <1>5, <1>6 DEF Next

LEMMA TypeOKInit == Init => TypeOK
BY TextAssumption, MaxKeystrokesAssumption DEF Init, TypeOK, Request

\* Every variable keeps its type, for every service.
THEOREM SearchFeedTypeOK == Spec => []TypeOK
<1>1. TypeOK /\ [Next]_vars => TypeOK' BY TypeOKNext
<1> QED BY <1>1, TypeOKInit, PTL DEF Spec

-----------------------------------------------------------------------------
(* The invariant behind ShowsSearch.  The timers and the requests form one  *)
(* pipeline; its last search is the one for searchedText, and what follows  *)
(* that search belongs to the same text.                                    *)

LastSearchTimer(i) ==
    /\ IsSearch(timers[i])
    /\ \A j \in DOMAIN timers : j > i => ~IsSearch(timers[j])

NoSearchTimer == \A i \in DOMAIN timers : ~IsSearch(timers[i])

\* From position k on, the requests are page loads of the current text.
PagesFrom(k) ==
    \A j \in DOMAIN requests :
        j >= k => ~IsSearch(requests[j]) /\ requests[j].query = searchedText

OnItsWay ==
    \E k \in DOMAIN requests :
        /\ IsSearch(requests[k])
        /\ requests[k].query = searchedText
        /\ PagesFrom(k + 1)

Arrived == Shows(searchedText) /\ PagesFrom(1)

SearchInv ==
    /\ \A i \in DOMAIN timers : LastSearchTimer(i) => timers[i].text = searchedText
    /\ \A j \in DOMAIN requests : IsSearch(requests[j]) => requests[j].page = 1
    /\ keystrokes > 0 /\ inOrder /\ NoSearchTimer => OnItsWay \/ Arrived

\* The first page of a text puts that text on the screen.
LEMMA ShowsFirst ==
    ASSUME NEW q \in Text, photos' = Results(q, 1), TotalPages' = PagesOf(q)
    PROVE  Shows(q)'
<1> DEFINE first == Results(q, 1)
<1>1. first \in Seq(Photo) /\ \A i \in DOMAIN first : first[i].query = q
  BY ResultsType
<1>2. photos' = first OBVIOUS
<1> HIDE DEF first
<1>3. IsPrefix(first, photos') BY <1>1, <1>2 DEF IsPrefix
<1>4. Results(q, 1)' = first BY DEF first, Results, Slice, Least
<1>5. PagesOf(q)' = PagesOf(q) BY DEF PagesOf
<1> QED BY <1>1, <1>2, <1>3, <1>4, <1>5 DEF Shows

\* A page of the text on screen leaves the screen with that text.
LEMMA ShowsExtended ==
    ASSUME NEW q \in Text, NEW p \in Nat \ {0}, photos \in Seq(Photo), Shows(q),
           photos' = photos \o Results(q, p), TotalPages' = PagesOf(q)
    PROVE  Shows(q)'
<1> DEFINE first == Results(q, 1)
           more == Results(q, p)
<1>1. /\ first \in Seq(Photo)
      /\ more \in Seq(Photo)
      /\ \A i \in DOMAIN more : more[i].query = q
  BY ResultsType
<1>2. photos' = photos \o more /\ IsPrefix(first, photos)
      /\ \A i \in DOMAIN photos : photos[i].query = q
  BY DEF Shows
<1> HIDE DEF first, more
<1>3. /\ Len(photos') = Len(photos) + Len(more)
      /\ photos' \in Seq(Photo)
      /\ \A i \in 1 .. Len(photos) : photos'[i] = photos[i]
      /\ \A i \in Len(photos) + 1 .. Len(photos) + Len(more) :
            photos'[i] = more[i - Len(photos)]
  BY <1>1, <1>2
<1>4. Len(first) <= Len(photos)
      /\ SubSeq(first, 1, Len(first)) = SubSeq(photos, 1, Len(first))
  BY <1>2 DEF IsPrefix
<1>5. SubSeq(photos', 1, Len(first)) = SubSeq(photos, 1, Len(first))
  BY <1>1, <1>3, <1>4
<1>6. IsPrefix(first, photos')
  BY <1>1, <1>3, <1>4, <1>5 DEF IsPrefix
<1>7. \A i \in DOMAIN photos' : photos'[i].query = q
  BY <1>1, <1>2, <1>3
<1>8. Results(q, 1)' = first BY DEF first, Results, Slice, Least
<1>9. PagesOf(q)' = PagesOf(q) BY DEF PagesOf
<1> QED BY <1>6, <1>7, <1>8, <1>9 DEF Shows

\* SearchInv and the type invariant are inductive together.
LEMMA SearchInvInit == Init => SearchInv
BY DEF Init, SearchInv, IsSearch

LEMMA FirstRequest ==
    ASSUME TypeOK, 1 \in DOMAIN requests
    PROVE  requests[1].query \in Text /\ requests[1].page \in Nat \ {0}
<1>1. requests[1] \in Request BY DEF TypeOK
<1> QED BY <1>1 DEF Request

LEMMA SearchInvNext ==
    ASSUME TypeOK, TypeOK', SearchInv, [Next]_vars
    PROVE  SearchInv'
<1> USE DEF TypeOK
<1>1. ASSUME NEW text \in Text, TextDidChange(text) PROVE SearchInv'
  <2>1. /\ timers' = Append(timers, SearchTimer(text))
        /\ searchedText' = text
        /\ requests' = requests
    BY <1>1 DEF TextDidChange
  <2>2. /\ Len(timers') = Len(timers) + 1
        /\ timers'[Len(timers) + 1] = SearchTimer(text)
        /\ Len(timers) + 1 \in DOMAIN timers'
    BY <2>1
  <2>3. IsSearch(timers'[Len(timers) + 1])
        /\ timers'[Len(timers) + 1].text = searchedText'
    BY <2>1, <2>2 DEF SearchTimer, IsSearch
  <2>4. \A i \in DOMAIN timers' : LastSearchTimer(i)' => i = Len(timers) + 1
    BY <2>1, <2>2, <2>3 DEF LastSearchTimer
  <2>5. ~NoSearchTimer' BY <2>2, <2>3 DEF NoSearchTimer
  <2> QED BY <2>1, <2>3, <2>4, <2>5 DEF SearchInv
<1>2. ASSUME NEW row \in DOMAIN photos, WillDisplay(row) PROVE SearchInv'
  <2>1. /\ timers' = Append(timers, PageTimer)
        /\ UNCHANGED <<photos, TotalPages, searchedText, requests, keystrokes, inOrder>>
    BY <1>2 DEF WillDisplay
  <2>2. ~IsSearch(PageTimer) BY DEF IsSearch, PageTimer
  <2>3. \A i \in DOMAIN timers' :
           IsSearch(timers'[i]) => i \in DOMAIN timers /\ timers'[i] = timers[i]
    BY <2>1, <2>2
  <2>4. \A i \in DOMAIN timers : i \in DOMAIN timers' /\ timers'[i] = timers[i]
    BY <2>1
  <2>5. \A i \in DOMAIN timers' : LastSearchTimer(i)' =>
           timers'[i].text = searchedText'
    BY <2>1, <2>3, <2>4 DEF LastSearchTimer, SearchInv
  <2>6. NoSearchTimer' => NoSearchTimer BY <2>4 DEF NoSearchTimer
  <2>7. (OnItsWay \/ Arrived) => (OnItsWay \/ Arrived)'
    BY <2>1 DEF OnItsWay, Arrived, PagesFrom, Shows
  <2> QED BY <2>1, <2>5, <2>6, <2>7 DEF SearchInv
<1>3. CASE TimerFires
  <2> DEFINE head == Head(timers)
             sent == RequestOf(head)
  <2>1. /\ timers # << >>
        /\ timers' = Tail(timers)
        /\ requests' = Append(requests, sent)
        /\ UNCHANGED <<photos, currentPage, TotalPages, searchedText, keystrokes, inOrder>>
    BY <1>3 DEF TimerFires
  <2>2. /\ 1 \in DOMAIN timers
        /\ head = timers[1]
        /\ \A i \in DOMAIN timers' :
              /\ i + 1 \in DOMAIN timers
              /\ timers'[i] = timers[i + 1]
        /\ \A j \in DOMAIN timers : j > 1 => j - 1 \in DOMAIN timers'
    BY <2>1
  <2>3. /\ Len(requests') = Len(requests) + 1
        /\ DOMAIN requests' = 1 .. Len(requests) + 1
        /\ requests'[Len(requests) + 1] = sent
        /\ \A j \in DOMAIN requests : j \in DOMAIN requests' /\ requests'[j] = requests[j]
        /\ \A j \in DOMAIN requests' : j \in DOMAIN requests \/ j = Len(requests) + 1
        /\ Len(requests) + 1 \in DOMAIN requests'
        /\ Len(requests) \in Nat /\ DOMAIN requests = 1 .. Len(requests)
    BY <2>1
  <2> HIDE DEF head, sent
  <2>4. \A i \in DOMAIN timers' : LastSearchTimer(i)' => LastSearchTimer(i + 1)
    <3> SUFFICES ASSUME NEW i \in DOMAIN timers', LastSearchTimer(i)'
                 PROVE  LastSearchTimer(i + 1)
      OBVIOUS
    <3>1. IsSearch(timers[i + 1]) BY <2>2 DEF LastSearchTimer
    <3>2. ASSUME NEW j \in DOMAIN timers, j > i + 1 PROVE ~IsSearch(timers[j])
      <4>1. j - 1 \in DOMAIN timers' /\ j - 1 > i BY <2>2, <3>2
      <4>2. timers'[j - 1] = timers[(j - 1) + 1] BY <2>2, <4>1
      <4>3. (j - 1) + 1 = j BY <2>2
      <4> QED BY <4>1, <4>2, <4>3 DEF LastSearchTimer
    <3> QED BY <3>1, <3>2 DEF LastSearchTimer
  <2>5. \A i \in DOMAIN timers' : LastSearchTimer(i)' =>
           timers'[i].text = searchedText'
    BY <2>1, <2>2, <2>4 DEF SearchInv
  <2>6. IsSearch(sent) => sent.page = 1
    BY DEF sent, RequestOf, IsSearch
  <2>7. \A j \in DOMAIN requests' : IsSearch(requests'[j]) => requests'[j].page = 1
    BY <2>3, <2>6 DEF SearchInv
  <2>8. ASSUME keystrokes > 0, inOrder, NoSearchTimer' PROVE (OnItsWay \/ Arrived)'
    <3>1. \A j \in DOMAIN timers : j > 1 => ~IsSearch(timers[j])
      BY <2>2, <2>8 DEF NoSearchTimer
    <3>2. CASE IsSearch(head)
      <4>1. LastSearchTimer(1) BY <2>2, <3>1, <3>2 DEF LastSearchTimer
      <4>2. head.text = searchedText BY <2>2, <4>1 DEF SearchInv
      <4>3. IsSearch(sent) /\ sent.query = searchedText
        BY <3>2, <4>2 DEF sent, RequestOf, IsSearch
      <4>4. \A k \in DOMAIN requests' : k = Len(requests) + 1 => PagesFrom(k + 1)'
        BY <2>3 DEF PagesFrom
      <4> QED BY <2>1, <2>3, <4>3, <4>4 DEF OnItsWay
    <3>3. CASE ~IsSearch(head)
      <4>1. NoSearchTimer BY <2>2, <3>1, <3>3 DEF NoSearchTimer
      <4>2. OnItsWay \/ Arrived BY <2>8, <4>1 DEF SearchInv
      <4>3. ~IsSearch(sent) /\ sent.query = searchedText
        BY <3>3 DEF sent, RequestOf, IsSearch
      <4>4. \A k \in 1 .. Len(requests) + 1 : PagesFrom(k) => PagesFrom(k)'
        BY <2>1, <2>3, <4>3 DEF PagesFrom
      <4>5. Shows(searchedText) => Shows(searchedText)' BY <2>1 DEF Shows
      <4>6. OnItsWay => OnItsWay'
        <5> SUFFICES ASSUME NEW k \in DOMAIN requests,
                            IsSearch(requests[k]),
                            requests[k].query = searchedText,
                            PagesFrom(k + 1)
                     PROVE  OnItsWay'
          BY DEF OnItsWay
        <5>1. PagesFrom(k + 1)' BY <2>3, <4>4
        <5> QED BY <2>1, <2>3, <5>1 DEF OnItsWay
      <4>7. Arrived => Arrived' BY <4>4, <4>5 DEF Arrived
      <4> QED BY <4>2, <4>6, <4>7
    <3> QED BY <3>2, <3>3
  <2> QED BY <2>1, <2>5, <2>7, <2>8 DEF SearchInv
<1>4. ASSUME NEW i \in DOMAIN requests, Answered(i),
             inOrder' => inOrder /\ i = 1,
             \/ Receive(i)
             \/ ReceiveNothing(i) /\ (inOrder' => ~IsSearch(requests[1]))
      PROVE SearchInv'
  <2>1. /\ requests' = RemoveAt(requests, i)
        /\ UNCHANGED <<currentPage, searchedText, timers, keystrokes>>
    BY <1>4 DEF Answered
  <2>2. \A j \in DOMAIN requests' : \E k \in DOMAIN requests : requests'[j] = requests[k]
    BY <2>1, RemoveAtElements
  <2>3. \A j \in DOMAIN requests' : IsSearch(requests'[j]) => requests'[j].page = 1
    BY <2>2 DEF SearchInv
  <2>4. \A j \in DOMAIN timers' : LastSearchTimer(j)' =>
           timers'[j].text = searchedText'
    BY <2>1 DEF SearchInv, LastSearchTimer
  <2>5. ASSUME keystrokes > 0, inOrder', NoSearchTimer PROVE (OnItsWay \/ Arrived)'
    <3>1. i = 1 /\ inOrder /\ 1 \in DOMAIN requests BY <1>4, <2>5
    <3>2. OnItsWay \/ Arrived BY <2>5, <3>1 DEF SearchInv
    <3>3. /\ Len(requests') = Len(requests) - 1
          /\ DOMAIN requests' = 1 .. Len(requests) - 1
          /\ \A j \in 1 .. Len(requests) - 1 : requests'[j] = requests[j + 1]
      BY <2>1, <3>1, DropOldest
    <3>3a. \A k \in DOMAIN requests : k # 1 =>
             k - 1 \in DOMAIN requests' /\ requests'[k - 1] = requests[k]
      <4> TAKE k \in DOMAIN requests
      <4>1. HAVE k # 1
      <4>2. k - 1 \in 1 .. Len(requests) - 1 BY <4>1
      <4> QED BY <3>3, <4>2
    <3>4. \A k \in DOMAIN requests : PagesFrom(k + 1) => PagesFrom(k)'
      <4> SUFFICES ASSUME NEW k \in DOMAIN requests, PagesFrom(k + 1),
                          NEW j \in DOMAIN requests', j >= k
                   PROVE  ~IsSearch(requests'[j]) /\ requests'[j].query = searchedText
        BY <2>1 DEF PagesFrom
      <4>1. j + 1 \in DOMAIN requests /\ j + 1 >= k + 1 BY <3>3
      <4> QED BY <3>3, <4>1 DEF PagesFrom
    <3> DEFINE first == requests[1]
    <3>5. /\ first.query \in Text
          /\ first.page \in Nat \ {0}
      BY <3>1, FirstRequest
    <3> HIDE DEF first
    <3>6. CASE IsSearch(first)
      <4>1. Receive(1) BY <1>4, <2>5, <3>1, <3>6 DEF first
      <4>2. (first.query = searchedText /\ PagesFrom(2)) \/ OnItsWay
        BY <3>1, <3>2, <3>6 DEF first, Arrived, PagesFrom
      <4>3. CASE first.query = searchedText /\ PagesFrom(2)
        <5>1. /\ photos' = Results(searchedText, 1)
              /\ TotalPages' = PagesOf(searchedText)
          BY <3>1, <3>6, <4>1, <4>3 DEF first, Receive, Apply, SearchInv, IsSearch
        <5>2. Shows(searchedText)' BY <2>1, <5>1, ShowsFirst
        <5>3. PagesFrom(1)' BY <3>1, <3>4, <4>3
        <5> QED BY <5>2, <5>3 DEF Arrived
      <4>4. CASE OnItsWay /\ ~(first.query = searchedText /\ PagesFrom(2))
        <5>1. PICK k \in DOMAIN requests :
                /\ IsSearch(requests[k])
                /\ requests[k].query = searchedText
                /\ PagesFrom(k + 1)
          BY <4>4 DEF OnItsWay
        <5>2. k # 1 BY <4>4, <5>1 DEF first
        <5>3. k - 1 \in DOMAIN requests' /\ requests'[k - 1] = requests[k]
          BY <3>3a, <5>1, <5>2
        <5>4. PagesFrom(k)' BY <3>4, <5>1
        <5> QED BY <2>1, <5>1, <5>3, <5>4 DEF OnItsWay
      <4> QED BY <4>2, <4>3, <4>4
    <3>7. CASE ~IsSearch(first)
      <4>1. CASE OnItsWay
        <5>1. PICK k \in DOMAIN requests :
                /\ IsSearch(requests[k])
                /\ requests[k].query = searchedText
                /\ PagesFrom(k + 1)
          BY <4>1 DEF OnItsWay
        <5>2. k # 1 BY <3>7, <5>1 DEF first
        <5>3. k - 1 \in DOMAIN requests' /\ requests'[k - 1] = requests[k]
          BY <3>3a, <5>1, <5>2
        <5>4. PagesFrom(k)' BY <3>4, <5>1
        <5> QED BY <2>1, <5>1, <5>3, <5>4 DEF OnItsWay
      <4>2. CASE Arrived
        <5>1. PagesFrom(2) /\ first.query = searchedText
          BY <3>1, <4>2 DEF first, Arrived, PagesFrom
        <5>2. PagesFrom(1)' BY <3>1, <3>4, <5>1
        <5>3. Shows(searchedText)'
          <6>1. CASE Receive(i)
            <7>1. /\ photos' = photos \o Results(searchedText, first.page)
                  /\ TotalPages' = PagesOf(searchedText)
              BY <3>1, <3>7, <5>1, <6>1 DEF first, Receive, Apply, IsSearch
            <7>2. Shows(searchedText) BY <4>2 DEF Arrived
            <7>3. Shows(searchedText)' BY <2>1, <3>5, <7>1, <7>2, ShowsExtended
            <7> QED BY <7>3
          <6>2. CASE ReceiveNothing(i)
            BY <2>1, <4>2, <6>2 DEF ReceiveNothing, Arrived, Shows
          <6> QED BY <1>4, <6>1, <6>2
        <5> QED BY <5>2, <5>3 DEF Arrived
      <4> QED BY <3>2, <4>1, <4>2
    <3> QED BY <3>6, <3>7
  <2>6. NoSearchTimer' <=> NoSearchTimer BY <2>1 DEF NoSearchTimer
  <2> QED BY <2>1, <2>3, <2>4, <2>5, <2>6 DEF SearchInv
<1>5. ASSUME NEW i \in DOMAIN requests, Receive(i) PROVE SearchInv'
  BY <1>4, <1>5 DEF Receive
<1>6. ASSUME NEW i \in DOMAIN requests, ReceiveNothing(i) PROVE SearchInv'
  BY <1>4, <1>6 DEF ReceiveNothing, IsSearch
<1>7. CASE UNCHANGED vars
  BY <1>7 DEF vars, SearchInv, LastSearchTimer, NoSearchTimer, OnItsWay, Arrived,
              PagesFrom, Shows
<1> QED BY <1>1, <1>2, <1>3, <1>5, <1>6, <1>7 DEF Next

\* The screen shows the text in the search bar once no search is on its way,
\* if since the last key stroke answers came in order and no search failed.
THEOREM SearchFeedShowsSearch == Spec => []ShowsSearch
<1>1. SearchInv => ShowsSearch
  BY DEF SearchInv, ShowsSearch, SearchPending, NoSearchTimer, OnItsWay, Arrived
<1>2. SearchInv /\ TypeOK /\ TypeOK' /\ [Next]_vars => SearchInv'
  BY SearchInvNext
<1> QED BY <1>1, <1>2, SearchInvInit, SearchFeedTypeOK, PTL DEF Spec

-----------------------------------------------------------------------------
(* The invariant behind PagesRequestedExist: both page counts the guard of  *)
(* willDisplay compares are bounded by some query's.                        *)

PageInv ==
    /\ currentPage = 1 \/ \E q \in Text : currentPage <= PagesOf(q)
    /\ TotalPages = 0 \/ \E q \in Text : TotalPages = PagesOf(q)
    /\ PagesRequestedExist

LEMMA PageInvNext ==
    ASSUME TypeOK, PageInv, [Next]_vars
    PROVE  PageInv'
<1> USE DEF TypeOK
<1>0. \A q \in Text : PagesOf(q)' = PagesOf(q) /\ PagesOf(q) \in Nat
  BY PagesOfType DEF PagesOf
<1>1. ASSUME NEW text \in Text, TextDidChange(text) PROVE PageInv'
  BY <1>0, <1>1 DEF TextDidChange, PageInv, PagesRequestedExist
<1>2. ASSUME NEW row \in DOMAIN photos, WillDisplay(row) PROVE PageInv'
  <2>1. /\ currentPage < TotalPages
        /\ currentPage' = currentPage + 1
        /\ TotalPages' = TotalPages /\ requests' = requests
    BY <1>2 DEF WillDisplay
  <2>2. PICK q \in Text : TotalPages = PagesOf(q) BY <2>1 DEF PageInv
  <2>3. currentPage' <= PagesOf(q) BY <2>1, <2>2
  <2> QED BY <1>0, <2>1, <2>3 DEF PageInv, PagesRequestedExist
<1>3. CASE TimerFires
  <2> DEFINE sent == RequestOf(Head(timers))
  <2>1. requests' = Append(requests, sent) /\ UNCHANGED <<currentPage, TotalPages>>
    BY <1>3 DEF TimerFires
  <2>2. sent.page = 1 \/ sent.page = currentPage BY DEF RequestOf
  <2> HIDE DEF sent
  <2>3. \A j \in DOMAIN requests' :
           \/ requests'[j] = sent
           \/ j \in DOMAIN requests /\ requests'[j] = requests[j]
    BY <2>1
  <2> QED BY <1>0, <2>1, <2>2, <2>3 DEF PageInv, PagesRequestedExist
<1>4. ASSUME NEW i \in DOMAIN requests, Answered(i),
             \/ TotalPages' = TotalPages
             \/ \E q \in Text : TotalPages' = PagesOf(q)
      PROVE  PageInv'
  <2>1. requests' = RemoveAt(requests, i) /\ currentPage' = currentPage
    BY <1>4 DEF Answered
  <2>2. \A j \in DOMAIN requests' : \E k \in DOMAIN requests : requests'[j] = requests[k]
    BY <2>1, RemoveAtElements
  <2>3. PagesRequestedExist' BY <1>0, <2>2 DEF PageInv, PagesRequestedExist
  <2> QED BY <1>0, <1>4, <2>1, <2>3 DEF PageInv
<1>5. ASSUME NEW i \in DOMAIN requests, Receive(i) PROVE PageInv'
  <2>1. requests[i] \in Request OBVIOUS
  <2> QED BY <1>4, <1>5, <2>1 DEF Receive, Apply, Request
<1>6. ASSUME NEW i \in DOMAIN requests, ReceiveNothing(i) PROVE PageInv'
  BY <1>4, <1>6 DEF ReceiveNothing
<1>7. CASE UNCHANGED vars
  BY <1>0, <1>7 DEF vars, PageInv, PagesRequestedExist
<1> QED BY <1>1, <1>2, <1>3, <1>5, <1>6, <1>7 DEF Next

\* The search tab asks only for pages that some query has, whatever the guard
\* of willDisplay compared and whatever the page block read later.
THEOREM SearchFeedPagesExist == Spec => []PagesRequestedExist
<1>1. Init => PageInv BY DEF Init, PageInv, PagesRequestedExist
<1>2. PageInv => PagesRequestedExist BY DEF PageInv
<1> QED BY <1>1, <1>2, PageInvNext, SearchFeedTypeOK, PTL DEF Spec

-----------------------------------------------------------------------------
(* The page loads on their way, counted.                                    *)

Loads(s) == {i \in DOMAIN s : ~IsSearch(s[i])}

LEMMA LoadsFinite ==
    ASSUME NEW S, NEW s \in Seq(S)
    PROVE  IsFiniteSet(Loads(s)) /\ Cardinality(Loads(s)) \in Nat
<1>1. Len(s) \in Nat /\ DOMAIN s = 1 .. Len(s) OBVIOUS
<1>2. IsFiniteSet(1 .. Len(s)) BY <1>1, FS_Interval
<1>3. Loads(s) \in SUBSET (1 .. Len(s)) BY <1>1 DEF Loads
<1>4. IsFiniteSet(Loads(s)) BY <1>2, <1>3, FS_Subset
<1> QED BY <1>4, FS_CardinalityType

\* A new one at the end of the queue.
LEMMA LoadsAppended ==
    ASSUME NEW S, NEW s \in Seq(S), NEW e \in S
    PROVE  Cardinality(Loads(Append(s, e)))
                = Cardinality(Loads(s)) + IF IsSearch(e) THEN 0 ELSE 1
<1>1. /\ Len(s) \in Nat /\ DOMAIN s = 1 .. Len(s) /\ DOMAIN Append(s, e) = 1 .. Len(s) + 1
      /\ \A i \in 1 .. Len(s) : Append(s, e)[i] = s[i]
      /\ Append(s, e)[Len(s) + 1] = e
  OBVIOUS
<1>2. 1 .. Len(s) + 1 = 1 .. Len(s) \cup {Len(s) + 1} BY <1>1
<1>3. Len(s) + 1 \notin Loads(s) BY <1>1 DEF Loads
<1>4. IsFiniteSet(Loads(s)) /\ Cardinality(Loads(s)) \in Nat BY LoadsFinite
<1>5. CASE IsSearch(e)
  <2>1. Loads(Append(s, e)) = Loads(s) BY <1>1, <1>2, <1>5 DEF Loads
  <2> QED BY <1>4, <1>5, <2>1
<1>6. CASE ~IsSearch(e)
  <2>1. Loads(Append(s, e)) = Loads(s) \cup {Len(s) + 1} BY <1>1, <1>2, <1>6 DEF Loads
  <2> QED BY <1>3, <1>4, <1>6, <2>1, FS_AddElement
<1> QED BY <1>5, <1>6

\* One taken out, wherever it was.
LEMMA LoadsTaken ==
    ASSUME NEW S, NEW s \in Seq(S), NEW t \in Seq(S), NEW k \in DOMAIN s,
           NEW f \in [DOMAIN t -> DOMAIN s \ {k}],
           \A i, j \in DOMAIN t : f[i] = f[j] => i = j,
           \A j \in DOMAIN t : t[j] = s[f[j]]
    PROVE  Cardinality(Loads(t)) <= Cardinality(Loads(s)) - IF IsSearch(s[k]) THEN 0 ELSE 1
<1> DEFINE g == [j \in Loads(t) |-> f[j]]
<1>1. IsFiniteSet(Loads(s)) /\ Cardinality(Loads(s)) \in Nat BY LoadsFinite
<1>2. /\ IsFiniteSet(Loads(s) \ {k})
      /\ Cardinality(Loads(s) \ {k})
            = IF k \in Loads(s) THEN Cardinality(Loads(s)) - 1 ELSE Cardinality(Loads(s))
  BY <1>1, FS_RemoveElement
<1>3. k \in Loads(s) <=> ~IsSearch(s[k]) BY DEF Loads
<1>4. g \in Injection(Loads(t), Loads(s) \ {k})
  <2>1. Loads(t) \subseteq DOMAIN t BY DEF Loads
  <2>2. \A j \in Loads(t) : f[j] \in Loads(s) \ {k} BY <2>1 DEF Loads, IsSearch
  <2>3. g \in [Loads(t) -> Loads(s) \ {k}] BY <2>2
  <2>4. \A i, j \in Loads(t) : g[i] = g[j] => i = j BY <2>1
  <2> HIDE DEF g
  <2> QED BY <2>3, <2>4 DEF Injection, IsInjective
<1> HIDE DEF g
<1>5. Cardinality(Loads(t)) <= Cardinality(Loads(s) \ {k}) BY <1>2, <1>4, FS_Injection
<1>6. Cardinality(Loads(t)) \in Nat BY LoadsFinite
<1> QED BY <1>1, <1>2, <1>3, <1>5, <1>6

LEMMA LoadsAnswered ==
    ASSUME NEW S, NEW s \in Seq(S), NEW i \in DOMAIN s
    PROVE  Cardinality(Loads(RemoveAt(s, i))) <= Cardinality(Loads(s))
<1> DEFINE a == SubSeq(s, 1, i - 1)
           b == SubSeq(s, i + 1, Len(s))
           f == [j \in 1 .. Len(s) - 1 |-> IF j < i THEN j ELSE j + 1]
<1>1. i \in 1 .. Len(s) /\ i \in Nat /\ Len(s) \in Nat /\ DOMAIN s = 1 .. Len(s) OBVIOUS
<1>2. a \in Seq(S) /\ Len(a) = i - 1 /\ \A j \in 1 .. i - 1 : a[j] = s[j]
  BY <1>1
<1>3. b \in Seq(S) /\ Len(b) = Len(s) - i /\ \A j \in 1 .. Len(s) - i : b[j] = s[i + j]
  BY <1>1
<1>4. RemoveAt(s, i) = a \o b BY DEF RemoveAt
<1> HIDE DEF a, b
<1>5. /\ a \o b \in Seq(S) /\ Len(a \o b) = Len(a) + Len(b)
      /\ \A j \in 1 .. Len(a) + Len(b) :
            (a \o b)[j] = IF j <= Len(a) THEN a[j] ELSE b[j - Len(a)]
  BY <1>2, <1>3, ConcatProperties
<1>6. PICK t \in Seq(S) : t = a \o b BY <1>5
<1>7. /\ Len(t) = Len(s) - 1 /\ DOMAIN t = 1 .. Len(s) - 1
      /\ \A j \in 1 .. Len(s) - 1 : t[j] = IF j <= i - 1 THEN a[j] ELSE b[j - (i - 1)]
  <2>1. Len(a) + Len(b) = Len(s) - 1 BY <1>1, <1>2, <1>3
  <2>2. Len(t) = Len(s) - 1 BY <1>5, <1>6, <2>1
  <2>3. DOMAIN t = 1 .. Len(s) - 1 BY <2>2
  <2>4. \A j \in 1 .. Len(s) - 1 : t[j] = IF j <= Len(a) THEN a[j] ELSE b[j - Len(a)]
    BY <1>5, <1>6, <2>1
  <2> QED BY <1>2, <2>2, <2>3, <2>4
<1>8. ASSUME NEW j \in 1 .. Len(s) - 1
      PROVE  f[j] \in DOMAIN s \ {i} /\ t[j] = s[f[j]]
  <2>1. CASE j < i
    <3>1. j \in 1 .. i - 1 BY <1>1, <2>1
    <3>2. t[j] = a[j] BY <1>1, <1>7, <3>1
    <3>3. f[j] = j BY <2>1
    <3> QED BY <1>1, <1>2, <3>1, <3>2, <3>3
  <2>2. CASE ~(j < i)
    <3>1. PICK k \in 1 .. Len(s) - i : j = (i - 1) + k
      <4>1. j - (i - 1) \in 1 .. Len(s) - i /\ j = (i - 1) + (j - (i - 1)) BY <1>1, <2>2
      <4> QED BY <4>1
    <3>2. t[j] = b[k] BY <1>1, <1>7, <3>1
    <3>3. b[k] = s[j + 1]
      <4>1. i + k = j + 1 BY <1>1, <3>1
      <4> QED BY <1>3, <4>1
    <3>4. f[j] = j + 1 BY <2>2
    <3>5. j + 1 \in DOMAIN s \ {i} BY <1>1, <2>2
    <3> QED BY <3>2, <3>3, <3>4, <3>5
  <2> QED BY <2>1, <2>2
<1>9. f \in [DOMAIN t -> DOMAIN s \ {i}] BY <1>7, <1>8
<1>10. \A j, k \in DOMAIN t : f[j] = f[k] => j = k
  <2> SUFFICES ASSUME NEW j \in 1 .. Len(s) - 1, NEW k \in 1 .. Len(s) - 1, f[j] = f[k]
               PROVE  j = k
    BY <1>7
  <2>1. (IF j < i THEN j ELSE j + 1) = IF k < i THEN k ELSE k + 1 OBVIOUS
  <2>2. j \in Int /\ k \in Int /\ i \in Int BY <1>1
  <2>3. CASE j < i BY <2>1, <2>2, <2>3
  <2>4. CASE ~(j < i) BY <2>1, <2>2, <2>4
  <2> QED BY <2>3, <2>4
<1>11. \A j \in DOMAIN t : t[j] = s[f[j]] BY <1>7, <1>8
<1> HIDE DEF f
<1>12. Cardinality(Loads(t)) <= Cardinality(Loads(s)) - IF IsSearch(s[i]) THEN 0 ELSE 1
  BY <1>9, <1>10, <1>11, LoadsTaken
<1>13. Cardinality(Loads(s)) \in Nat /\ Cardinality(Loads(t)) \in Nat BY LoadsFinite
<1> QED BY <1>4, <1>6, <1>12, <1>13

LEMMA LoadsFired ==
    ASSUME NEW S, NEW s \in Seq(S), s # <<>>
    PROVE  Cardinality(Loads(Tail(s)))
                <= Cardinality(Loads(s)) - IF IsSearch(Head(s)) THEN 0 ELSE 1
<1> DEFINE t == Tail(s)
           f == [j \in DOMAIN t |-> j + 1]
<1>1. /\ Len(s) \in Nat \ {0} /\ DOMAIN s = 1 .. Len(s) /\ Head(s) = s[1]
      /\ t \in Seq(S) /\ DOMAIN t = 1 .. Len(s) - 1
      /\ \A j \in 1 .. Len(s) - 1 : t[j] = s[j + 1]
  OBVIOUS
<1> HIDE DEF t
<1>2. f \in [DOMAIN t -> DOMAIN s \ {1}] BY <1>1
<1>3. \A j, k \in DOMAIN t : f[j] = f[k] => j = k BY <1>1
<1>4. \A j \in DOMAIN t : t[j] = s[f[j]] BY <1>1
<1>5. 1 \in DOMAIN s BY <1>1
<1> HIDE DEF f
<1>6. Cardinality(Loads(t)) <= Cardinality(Loads(s)) - IF IsSearch(s[1]) THEN 0 ELSE 1
  BY <1>1, <1>2, <1>3, <1>4, <1>5, LoadsTaken
<1> QED BY <1>1, <1>6 DEF t

OnTheirWay == Cardinality(Loads(timers)) + Cardinality(Loads(requests))

LEMMA LoadsNext ==
    ASSUME TypeOK, OnTheirWay <= currentPage - 1, [Next]_vars
    PROVE  (OnTheirWay <= currentPage - 1)'
<1>1. /\ timers \in Seq(Timer) /\ requests \in Seq(Request) /\ currentPage \in Nat \ {0}
      /\ Cardinality(Loads(timers)) \in Nat /\ Cardinality(Loads(requests)) \in Nat
  <2>1. timers \in Seq(Timer) /\ requests \in Seq(Request) /\ currentPage \in Nat \ {0}
    BY DEF TypeOK
  <2> QED BY <2>1, LoadsFinite
<1>2. \A s : Cardinality(Loads(s))' = Cardinality(Loads(s')) OBVIOUS
<1>3. ASSUME NEW text \in Text, TextDidChange(text) PROVE (OnTheirWay <= currentPage - 1)'
  <2>1. /\ timers' = Append(timers, SearchTimer(text))
        /\ UNCHANGED <<requests, currentPage>>
    BY <1>3 DEF TextDidChange
  <2>2. SearchTimer(text) \in Timer /\ IsSearch(SearchTimer(text))
    BY DEF SearchTimer, Timer, IsSearch
  <2>3. Cardinality(Loads(timers')) = Cardinality(Loads(timers))
    BY <1>1, <2>1, <2>2, LoadsAppended
  <2> QED BY <1>1, <2>1, <2>3 DEF OnTheirWay
<1>4. ASSUME NEW row \in DOMAIN photos, WillDisplay(row) PROVE (OnTheirWay <= currentPage - 1)'
  <2>1. /\ timers' = Append(timers, PageTimer) /\ currentPage' = currentPage + 1
        /\ UNCHANGED requests
    BY <1>4 DEF WillDisplay
  <2>2. PageTimer \in Timer /\ ~IsSearch(PageTimer) BY DEF PageTimer, Timer, IsSearch
  <2>3. Cardinality(Loads(timers')) = Cardinality(Loads(timers)) + 1
    BY <1>1, <2>1, <2>2, LoadsAppended
  <2> QED BY <1>1, <2>1, <2>3 DEF OnTheirWay
<1>5. CASE TimerFires
  <2>1. /\ timers # <<>> /\ timers' = Tail(timers) /\ UNCHANGED currentPage
        /\ requests' = Append(requests, RequestOf(Head(timers)))
    BY <1>5 DEF TimerFires
  <2>2. Head(timers) \in Timer BY <1>1, <2>1
  <2>3. /\ RequestOf(Head(timers)) \in Request
        /\ IsSearch(RequestOf(Head(timers))) <=> IsSearch(Head(timers))
    BY <2>2 DEF Timer, Request, RequestOf, IsSearch, TypeOK
  <2>4. Cardinality(Loads(timers')) <=
            Cardinality(Loads(timers)) - IF IsSearch(Head(timers)) THEN 0 ELSE 1
    BY <1>1, <2>1, LoadsFired
  <2>5. Cardinality(Loads(requests')) =
            Cardinality(Loads(requests)) + IF IsSearch(Head(timers)) THEN 0 ELSE 1
    BY <1>1, <2>1, <2>3, LoadsAppended
  <2>6. timers' \in Seq(Timer) BY <1>1, <2>1
  <2>7. Cardinality(Loads(timers')) \in Nat BY <2>6, LoadsFinite
  <2> QED BY <1>1, <2>1, <2>4, <2>5, <2>7 DEF OnTheirWay
<1>6. ASSUME NEW i \in DOMAIN requests, Answered(i) PROVE (OnTheirWay <= currentPage - 1)'
  <2>1. requests' = RemoveAt(requests, i) /\ UNCHANGED <<timers, currentPage>>
    BY <1>6 DEF Answered
  <2>2. Cardinality(Loads(requests')) <= Cardinality(Loads(requests))
    BY <1>1, <2>1, LoadsAnswered
  <2>3. requests' \in Seq(Request) BY <1>1, <2>1, RemoveAtType
  <2>4. Cardinality(Loads(requests')) \in Nat BY <2>3, LoadsFinite
  <2> QED BY <1>1, <2>1, <2>2, <2>4 DEF OnTheirWay
<1>7. CASE UNCHANGED vars BY <1>7 DEF vars, OnTheirWay
<1> QED BY <1>3, <1>4, <1>5, <1>6, <1>7 DEF Next, Receive, ReceiveNothing

\* The last cell may be displayed any number of times before its page comes: the
\* page loads on their way are never more than the pages currentPage advanced by.
\* (The guard of willDisplay, the page timer's block.)
THEOREM SearchFeedPageLoadsBounded == Spec => []PageLoadsBounded
<1>1. Init => OnTheirWay <= currentPage - 1
  <2> SUFFICES ASSUME Init PROVE OnTheirWay <= currentPage - 1 OBVIOUS
  <2>1. Loads(timers) = {} /\ Loads(requests) = {} BY DEF Init, Loads, IsSearch
  <2>2. Cardinality(Loads(timers)) = 0 /\ Cardinality(Loads(requests)) = 0
    BY <2>1, FS_EmptySet
  <2>3. currentPage = 1 BY DEF Init
  <2> QED BY <2>2, <2>3 DEF OnTheirWay
<1>2. OnTheirWay <= currentPage - 1 => PageLoadsBounded
  BY DEF OnTheirWay, PageLoadsBounded, Loads
<1>3. TypeOK /\ OnTheirWay <= currentPage - 1 /\ [Next]_vars => (OnTheirWay <= currentPage - 1)'
  BY LoadsNext
<1> QED BY <1>1, <1>2, <1>3, SearchFeedTypeOK, PTL DEF Spec

-----------------------------------------------------------------------------
(* A patient session's rows, page by page.                                  *)

LEMMA SliceShape ==
    ASSUME NEW q \in Text, NEW from \in Nat \ {0}, NEW to \in Nat, from <= to + 1
    PROVE  /\ Slice(q, from, to) \in Seq(Photo)
           /\ Len(Slice(q, from, to)) = to - from + 1
           /\ \A i \in 1 .. to - from + 1 :
                Slice(q, from, to)[i] = [query |-> q, index |-> from + i - 1]
<1>1. \A i \in 1 .. to - from + 1 : [query |-> q, index |-> from + i - 1] \in Photo
  BY DEF Photo
<1>2. to - from + 1 \in Nat OBVIOUS
<1>3. Slice(q, from, to) \in [1 .. to - from + 1 -> Photo] BY <1>1 DEF Slice
<1> QED BY <1>2, <1>3 DEF Slice

LEMMA SlicesJoin ==
    ASSUME NEW q \in Text, NEW d \in Nat, NEW to \in Nat, d <= to
    PROVE  Slice(q, 1, d) \o Slice(q, d + 1, to) = Slice(q, 1, to)
<1>0. d + 1 \in Nat \ {0} /\ d + 1 <= to + 1 OBVIOUS
<1>1. PICK a \in Seq(Photo) : a = Slice(q, 1, d) BY SliceShape
<1>2. PICK b \in Seq(Photo) : b = Slice(q, d + 1, to) BY <1>0, SliceShape
<1>3. PICK c \in Seq(Photo) : c = Slice(q, 1, to) BY SliceShape
<1>4. Len(a) = d /\ \A i \in 1 .. d : a[i] = [query |-> q, index |-> i]
  <2>1. \A i \in 1 .. d : Slice(q, 1, d)[i] = [query |-> q, index |-> 1 + i - 1]
    BY SliceShape
  <2>2. Len(Slice(q, 1, d)) = d BY SliceShape
  <2>3. \A i \in 1 .. d : 1 + i - 1 = i OBVIOUS
  <2> QED BY <1>1, <2>1, <2>2, <2>3
<1>5. /\ Len(b) = to - d
      /\ \A i \in 1 .. to - d : b[i] = [query |-> q, index |-> d + i]
  <2>1. /\ Len(b) = to - (d + 1) + 1
        /\ \A i \in 1 .. to - (d + 1) + 1 : b[i] = [query |-> q, index |-> (d + 1) + i - 1]
    BY <1>0, <1>2, SliceShape
  <2>2. to - (d + 1) + 1 = to - d OBVIOUS
  <2>3. \A i \in 1 .. to - d : (d + 1) + i - 1 = d + i OBVIOUS
  <2> QED BY <2>1, <2>2, <2>3
<1>6. Len(c) = to /\ \A i \in 1 .. to : c[i] = [query |-> q, index |-> i]
  <2>1. \A i \in 1 .. to : Slice(q, 1, to)[i] = [query |-> q, index |-> 1 + i - 1]
    BY SliceShape
  <2>2. Len(Slice(q, 1, to)) = to BY SliceShape
  <2>3. \A i \in 1 .. to : 1 + i - 1 = i OBVIOUS
  <2> QED BY <1>3, <2>1, <2>2, <2>3
<1>7. /\ a \o b \in Seq(Photo) /\ Len(a \o b) = to
      /\ \A i \in 1 .. to : (a \o b)[i] = IF i <= d THEN a[i] ELSE b[i - d]
  <2>1. /\ a \o b \in Seq(Photo) /\ Len(a \o b) = Len(a) + Len(b)
        /\ \A i \in 1 .. Len(a) + Len(b) :
                (a \o b)[i] = IF i <= Len(a) THEN a[i] ELSE b[i - Len(a)]
    BY ConcatProperties
  <2>2. Len(a) + Len(b) = to BY <1>4, <1>5
  <2> QED BY <1>4, <2>1, <2>2
<1>8. ASSUME NEW i \in 1 .. to PROVE (a \o b)[i] = c[i]
  <2>1. CASE i <= d
    <3>1. i \in 1 .. d BY <2>1
    <3> QED BY <1>4, <1>6, <1>7, <2>1, <3>1
  <2>2. CASE ~(i <= d)
    <3>1. i - d \in 1 .. to - d /\ d + (i - d) = i BY <2>2
    <3> QED BY <1>5, <1>6, <1>7, <2>2, <3>1
  <2> QED BY <2>1, <2>2
<1>9. a \o b = c BY <1>6, <1>7, <1>8, SeqEqual
<1> QED BY <1>1, <1>2, <1>3, <1>9

\* There is a page n + 1 only if page n is full.
LEMMA PageIsFull ==
    ASSUME NEW q \in Text, NEW n \in Nat \ {0}, n + 1 <= PagesOf(q)
    PROVE  n * PageSize \in Nat /\ n * PageSize < Total[q]
<1>1. Total[q] \in Nat BY TotalAssumption
<1>2. PageSize \in Nat /\ PageSize >= 1 BY PageSizeAssumption
<1>3. PICK m \in Nat : m = Total[q] + PageSize - 1 BY <1>1, <1>2
<1>4. PICK k \in Nat : k = m \div PageSize BY <1>2, <1>3, PagesOfType DEF PagesOf
<1>5. k * PageSize <= m BY <1>2, <1>4
<1>6. PICK j \in Nat : k = (n + 1) + j
  <2>1. n + 1 <= k BY <1>3, <1>4 DEF PagesOf
  <2>2. k - (n + 1) \in Nat BY <2>1
  <2> QED BY <2>2
<1>7. k * PageSize = n * PageSize + PageSize + j * PageSize BY <1>2, <1>6
<1>8. n * PageSize \in Nat /\ j * PageSize \in Nat BY <1>2
<1> QED BY <1>1, <1>2, <1>3, <1>5, <1>7, <1>8

LEMMA FirstPage ==
    ASSUME NEW q \in Text
    PROVE  Results(q, 1) = FirstPages(q, 1)
<1>1. PageSize \in Nat BY PageSizeAssumption
<1>2. (1 - 1) * PageSize + 1 = 1 BY <1>1
<1> QED BY <1>2 DEF Results, FirstPages

LEMMA NextPage ==
    ASSUME NEW q \in Text, NEW n \in Nat \ {0}, n + 1 <= PagesOf(q)
    PROVE  FirstPages(q, n) \o Results(q, n + 1) = FirstPages(q, n + 1)
<1>1. PICK d \in Nat : d = n * PageSize /\ d < Total[q] BY PageIsFull
<1>2. Total[q] \in Nat /\ PageSize \in Nat /\ PageSize >= 1
  BY TotalAssumption, PageSizeAssumption
<1>3. (n + 1) * PageSize = d + PageSize BY <1>1, <1>2
<1>4. PICK to \in Nat : to = Least(d + PageSize, Total[q]) /\ d <= to
  <2>1. d + PageSize \in Nat BY <1>2
  <2> QED BY <1>1, <1>2, <2>1 DEF Least
<1>5. FirstPages(q, n) = Slice(q, 1, d) BY <1>1, <1>2 DEF FirstPages, Least
<1>6. Results(q, n + 1) = Slice(q, d + 1, to)
  <2>1. (n + 1) - 1 = n OBVIOUS
  <2> QED BY <1>1, <1>3, <1>4, <2>1 DEF Results
<1>7. FirstPages(q, n + 1) = Slice(q, 1, to) BY <1>3, <1>4 DEF FirstPages
<1> QED BY <1>4, <1>5, <1>6, <1>7, SlicesJoin


\* Where a patient session stands: before any paging there are searches only and
\* the rows are a first page; from then on the last page asked for is on the
\* screen or the one thing on its way.
Paging ==
    /\ keystrokes > 0
    /\ TotalPages = PagesOf(searchedText) /\ currentPage <= TotalPages
    /\ \/ timers = <<>> /\ requests = <<>> /\ photos = FirstPages(searchedText, currentPage)
       \/ /\ timers = <<PageTimer>> /\ requests = <<>>
          /\ photos = FirstPages(searchedText, currentPage - 1)
       \/ /\ timers = <<>>
          /\ requests = <<[kind |-> "page", query |-> searchedText, page |-> currentPage]>>
          /\ photos = FirstPages(searchedText, currentPage - 1)

Searching ==
    /\ \A i \in DOMAIN timers : IsSearch(timers[i])
    /\ \A i \in DOMAIN requests : IsSearch(requests[i]) /\ requests[i].page = 1
    /\ photos = <<>> \/ \E q \in Text : photos = FirstPages(q, 1)

PatientInv == patient => inOrder /\ IF currentPage = 1 THEN Searching ELSE Paging

LEMMA PagingKept ==
    ASSUME PatientInv, patient, currentPage # 1, UNCHANGED vars
    PROVE  Paging'
BY DEF PatientInv, Paging, vars, PagesOf, FirstPages, Slice, Least, PageTimer

\* A key stroke of a patient user.
LEMMA PatientTypes ==
    ASSUME TypeOK, PatientInv, patient, NEW text \in Text, PatientTextDidChange(text)
    PROVE  currentPage' = 1 /\ inOrder' /\ Searching'
<1>1. /\ currentPage = 1 /\ timers' = Append(timers, SearchTimer(text)) /\ inOrder'
      /\ UNCHANGED <<photos, currentPage, requests>>
  BY DEF PatientTextDidChange, TextDidChange
<1>2. Searching BY <1>1 DEF PatientInv
<1>3. IsSearch(SearchTimer(text)) BY DEF SearchTimer, IsSearch
<1>4. timers \in Seq(Timer) /\ SearchTimer(text) \in Timer BY DEF TypeOK, SearchTimer, Timer
<1>5. \A i \in DOMAIN timers' : \/ timers'[i] = SearchTimer(text)
                                \/ i \in DOMAIN timers /\ timers'[i] = timers[i]
  BY <1>1, <1>4
<1>6. \A i \in DOMAIN timers' : IsSearch(timers'[i]) BY <1>2, <1>3, <1>5 DEF Searching, IsSearch
<1>7. \A q : FirstPages(q, 1)' = FirstPages(q, 1) BY DEF FirstPages, Slice, Least
<1> QED BY <1>1, <1>2, <1>6, <1>7 DEF Searching, IsSearch

\* The first rows a patient user scrolls down are those of the search.
LEMMA PatientScrolls ==
    ASSUME TypeOK, SearchInv, PatientInv, patient, NEW row \in DOMAIN photos,
           PatientWillDisplay(row)
    PROVE  currentPage' # 1 /\ inOrder' /\ Paging' /\ photos' = photos
<1>1. /\ keystrokes > 0 /\ timers = <<>> /\ requests = <<>> /\ currentPage < TotalPages
      /\ currentPage' = currentPage + 1 /\ timers' = Append(timers, PageTimer)
      /\ UNCHANGED <<photos, TotalPages, searchedText, requests, keystrokes, inOrder>>
  BY DEF PatientWillDisplay, NothingOnItsWay, WillDisplay
<1>2. /\ currentPage \in Nat \ {0} /\ TotalPages \in Nat /\ searchedText \in Text /\ inOrder
  BY DEF TypeOK, PatientInv
<1>3. TotalPages = PagesOf(searchedText) /\ photos = FirstPages(searchedText, currentPage)
  <2>1. CASE currentPage = 1
    <3>1. ~SearchPending BY <1>1 DEF SearchPending
    <3>2. Shows(searchedText)
      BY <1>1, <1>2, <3>1 DEF SearchInv, SearchPending, NoSearchTimer, OnItsWay, Arrived
    <3>3. PICK q \in Text : photos = FirstPages(q, 1) BY <2>1 DEF PatientInv, Searching
    <3>4. q = searchedText
      <4>1. photos[row].query = searchedText BY <3>2 DEF Shows
      <4>2. photos[row].query = q
        <5>1. Results(q, 1) = photos BY <3>3, FirstPage
        <5>2. \A i \in DOMAIN Results(q, 1) : Results(q, 1)[i].query = q BY ResultsType
        <5> QED BY <5>1, <5>2
      <4> QED BY <4>1, <4>2
    <3> QED BY <2>1, <3>2, <3>3, <3>4 DEF Shows
  <2>2. CASE currentPage # 1 BY <1>1, <2>2 DEF PatientInv, Paging
  <2> QED BY <2>1, <2>2
<1>4. currentPage' # 1 /\ currentPage' - 1 = currentPage /\ currentPage' <= TotalPages
  BY <1>1, <1>2
<1>5. timers' = <<PageTimer>> /\ requests' = <<>> BY <1>1
<1>6. PagesOf(searchedText)' = PagesOf(searchedText) BY <1>1 DEF PagesOf
<1>7. FirstPages(searchedText, currentPage - 1)' = FirstPages(searchedText, currentPage)
  BY <1>1, <1>4 DEF FirstPages
<1>8. PageTimer' = PageTimer BY DEF PageTimer
<1> QED BY <1>1, <1>2, <1>3, <1>4, <1>5, <1>6, <1>7, <1>8 DEF Paging

LEMMA PatientTimer ==
    ASSUME TypeOK, PatientInv, patient, TimerFires
    PROVE  /\ photos' = photos /\ inOrder' /\ currentPage' = currentPage
           /\ currentPage = 1 => Searching'
           /\ currentPage # 1 => Paging'
<1>1. /\ timers # <<>> /\ timers' = Tail(timers)
      /\ requests' = Append(requests, RequestOf(Head(timers)))
      /\ UNCHANGED <<photos, currentPage, TotalPages, searchedText, keystrokes, inOrder>>
  BY DEF TimerFires
<1>2. timers \in Seq(Timer) /\ requests \in Seq(Request) /\ inOrder BY DEF TypeOK, PatientInv
<1>3. ASSUME currentPage = 1 PROVE Searching'
  <2>1. Searching BY <1>3 DEF PatientInv
  <2>2. IsSearch(Head(timers))
    <3>1. 1 \in DOMAIN timers /\ Head(timers) = timers[1] BY <1>1, <1>2
    <3> QED BY <2>1, <3>1 DEF Searching
  <2>3. IsSearch(RequestOf(Head(timers))) /\ RequestOf(Head(timers)).page = 1
    BY <2>2 DEF IsSearch, RequestOf
  <2>4. \A i \in DOMAIN timers' : IsSearch(timers'[i])
    <3>1. \A i \in DOMAIN Tail(timers) : i + 1 \in DOMAIN timers /\ Tail(timers)[i] = timers[i + 1]
      BY <1>1, <1>2
    <3> QED BY <1>1, <2>1, <3>1 DEF Searching
  <2>5. \A i \in DOMAIN requests' : IsSearch(requests'[i]) /\ requests'[i].page = 1
    <3>1. \A i \in DOMAIN requests' :
            \/ requests'[i] = RequestOf(Head(timers))
            \/ (i \in DOMAIN requests /\ requests'[i] = requests[i])
      BY <1>1, <1>2
    <3> QED BY <2>1, <2>3, <3>1 DEF Searching, IsSearch
  <2>6. \A q : FirstPages(q, 1)' = FirstPages(q, 1) BY DEF FirstPages, Slice, Least
  <2> QED BY <1>1, <2>1, <2>4, <2>5, <2>6 DEF Searching, IsSearch
<1>4. ASSUME currentPage # 1 PROVE Paging'
  <2>1. /\ timers = <<PageTimer>> /\ requests = <<>> /\ Paging
        /\ photos = FirstPages(searchedText, currentPage - 1)
    BY <1>1, <1>4 DEF PatientInv, Paging
  <2>2. Head(timers) = PageTimer /\ Tail(timers) = <<>> BY <2>1
  <2>3. RequestOf(PageTimer) = [kind |-> "page", query |-> searchedText, page |-> currentPage]
    BY DEF RequestOf, PageTimer
  <2>4. timers' = <<>>
        /\ requests' = <<[kind |-> "page", query |-> searchedText, page |-> currentPage]>>
    BY <1>1, <2>1, <2>2, <2>3
  <2>5. FirstPages(searchedText, currentPage - 1)' = FirstPages(searchedText, currentPage - 1)
        /\ PagesOf(searchedText)' = PagesOf(searchedText)
    BY <1>1 DEF FirstPages, PagesOf
  <2> QED BY <1>1, <2>1, <2>4, <2>5 DEF Paging
<1> QED BY <1>1, <1>2, <1>3, <1>4

\* An answer: a search's shows a first page, a page's the next one.
LEMMA PatientReceives ==
    ASSUME TypeOK, PatientInv, patient, OrderlyReceive
    PROVE  /\ inOrder' /\ currentPage' = currentPage
           /\ currentPage = 1 => Searching' /\ \E q \in Text : photos' = FirstPages(q, 1)
           /\ currentPage # 1 =>
                /\ Paging' /\ currentPage - 1 \in 1 .. PagesOf(searchedText) - 1
                /\ photos = FirstPages(searchedText, currentPage - 1)
                /\ photos' = FirstPages(searchedText, (currentPage - 1) + 1)
<1>1. /\ requests # <<>> /\ requests' = RemoveAt(requests, 1) /\ Apply(requests[1])
      /\ inOrder' = inOrder
      /\ UNCHANGED <<currentPage, searchedText, timers, keystrokes>>
  BY DEF OrderlyReceive, Receive, Answered, TypeOK
<1>2. /\ timers \in Seq(Timer) /\ requests \in Seq(Request) /\ inOrder
      /\ currentPage \in Nat \ {0} /\ searchedText \in Text
  BY DEF TypeOK, PatientInv
<1>3. 1 \in DOMAIN requests /\ requests[1] \in Request BY <1>1, <1>2
<1>4. ASSUME currentPage = 1 PROVE Searching' /\ \E q \in Text : photos' = FirstPages(q, 1)
  <2>1. Searching BY <1>4 DEF PatientInv
  <2>2. requests[1].kind = "search" /\ requests[1].page = 1 /\ requests[1].query \in Text
    BY <1>3, <2>1 DEF Searching, IsSearch, Request
  <2>3. photos' = FirstPages(requests[1].query, 1) BY <1>1, <2>2, FirstPage DEF Apply
  <2>4. \A i \in DOMAIN requests' : IsSearch(requests'[i]) /\ requests'[i].page = 1
    <3>1. \A j \in DOMAIN RemoveAt(requests, 1) :
            \E k \in DOMAIN requests : RemoveAt(requests, 1)[j] = requests[k]
      BY <1>2, <1>3, RemoveAtElements
    <3> QED BY <1>1, <2>1, <3>1 DEF Searching, IsSearch
  <2>5. \A q : FirstPages(q, 1)' = FirstPages(q, 1) BY DEF FirstPages, Slice, Least
  <2>6. \E q \in Text : photos' = FirstPages(q, 1) BY <2>2, <2>3
  <2> QED BY <1>1, <2>1, <2>4, <2>5, <2>6 DEF Searching, IsSearch
<1>5. ASSUME currentPage # 1
      PROVE  /\ Paging' /\ currentPage - 1 \in 1 .. PagesOf(searchedText) - 1
             /\ photos = FirstPages(searchedText, currentPage - 1)
             /\ photos' = FirstPages(searchedText, (currentPage - 1) + 1)
  <2>1. /\ timers = <<>> /\ keystrokes > 0 /\ TotalPages = PagesOf(searchedText)
        /\ requests = <<[kind |-> "page", query |-> searchedText, page |-> currentPage]>>
        /\ photos = FirstPages(searchedText, currentPage - 1) /\ currentPage <= TotalPages
    BY <1>1, <1>5 DEF PatientInv, Paging
  <2>2. PICK n \in Nat \ {0} : n = currentPage - 1 BY <1>2, <1>5
  <2>3. n + 1 = currentPage /\ n + 1 <= PagesOf(searchedText) BY <1>2, <2>1, <2>2
  <2>4. requests[1] = [kind |-> "page", query |-> searchedText, page |-> currentPage]
    BY <2>1
  <2>5. photos' = photos \o Results(searchedText, currentPage)
        /\ TotalPages' = PagesOf(searchedText)
    BY <1>1, <2>4 DEF Apply
  <2>6. photos' = FirstPages(searchedText, n + 1)
    BY <1>2, <2>1, <2>2, <2>3, <2>5, NextPage
  <2>7. requests' = <<>>
    <3>1. PICK r \in Seq(Request) : r = requests BY <1>2
    <3>2. 1 \in DOMAIN r /\ Len(r) = 1 BY <2>1, <3>1
    <3>3. Len(RemoveAt(r, 1)) = 0 /\ RemoveAt(r, 1) \in Seq(Request) BY <3>2, DropOldest
    <3> QED BY <1>1, <3>1, <3>3
  <2>8. /\ PagesOf(searchedText)' = PagesOf(searchedText)
        /\ FirstPages(searchedText, currentPage)' = FirstPages(searchedText, currentPage)
    BY <1>1 DEF FirstPages, PagesOf
  <2>9. PagesOf(searchedText) \in Nat BY <1>2, PagesOfType
  <2>10. Paging' BY <1>1, <2>1, <2>3, <2>5, <2>6, <2>7, <2>8 DEF Paging
  <2> QED BY <2>1, <2>2, <2>3, <2>6, <2>9, <2>10
<1> QED BY <1>1, <1>2, <1>4, <1>5

LEMMA PatientKept ==
    ASSUME TypeOK, SearchInv, PatientInv, [SessionNext]_<<vars, patient>>
    PROVE  PatientInv'
<1>1. patient' = patient BY DEF SessionNext
<1> SUFFICES ASSUME patient
             PROVE  inOrder' /\ IF currentPage' = 1 THEN Searching' ELSE Paging'
  BY <1>1 DEF PatientInv
<1>2. CASE \E text \in Text : PatientTextDidChange(text) BY <1>2, PatientTypes
<1>3. CASE \E row \in DOMAIN photos : PatientWillDisplay(row) BY <1>3, PatientScrolls
<1>4. CASE TimerFires BY <1>4, PatientTimer
<1>5. CASE OrderlyReceive BY <1>5, PatientReceives
<1>6. CASE UNCHANGED <<vars, patient>>
  <2>1. UNCHANGED vars BY <1>6
  <2>2. inOrder' = inOrder /\ currentPage' = currentPage BY <2>1 DEF vars
  <2>3. inOrder BY DEF PatientInv
  <2>4. CASE currentPage = 1
    <3>1. Searching BY <2>4 DEF PatientInv
    <3>2. Searching' BY <2>1, <3>1 DEF Searching, vars, IsSearch, FirstPages, Slice, Least
    <3> QED BY <2>2, <2>3, <2>4, <3>2
  <2>5. CASE currentPage # 1
    <3>1. Paging' BY <2>1, <2>5, PagingKept
    <3> QED BY <2>2, <2>3, <2>5, <3>1
  <2> QED BY <2>4, <2>5
<1> QED BY <1>2, <1>3, <1>4, <1>5, <1>6 DEF SessionNext, PatientNext

\* Feed and the search tab page the same service.
LEMMA SamePages ==
    /\ \A q, n : F!FirstPages(q, n) = FirstPages(q, n)
    /\ \A q : F!PagesOf(q) = PagesOf(q)
BY DEF F!FirstPages, F!Slice, F!Least, F!PagesOf, FirstPages, Slice, Least, PagesOf

\* The rows of a patient session change to a first page or by the next one.
LEMMA PatientRefines ==
    ASSUME TypeOK, SearchInv, PatientInv, [SessionNext]_<<vars, patient>>
    PROVE  [F!Replace \/ F!Extend]_ListedRows
<1>1. patient' = patient BY DEF SessionNext
<1>2. CASE ~patient BY <1>1, <1>2 DEF ListedRows
<1>3. CASE patient
  <2>0. ListedRows = photos /\ ListedRows' = photos' BY <1>1, <1>3 DEF ListedRows
  <2>1. CASE \E text \in Text : PatientTextDidChange(text)
    <3>1. photos' = photos BY <2>1 DEF PatientTextDidChange, TextDidChange
    <3> QED BY <2>0, <3>1
  <2>2. CASE \E row \in DOMAIN photos : PatientWillDisplay(row)
    <3>1. photos' = photos BY <2>2 DEF PatientWillDisplay, WillDisplay
    <3> QED BY <2>0, <3>1
  <2>3. CASE TimerFires
    <3>1. photos' = photos BY <2>3 DEF TimerFires
    <3> QED BY <2>0, <3>1
  <2>4. CASE OrderlyReceive
    <3>1. CASE currentPage = 1
      <4>1. \E q \in Text : photos' = FirstPages(q, 1) BY <1>3, <2>4, <3>1, PatientReceives
      <4>2. \E q \in Text : photos' = F!FirstPages(q, 1) BY <4>1, SamePages
      <4> QED BY <2>0, <4>2 DEF F!Replace
    <3>2. CASE currentPage # 1
      <4>1. /\ currentPage - 1 \in 1 .. PagesOf(searchedText) - 1
            /\ photos = FirstPages(searchedText, currentPage - 1)
            /\ photos' = FirstPages(searchedText, (currentPage - 1) + 1)
        BY <1>3, <2>4, <3>2, PatientReceives
      <4>2. searchedText \in Text BY DEF TypeOK
      <4> DEFINE n == currentPage - 1
      <4>3. /\ n \in 1 .. F!PagesOf(searchedText) - 1
            /\ photos = F!FirstPages(searchedText, n)
            /\ photos' = F!FirstPages(searchedText, n + 1)
        BY <4>1, SamePages
      <4> HIDE DEF n
      <4> QED BY <2>0, <4>2, <4>3 DEF F!Extend
    <3> QED BY <3>1, <3>2
  <2>5. CASE UNCHANGED <<vars, patient>>
    <3>1. photos' = photos BY <2>5 DEF vars
    <3> QED BY <2>0, <3>1
  <2> QED BY <1>3, <2>1, <2>2, <2>3, <2>4, <2>5 DEF SessionNext, PatientNext
<1> QED BY <1>2, <1>3

\* Either environment's steps are steps of the search tab.
LEMMA SessionIsSearchFeed ==
    ASSUME TypeOK, [SessionNext]_<<vars, patient>>
    PROVE  [Next]_vars
<1>1. CASE PatientNext
  <2>1. CASE \E text \in Text : PatientTextDidChange(text)
    BY <2>1 DEF PatientTextDidChange, Next
  <2>2. CASE \E row \in DOMAIN photos : PatientWillDisplay(row)
    BY <2>2 DEF PatientWillDisplay, Next
  <2>3. CASE TimerFires BY <2>3 DEF Next
  <2>4. CASE OrderlyReceive
    <3>1. requests # <<>> /\ Receive(1) BY <2>4 DEF OrderlyReceive
    <3>2. 1 \in DOMAIN requests BY <3>1 DEF TypeOK
    <3> QED BY <3>1, <3>2 DEF Next
  <2> QED BY <1>1, <2>1, <2>2, <2>3, <2>4 DEF PatientNext
<1>2. CASE UNCHANGED <<vars, patient>> BY <1>2
<1> QED BY <1>1, <1>2 DEF SessionNext

\* A patient user's listing is paged as promised, for every service, page size
\* and number of key strokes: the rows are always the first pages of one query,
\* and change only to a first page or by the next one.  (The completions of
\* MainVC, the reads of self in the page timer's block.)
THEOREM PatientFeedImplementsFeed == SessionSpec => ImplementsFeed
<1> DEFINE Inv == TypeOK /\ SearchInv /\ PatientInv
<1>1. SessionInit => Inv /\ F!Init
  <2> SUFFICES ASSUME SessionInit PROVE Inv /\ F!Init OBVIOUS
  <2>1. Init BY DEF SessionInit
  <2>2. TypeOK /\ SearchInv BY <2>1, TypeOKInit, SearchInvInit
  <2>3. Searching BY <2>1 DEF Init, Searching, IsSearch
  <2>4. PatientInv BY <2>1, <2>3 DEF Init, PatientInv
  <2>5. F!Init BY <2>1 DEF Init, F!Init, ListedRows
  <2> QED BY <2>2, <2>4, <2>5
<1>2. Inv /\ [SessionNext]_<<vars, patient>> => Inv' /\ [F!Replace \/ F!Extend]_ListedRows
  <2> SUFFICES ASSUME TypeOK, SearchInv, PatientInv, [SessionNext]_<<vars, patient>>
               PROVE  Inv' /\ [F!Replace \/ F!Extend]_ListedRows
    OBVIOUS
  <2>1. [Next]_vars BY SessionIsSearchFeed
  <2>2. TypeOK' BY <2>1, TypeOKNext
  <2>3. SearchInv' BY <2>1, <2>2, SearchInvNext
  <2> QED BY <2>2, <2>3, PatientKept, PatientRefines
<1> HIDE DEF Inv
<1> QED BY <1>1, <1>2, PTL DEF SessionSpec, ImplementsFeed, F!Spec
=============================================================================
