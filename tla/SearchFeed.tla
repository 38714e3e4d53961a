----------------------------- MODULE SearchFeed -----------------------------
(***************************************************************************)
(* The search tab of the app (MainVC) with the two classes it calls, the   *)
(* NetworkDataFetcher and the NetworkService, and the photo search service *)
(* behind them.  Everything in it runs on the main thread: key strokes,    *)
(* cell callbacks, timers, and the completions that createDataTask hops    *)
(* back to the main queue.  What interleaves is their ORDER: a key stroke  *)
(* or the display of the last cell schedules a 0.5 s timer, the timer      *)
(* sends a request, and the answers come back in any order, or fail.       *)
(*                                                                         *)
(* No timer is ever invalidated, no request is ever cancelled, and         *)
(* currentPage is never reset: the model has all three.                    *)
(***************************************************************************)
EXTENDS PhotoService, FiniteSets, SequencesExt

CONSTANTS
    NoText,         \* the empty search bar
    Random,         \* the query of the first request, "random"
    MaxKeystrokes   \* bound: key strokes in a session

ASSUME TextAssumption == NoText \in Text /\ Random \in Text
ASSUME MaxKeystrokesAssumption == MaxKeystrokes \in Nat

VARIABLES
    photos,         \* the rows of the collection view
    currentPage,
    TotalPages,
    searchedText,   \* the text the NEXT page request will use
    timers,         \* scheduled timers, in the order they fire
    requests,       \* requests in flight, in the order they were sent
    keystrokes,     \* how often textDidChange has run
    inOrder         \* history: see Receive

vars == <<photos, currentPage, TotalPages, searchedText,
          timers, requests, keystrokes, inOrder>>

-----------------------------------------------------------------------------
Timer == [kind : {"search"}, text : Text] \cup [kind : {"page"}]

Request == [kind : {"search", "page"}, query : Text, page : Nat \ {0}]

SearchTimer(text) == [kind |-> "search", text |-> text]
PageTimer == [kind |-> "page"]

TypeOK ==
    /\ photos \in Seq(Photo)
    /\ currentPage \in Nat \ {0}
    /\ TotalPages \in Nat
    /\ searchedText \in Text
    /\ timers \in Seq(Timer)
    /\ requests \in Seq(Request)
    /\ keystrokes \in 0 .. MaxKeystrokes
    /\ inOrder \in BOOLEAN

-----------------------------------------------------------------------------
\* viewDidLoad: setupView asks for page 1 of "random" at once, without timer.
Init ==
    /\ photos = <<>>
    /\ currentPage = 1
    /\ TotalPages = 0
    /\ searchedText = NoText
    /\ timers = <<>>
    /\ requests = <<[kind |-> "search", query |-> Random, page |-> 1]>>
    /\ keystrokes = 0
    /\ inOrder = TRUE

\* Mutant: the timer captures the text before it is assigned.
TextDidChangeLate(text) ==
    /\ keystrokes < MaxKeystrokes
    /\ keystrokes' = keystrokes + 1
    /\ searchedText' = text
    /\ timers' = Append(timers, SearchTimer(searchedText))
    /\ inOrder' = TRUE
    /\ UNCHANGED <<photos, currentPage, TotalPages, requests>>

\* The user edits the search bar.  The timer's block captures the text of THIS
\* key stroke; timers scheduled by earlier ones stay scheduled.
TextDidChange(text) ==
    /\ keystrokes < MaxKeystrokes
    /\ keystrokes' = keystrokes + 1
    /\ searchedText' = text
    /\ timers' = Append(timers, SearchTimer(text))
    /\ inOrder' = TRUE
    /\ UNCHANGED <<photos, currentPage, TotalPages, requests>>

\* Mutants: the page number goes down, stays, or passes the last page.
PageStep(row, enabled, next) ==
    /\ enabled
    /\ row = Len(photos)
    /\ currentPage' = next
    /\ timers' = Append(timers, PageTimer)
    /\ UNCHANGED <<photos, TotalPages, searchedText, requests, keystrokes, inOrder>>

WillDisplayBackwards(row) == PageStep(row, currentPage < TotalPages, currentPage - 1)
WillDisplayStays(row) == PageStep(row, currentPage < TotalPages, currentPage)
WillDisplayBeyond(row) == PageStep(row, currentPage <= TotalPages, currentPage + 1)

\* The collection view is about to display the cell of a row: the last row
\* asks for one more page.
WillDisplay(row) ==
    /\ currentPage < TotalPages
    /\ row = Len(photos)
    /\ currentPage' = currentPage + 1
    /\ timers' = Append(timers, PageTimer)
    /\ UNCHANGED <<photos, TotalPages, searchedText, requests, keystrokes, inOrder>>

\* Mutant: the page block asks for the page it has.
RequestOfSamePage(timer) ==
    IF timer.kind = "search"
    THEN [kind |-> "search", query |-> timer.text, page |-> 1]
    ELSE [kind |-> "page", query |-> searchedText, page |-> currentPage - 1]

\* The request a timer's block sends.  The page block captured nothing but self:
\* it reads the text and the page as they are NOW.
RequestOf(timer) ==
    IF timer.kind = "search"
    THEN [kind |-> "search", query |-> timer.text, page |-> 1]
    ELSE [kind |-> "page", query |-> searchedText, page |-> currentPage]

\* All timers have the same interval and one run loop: they fire in order.
TimerFires ==
    /\ timers # <<>>
    /\ requests' = Append(requests, RequestOf(Head(timers)))
    /\ timers' = Tail(timers)
    /\ UNCHANGED <<photos, currentPage, TotalPages, searchedText, keystrokes, inOrder>>

\* Mutant: a search extends the rows too.
ApplyAppends(request) ==
    /\ photos' = photos \o Results(request.query, request.page)
    /\ TotalPages' = PagesOf(request.query)

\* The completion of a search replaces the rows, that of a page extends them.
Apply(request) ==
    /\ photos' = IF request.kind = "search"
                 THEN Results(request.query, request.page)
                 ELSE photos \o Results(request.query, request.page)
    /\ TotalPages' = PagesOf(request.query)

\* The i-th request in flight is answered.  The history variable says whether,
\* since the last key stroke, every answer came in the order of the requests
\* and no search failed.
Answered(i) ==
    /\ requests' = RemoveAt(requests, i)
    /\ UNCHANGED <<currentPage, searchedText, timers, keystrokes>>

Receive(i) ==
    /\ Answered(i)
    /\ Apply(requests[i])
    /\ inOrder' = (inOrder /\ i = 1)

\* An error, or an answer that cannot be decoded.  fetchImages calls the
\* completion with nil (after an error twice, its `if let' has no return); the
\* completion returns on nil, and nothing retries: the page stays skipped.
ReceiveNothing(i) ==
    /\ Answered(i)
    /\ UNCHANGED <<photos, TotalPages>>
    /\ inOrder' = (inOrder /\ i = 1 /\ requests[i].kind = "page")

Next ==
    \/ \E text \in Text : TextDidChange(text)
    \/ \E row \in DOMAIN photos : WillDisplay(row)
    \/ TimerFires
    \/ \E i \in DOMAIN requests : Receive(i)
    \/ \E i \in DOMAIN requests : ReceiveNothing(i)

Spec == Init /\ [][Next]_vars

\* The run loop fires what is due and URLSession always calls its completion
\* handler (a timeout is an error).  The user owes the app nothing.
Completion == \E i \in DOMAIN requests : Receive(i) \/ ReceiveNothing(i)

Fairness == WF_vars(TimerFires) /\ WF_vars(Completion)

FairSpec == Spec /\ Fairness

-----------------------------------------------------------------------------
IsSearch(x) == x.kind = "search"

SearchPending ==
    \/ \E i \in DOMAIN timers : IsSearch(timers[i])
    \/ \E i \in DOMAIN requests : IsSearch(requests[i])

\* The screen belongs to query q: it starts with q's first page, every row is
\* one of q's photos, and the page count that stops the paging is q's.
Shows(q) ==
    /\ IsPrefix(Results(q, 1), photos)
    /\ \A i \in DOMAIN photos : photos[i].query = q
    /\ TotalPages = PagesOf(q)

\* Once the user has typed, and as soon as no search is on its way, the screen
\* shows the text in the search bar -- although no timer and no request of an
\* earlier text was ever cancelled -- provided that since the last key stroke
\* the answers came in order and no search failed.  Pages still on their way
\* cannot spoil it: they belong to the same text.  (MainVC.textDidChange,
\* MainVC.willDisplay and their completions.)
ShowsSearch ==
    keystrokes > 0 /\ inOrder /\ ~SearchPending => Shows(searchedText)

\* The app asks only for pages that some query has: the guard of willDisplay is
\* checked against the page count of the last answer, half a second before the
\* request is made, perhaps with another text.
PagesRequestedExist ==
    \A i \in DOMAIN requests :
        \/ requests[i].page = 1
        \/ \E q \in Text : requests[i].page <= PagesOf(q)

\* However often the last cell is displayed, the page loads on their way never
\* outnumber the pages that currentPage has advanced by: a screen's whole life
\* has at most as many page loads as the longest query has pages.
PageLoadsBounded ==
    LET loads(s) == Cardinality({i \in DOMAIN s : ~IsSearch(s[i])})
    IN  loads(timers) + loads(requests) <= currentPage - 1

\* Whatever was typed, and whatever answers overtook one another before, the
\* screen ends up with the text in the search bar for good, if the answers to
\* the last search did not overtake or fail.
EventuallyShowsSearch ==
    <>[](keystrokes > 0 /\ inOrder => ~SearchPending /\ Shows(searchedText))
=============================================================================
