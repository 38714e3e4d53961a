---------------------------- MODULE PatientFeed -----------------------------
(***************************************************************************)
(* SearchFeed under the environment its code is written for: a user who    *)
(* starts a search before scrolling and scrolls on only when nothing is on *)
(* its way, and a network that answers every request in order.  Under this *)
(* environment, and only under it, the search tab implements Feed:         *)
(*  - a second display of the last cell within the 0.5 s of the page timer *)
(*    makes both timers ask for the later page, so a page is skipped and   *)
(*    another listed twice;                                                *)
(*  - a failed page is skipped for good, currentPage having advanced;      *)
(*  - a search after scrolling continues at the old currentPage;           *)
(*  - scrolling the first, "random" listing asks for pages of the empty    *)
(*    text, because setupView does not set searchedText.                   *)
(***************************************************************************)
EXTENDS SearchFeed

VARIABLE patient    \* the session is one of that environment

NothingOnItsWay == timers = <<>> /\ requests = <<>>

PatientTextDidChange(text) ==
    /\ currentPage = 1
    /\ TextDidChange(text)

PatientWillDisplay(row) ==
    /\ keystrokes > 0
    /\ NothingOnItsWay
    /\ WillDisplay(row)

OrderlyReceive ==
    /\ requests # <<>>
    /\ Receive(1)

PatientNext ==
    \/ \E text \in Text : PatientTextDidChange(text)
    \/ \E row \in DOMAIN photos : PatientWillDisplay(row)
    \/ TimerFires
    \/ OrderlyReceive

\* A session of either environment, and of the same one for good.
SessionInit == Init /\ patient \in BOOLEAN

SessionNext ==
    \/ patient /\ PatientNext /\ UNCHANGED patient
    \/ ~patient /\ Next /\ UNCHANGED patient

SessionSpec ==
    SessionInit /\ [][SessionNext]_<<vars, patient>> /\ Fairness

-----------------------------------------------------------------------------
\* What Feed is implemented by: the rows of a patient session.
ListedRows == IF patient THEN photos ELSE <<>>

F == INSTANCE Feed WITH feed <- ListedRows

\* In a patient session the rows of the search tab are always the first pages
\* of one query: none twice, none skipped, none of another query; and they only
\* change to a first page or by the next page.  (The completions of
\* MainVC.textDidChange and MainVC.willDisplay, the reads of self.currentPage
\* and self.searchedText in the page timer's block.)
ImplementsFeed == F!Spec
=============================================================================
