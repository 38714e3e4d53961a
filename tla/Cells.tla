-------------------------------- MODULE Cells --------------------------------
(***************************************************************************)
(* The reusable cells of the photo lists (PrincipalCvCell): two image views *)
(* and two labels.  cellForItemAt dequeues a cell, perhaps with the loads  *)
(* of its earlier row still running, and sets its photo; the setter stops  *)
(* at the first address that is missing.  The pictures come from           *)
(* ImageLoader, whose other queues run between any two steps of the setter. *)
(***************************************************************************)
EXTENDS ImageLoader

CONSTANTS
    Photo,          \* the photos, or favourites, of the rows
    Full, Medium,   \* per photo: the address of its picture and of its user's
    NoPhoto, NoCell,
    MaxUses         \* bound: how often a cell is dequeued

ASSUME CellsAssumption ==
    /\ Full \in [Photo -> URL \cup {NoURL}] /\ Medium \in [Photo -> URL \cup {NoURL}]
    /\ NoPhoto \notin Photo /\ NoCell \notin Cell
    /\ MaxUses \in Nat

VARIABLES
    row,            \* per cell: the photo it was dequeued for last
    label,          \* per cell: the photo whose name and likes it shows
    setting,        \* the cell whose setter has not returned
    uses

vars == <<row, label, setting, uses, loaderVars>>

TypeOK ==
    /\ LoaderTypeOK
    /\ row \in [Cell -> Photo \cup {NoPhoto}]
    /\ label \in [Cell -> Photo \cup {NoPhoto}]
    /\ setting \in Cell \cup {NoCell}
    /\ uses \in 0 .. MaxUses

Init ==
    /\ LoaderInit
    /\ row = [c \in Cell |-> NoPhoto]
    /\ label = [c \in Cell |-> NoPhoto]
    /\ setting = NoCell
    /\ uses = 0

\* prepareForReuse empties the image views; it cancels nothing and leaves the
\* labels.
PrepareForReuse(c) == {c} \X {"imageView", "imageProfile"}

\* A cell is dequeued for a row, and its setter runs up to its second address.
Dequeue(c, photo) ==
    /\ setting = NoCell
    /\ uses < MaxUses
    /\ uses' = uses + 1
    /\ row' = [row EXCEPT ![c] = photo]
    /\ IF Full[photo] = NoURL
       THEN /\ picture' = [view \in View |-> IF view \in PrepareForReuse(c) THEN NoURL
                                          ELSE picture[view]]
            /\ UNCHANGED <<setting, current, loads, operations, URLOperations, memory,
                           disk, failedURLs, ioQueue, mainQueue, failures, raced>>
       ELSE /\ SetImage(PrepareForReuse(c), <<c, "imageView">>, Full[photo])
            /\ setting' = c
    /\ UNCHANGED label

\* The rest of the setter: the user's picture, and then the labels.
SetProfile ==
    /\ setting # NoCell
    /\ LET photo == row[setting]
       IN  IF Medium[photo] = NoURL THEN UNCHANGED <<label, loaderVars>>
           ELSE /\ SetImage({}, <<setting, "imageProfile">>, Medium[photo])
                /\ label' = [label EXCEPT ![setting] = photo]
    /\ setting' = NoCell
    /\ UNCHANGED <<row, uses>>

\* A block of the main queue waits for the setter to return.
MainQueueRuns ==
    /\ setting = NoCell
    /\ MainStep
    /\ UNCHANGED <<row, label, setting, uses>>

IOQueueRuns == IOStep /\ UNCHANGED <<row, label, setting, uses>>
DownloadsRun == DownloadStep /\ UNCHANGED <<row, label, setting, uses>>

Next ==
    \/ \E c \in Cell, photo \in Photo : Dequeue(c, photo)
    \/ SetProfile
    \/ MainQueueRuns
    \/ IOQueueRuns
    \/ DownloadsRun

\* Queues run what is on them, and a download ends (its timeout is an error).
Fairness ==
    /\ WF_vars(SetProfile)
    /\ WF_vars(MainQueueRuns)
    /\ WF_vars(IOQueueRuns)
    /\ WF_vars(DownloadsRun)

Spec == Init /\ [][Next]_vars /\ Fairness

-----------------------------------------------------------------------------
Address(c, view) ==
    IF row[c] = NoPhoto THEN NoURL
    ELSE IF view = "imageView" THEN Full[row[c]] ELSE Medium[row[c]]

\* The setter ran to its end for the row.
Complete(c) ==
    /\ setting # c
    /\ Address(c, "imageView") # NoURL /\ Address(c, "imageProfile") # NoURL

\* However often a cell is reused while pictures of its earlier rows are being
\* read, downloaded or delivered: if its photo has both addresses it shows no
\* other photo's name, and in each view its own picture or none.
\* (PrincipalCvCell.unslplashPhoto, prepareForReuse; the cancellation in
\* sd_setImageWithURL: and the checks of isCancelled in SDWebImageManager.)
ShowsItsRow ==
    \A c \in Cell : Complete(c) =>
        /\ label[c] = row[c]
        /\ \A view \in {"imageView", "imageProfile"} :
                picture[<<c, view>>] \in {NoURL, Address(c, view)}

\* Every picture a cell asks for appears in the end, unless its download failed
\* or its callback joined a download whose callbacks were collected already: no
\* cancellation of one cell's load takes another's picture of the same address
\* away.  (SDWebImageDownloader.downloadImageWithURL:, the operation's cancel:.)
EventuallyShown ==
    <>[](~raced =>
            \A c \in Cell : Complete(c) =>
                \A view \in {"imageView", "imageProfile"} :
                    \/ picture[<<c, view>>] = Address(c, view)
                    \/ \E i \in DOMAIN failures : failures[i] = Address(c, view))
=============================================================================
