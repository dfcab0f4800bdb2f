--------------------------- MODULE DocumentViewer ---------------------------
(***************************************************************************)
(* The viewer that a page opens on a document,                             *)
(* src/frontend/src/components/DocumentViewer.tsx, with the handleView of  *)
(* ClientDocuments.tsx and AdminCompanyDetail.tsx that fills it.  It covers *)
(* the page, so another document is chosen only once it is closed; what    *)
(* was asked for before may then still be on its way.                      *)
(***************************************************************************)
EXTENDS Naturals, Sequences, FiniteSets, SequencesExt

CONSTANTS
  Doc,    \* the documents of the page
  Mobile, \* the window is at most 640px wide
  MaxView \* bound: files asked for and not come yet

VARIABLES
  viewerOpen, viewerFileUrl, viewerFileName, viewerLoading,
  fullscreen, \* while it lasts the body of the page cannot be scrolled
  coming,     \* the files asked for and not come yet, oldest first
  closedBy,   \* what closed the viewer last
  mixed       \* the viewer was opened while an earlier file was still coming

viewerVars == <<viewerOpen, viewerFileUrl, viewerFileName, viewerLoading, fullscreen,
                coming, closedBy, mixed>>

ViewerInit ==
  /\ viewerOpen = FALSE /\ viewerFileUrl = "none" /\ viewerFileName = "none"
  /\ viewerLoading = FALSE /\ fullscreen = Mobile
  /\ coming = <<>> /\ closedBy = "none" /\ mixed = FALSE

KeptUrl == viewerFileUrl
NoUrl   == "none"

\* On a small screen the viewer opens fullscreen.
handleView(d) ==
  /\ ~viewerOpen /\ Len(coming) < MaxView
  /\ viewerOpen' = TRUE /\ viewerLoading' = TRUE
  /\ viewerFileUrl' = NoUrl
  /\ viewerFileName' = d
  /\ fullscreen' = (fullscreen \/ Mobile)
  /\ coming' = Append(coming, d)
  /\ mixed' = (coming # <<>>)
  /\ UNCHANGED closedBy

\* The answer, whichever it is for, is put into the viewer that is open now.
fileCame(i) ==
  /\ i \in DOMAIN coming
  /\ coming' = RemoveAt(coming, i)
  /\ viewerLoading' = FALSE
  /\ \/ viewerFileUrl' = coming[i] /\ UNCHANGED <<viewerOpen, closedBy>>
     \/ viewerOpen' = FALSE /\ closedBy' = "failure" /\ UNCHANGED viewerFileUrl
  /\ UNCHANGED <<viewerFileName, fullscreen, mixed>>

onClose(by) ==
  /\ viewerOpen' = FALSE /\ viewerFileUrl' = "none"
  /\ closedBy' = by
  /\ UNCHANGED <<viewerFileName, viewerLoading, coming, mixed>>

closeClicked == viewerOpen /\ onClose("click") /\ UNCHANGED fullscreen

toggleFullscreen ==
  /\ viewerOpen
  /\ fullscreen' = ~fullscreen
  /\ UNCHANGED <<viewerOpen, viewerFileUrl, viewerFileName, viewerLoading, coming, closedBy, mixed>>

\* The key is listened to while the viewer is closed, too.
handleEscape ==
  IF fullscreen
    THEN /\ fullscreen' = FALSE
         /\ UNCHANGED <<viewerOpen, viewerFileUrl, viewerFileName, viewerLoading, coming,
                        closedBy, mixed>>
    ELSE onClose("escape") /\ UNCHANGED fullscreen

ViewerNext ==
  \/ \E d \in Doc : handleView(d)
  \/ \E i \in 1..MaxView : fileCame(i)
  \/ closeClicked \/ toggleFullscreen \/ handleEscape

\* The viewer shows a file under that file's own name, unless it was closed before an
\* earlier file had come: that one may then come into the viewer of the next.
NameOfTheFile ==
  viewerOpen /\ viewerFileUrl # "none" /\ ~mixed => viewerFileUrl = viewerFileName

\* Who leaves the viewer by the Escape key alone gets the page's scrolling back.
EscapeFreesThePage == ~viewerOpen /\ closedBy = "escape" => ~fullscreen

=============================================================================
