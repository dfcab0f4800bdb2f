------------------------ MODULE ClientDocumentsPage -------------------------
(***************************************************************************)
(* The page on which a client hands in documents:                          *)
(* src/frontend/src/pages/ClientDocuments.tsx.  One KYC file at a time, a  *)
(* list of files at once, the signed agreement and the request for review  *)
(* can all be under way together; each ends by loading the page's data     *)
(* again.  Progress, messages, file names and the viewer (see              *)
(* DocumentViewer) are left out.                                           *)
(***************************************************************************)
EXTENDS Naturals, FiniteSets, Sequences, SequencesExt

CONSTANTS
  Bulk,    \* files for the bulk upload
  Single,  \* files for the upload form
  MaxLoad, \* bound: loads of the page's data under way at once
  MaxLost  \* bound: uploads whose answer is lost

File == Bulk \cup Single \cup {"signed"}

VARIABLES
  uploaded,   \* the server's rows: the files it holds,
  twice,    \* and those it holds more than once
  stage,    \* onboardingStage of the company, at the server
  myDocuments,    \* documents and company, as loaded last
  docsLoading,
  docsLoads,    \* the loads under way: what the server held when it was asked
  file,     \* selectedFile, "none" if there is none
  uploading,\* what the form or the button of the signed agreement uploads, "none",
            \* or "loading" while the load that follows is under way
  items,    \* status of a file of bulkItems, "out" before and "gone" after it is listed
  bulkUploading,
  reviewing,\* submittingReview
  lost,     \* the files an answer of whose upload was lost
  docsUnseen    \* the last load failed, or overlapped another

docsVars == <<uploaded, twice, stage, myDocuments, docsLoading, docsLoads, file, uploading,
              items, bulkUploading, reviewing, lost, docsUnseen>>

\* An answer to a load asked for by op once the server holds the files D.
Answer(D, st, op) == [docs |-> D, stage |-> st, op |-> op]

DocsInit ==
  /\ uploaded = {} /\ twice = {}
  /\ stage \in {"KYC_IN_PROGRESS", "AGREEMENT_DRAFT_SHARED"}
  /\ myDocuments = Answer({}, "none", "page")
  /\ docsLoading = TRUE /\ docsLoads = <<Answer({}, stage, "page")>>
  /\ file = "none" /\ uploading = "none"
  /\ items = [f \in Bulk |-> "out"] /\ bulkUploading = FALSE
  /\ reviewing = FALSE
  /\ lost = {} /\ docsUnseen = FALSE

server == <<uploaded, twice, stage, lost>>
data   == <<myDocuments, docsLoading, docsLoads, docsUnseen>>
one    == <<file, uploading>>
many   == <<items, bulkUploading>>

\* The page is blank while it loads.
Clickable == ~docsLoading

-----------------------------------------------------------------------------
loadData(now) ==
  /\ Len(docsLoads) < MaxLoad
  /\ docsLoading' = TRUE
  /\ docsLoads' = Append(docsLoads, now)
  /\ docsUnseen' = (docsLoads # <<>>)
  /\ UNCHANGED myDocuments

\* The operation that asked for the load ends with it.
dataLoaded(i) ==
  /\ i \in DOMAIN docsLoads
  /\ \/ myDocuments' = docsLoads[i] /\ UNCHANGED docsUnseen
     \/ UNCHANGED myDocuments /\ docsUnseen' = TRUE
  /\ docsLoads' = RemoveAt(docsLoads, i)
  /\ docsLoading' = FALSE
  /\ uploading' = IF docsLoads[i].op = "upload" THEN "none" ELSE uploading
  /\ reviewing' = (reviewing /\ docsLoads[i].op # "review")
  /\ UNCHANGED <<server, file, many>>

\* How an upload ends: done, refused, or stored with the answer lost.
Store(f)   == uploaded' = uploaded \cup {f} /\ twice' = twice \cup ({f} \cap uploaded)
Done(f)    == Store(f) /\ UNCHANGED <<lost, stage>>
Refused    == UNCHANGED server
Lost(f)    == /\ f \notin lost /\ Cardinality(lost) < MaxLost
              /\ lost' = lost \cup {f} /\ Store(f) /\ UNCHANGED stage

-----------------------------------------------------------------------------
(* One file.                                                               *)

canUploadKyc == myDocuments.stage \in {"KYC_IN_PROGRESS", "KYC_REVIEW", "PAYMENT_CONFIRMED"}

\* Or a draft is listed, which it only is in that stage.
canUploadSigned == "signed" \notin myDocuments.docs /\ myDocuments.stage = "AGREEMENT_DRAFT_SHARED"

\* The buttons that choose a file are not disabled by an upload in progress.
openUploadForType(f) ==
  /\ Clickable /\ canUploadKyc
  /\ file' = f
  /\ UNCHANGED <<server, data, uploading, many, reviewing>>

cancelUpload ==
  /\ Clickable /\ canUploadKyc /\ file # "none" /\ uploading = "none"
  /\ file' = "none"
  /\ UNCHANGED <<server, data, uploading, many, reviewing>>

handleUpload ==
  /\ Clickable /\ canUploadKyc /\ file # "none" /\ uploading = "none"
  /\ uploading' = file
  /\ UNCHANGED <<server, data, file, many, reviewing>>

handleUploadSignedAgreement ==
  /\ Clickable /\ canUploadSigned /\ uploading = "none"
  /\ uploading' = "signed"
  /\ UNCHANGED <<server, data, file, many, reviewing>>

\* Success clears whatever the form holds by then, failure leaves it for a retry.
uploadAnswered ==
  /\ uploading \in Single \cup {"signed"}
  /\ \/ /\ Done(uploading)
        /\ loadData(Answer(uploaded \cup {uploading}, stage, "upload"))
        /\ file' = IF uploading = "signed" THEN file ELSE "none"
        /\ uploading' = "loading"
     \/ (Refused \/ Lost(uploading)) /\ uploading' = "none" /\ UNCHANGED <<data, file>>
  /\ UNCHANGED <<many, reviewing>>

-----------------------------------------------------------------------------
(* The bulk upload.                                                        *)

handleBulkFilesSelected(f) ==
  /\ Clickable /\ canUploadKyc /\ ~bulkUploading
  /\ items[f] = "out"
  /\ items' = [items EXCEPT ![f] = "pending"]
  /\ UNCHANGED <<server, data, one, bulkUploading, reviewing>>

removeBulkItem(f) ==
  /\ Clickable /\ canUploadKyc /\ ~bulkUploading
  /\ items[f] \in {"pending", "error"}
  /\ items' = [items EXCEPT ![f] = "gone"]
  /\ UNCHANGED <<server, data, one, bulkUploading, reviewing>>

clearList ==
  /\ Clickable /\ canUploadKyc /\ ~bulkUploading
  /\ \E f \in Bulk : items[f] = "done"
  /\ items' = [f \in Bulk |-> IF items[f] = "out" THEN "out" ELSE "gone"]
  /\ UNCHANGED <<server, data, one, bulkUploading, reviewing>>

Unsent  == {f \in Bulk : items[f] \in {"pending", "error"}}
Listed  == {f \in Bulk : items[f] \notin {"out", "gone"}}
Pending == Unsent

\* All files start at once.
handleBulkUpload ==
  /\ Clickable /\ canUploadKyc /\ ~bulkUploading
  /\ Unsent # {}
  /\ bulkUploading' = TRUE
  /\ items' = [f \in Bulk |-> IF f \in Pending THEN "uploading" ELSE items[f]]
  /\ UNCHANGED <<server, data, one, reviewing>>

bulkItemAnswered(f) ==
  /\ items[f] = "uploading"
  /\ \/ Done(f) /\ items' = [items EXCEPT ![f] = "done"]
     \/ (Refused \/ Lost(f)) /\ items' = [items EXCEPT ![f] = "error"]
  /\ UNCHANGED <<data, one, bulkUploading, reviewing>>

Reload == loadData(Answer(uploaded, stage, "bulk"))

bulkFinished ==
  /\ bulkUploading /\ \A f \in Bulk : items[f] # "uploading"
  /\ bulkUploading' = FALSE
  /\ Reload
  /\ UNCHANGED <<server, one, items, reviewing>>

-----------------------------------------------------------------------------
(* The request for review.                                                 *)

handleSubmitKycForReview ==
  /\ Clickable /\ myDocuments.stage = "KYC_IN_PROGRESS" /\ ~reviewing
  /\ \E f \in Bulk : items[f] = "done"
  /\ reviewing' = TRUE
  /\ UNCHANGED <<server, data, one, many>>

reviewAnswered ==
  /\ reviewing /\ \A i \in DOMAIN docsLoads : docsLoads[i].op # "review"
  /\ \/ /\ stage = "KYC_IN_PROGRESS" /\ stage' = "KYC_REVIEW"
        /\ loadData(Answer(uploaded, "KYC_REVIEW", "review"))
        /\ UNCHANGED <<uploaded, twice, lost, reviewing>>
     \/ reviewing' = FALSE /\ UNCHANGED <<server, data>>
  /\ UNCHANGED <<one, many>>

DocsNext ==
  \/ \E i \in 1..MaxLoad : dataLoaded(i)
  \/ cancelUpload \/ handleUpload \/ handleUploadSignedAgreement \/ uploadAnswered
  \/ \E f \in Single : openUploadForType(f)
  \/ \E f \in Bulk : handleBulkFilesSelected(f) \/ removeBulkItem(f) \/ bulkItemAnswered(f)
  \/ handleBulkUpload \/ bulkFinished \/ clearList
  \/ handleSubmitKycForReview \/ reviewAnswered

-----------------------------------------------------------------------------
(* Properties.                                                             *)

\* A file of the bulk upload is stored twice only after the answer of its upload was
\* lost: a retry sends what has not been sent, and the list is not sent twice at once.
NothingStoredTwice == twice \cap Bulk \subseteq lost

\* At rest the page lists every file it calls uploaded, unless its last load failed
\* or another one was under way: an older answer may then have come last.
UploadsAreListed ==
  ~bulkUploading /\ docsLoads = <<>> /\ ~docsUnseen =>
    {f \in Bulk : items[f] = "done"} \subseteq myDocuments.docs

=============================================================================
