---------------------------- MODULE FrontEndProofs ----------------------------
(***************************************************************************)
(* Theorems about the pages of FrontEnd, for any files, spaces, prices,    *)
(* amounts and tabs, and however many calls of the server, stops, losses   *)
(* and clicks the bounds of a page allow.                                  *)
(***************************************************************************)
EXTENDS FrontEnd, FiniteSetTheorems, SequenceTheorems, TLAPS

-----------------------------------------------------------------------------
(* Pages.                                                                  *)

\* A step of the front end is one of the page that is open; it leaves the others alone.
LEMMA PageSteps ==
  ASSUME [FrontNext]_frontVars
  PROVE  /\ Session!SessionNext \/ UNCHANGED sessionVars
         /\ Spaces!ListNext \/ bookSpace \/ UNCHANGED spacesVars
         /\ Book!BookNext \/ Desk!BookNext \/ UNCHANGED bookVars
         /\ Docs!DocsNext \/ UNCHANGED docsVars
         /\ Viewer!ViewerNext \/ Phone!ViewerNext \/ UNCHANGED viewerVars
         /\ Review!ReviewNext \/ UNCHANGED reviewVars
         /\ Register!RegisterNext \/ UNCHANGED registerVars
         /\ Lists!ListsNext \/ UNCHANGED listsVars
         /\ Pricing!PricingNext \/ UNCHANGED pricingVars
         /\ Profile!ProfileNext \/ UNCHANGED profileVars
         /\ Dashboard!DashboardNext \/ UNCHANGED dashboardVars
         /\ Money!AmountsNext \/ UNCHANGED amountsVars
         /\ Files!FilesNext \/ UNCHANGED filesVars
<1>1. CASE bookSpace
  BY <1>1 DEF bookSpace, Others
<1>2. CASE pageStep
  BY <1>2 DEF pageStep, Others
<1>3. CASE UNCHANGED frontVars
  BY <1>3 DEF frontVars
<1> QED BY <1>1, <1>2, <1>3 DEF FrontNext

-----------------------------------------------------------------------------
(* The file of an invoice.                                                 *)

Places == {"none", "pdf", "put", "note", "mail", "answer", "done", "lost"}
Ways   == {"none", "attachment", "link", "file", "url", "made"}

FilesTyped ==
  /\ setting \in [storage : BOOLEAN, contactEmail : BOOLEAN]
  /\ pdf \in [key : BOOLEAN, url : {"none", "fresh", "old"}] /\ bucket \in BOOLEAN
  /\ doing \in [Files!Worker -> [at : Places, way : Ways]]
  /\ letters \in Nat /\ spoilt \in BOOLEAN

\* Where the chain of the payment and a reader may be.
Tasks ==
  /\ doing["payment"].way \in {"attachment", "link"}
  /\ doing["payment"].at \in {"pdf", "put", "note", "mail", "done", "lost"}
  /\ doing["request"].way \in {"none", "file", "url", "made"}
  /\ doing["request"].at \in {"none", "pdf", "put", "note", "answer"}

\* The file is in the bucket before the row notes it, and the row names it before anybody
\* answers with it or mails it; a link made for a reader is good until the reader has it.
Noted ==
  /\ \A w \in Files!Worker : Files!At(w, "note") => bucket
  /\ Files!At("request", "answer") \/ Files!At("payment", "mail") => pdf.key
  /\ Files!At("request", "answer") => pdf.url = "fresh" \/ doing["request"].way # "made"
  /\ pdf.key <=> pdf.url # "none"

\* The chain has mailed nothing before it is through.
Unmailed == doing["payment"].at \notin {"done", "lost"} => letters = 0

FilesInv == FilesTyped /\ Tasks /\ Noted /\ Unmailed /\ InvoiceFileIsThere

LEMMA FilesInvInit == FrontInit => FilesInv
<1> SUFFICES ASSUME Files!FilesInit PROVE FilesInv
  BY DEF FrontInit
<1>1. /\ doing["payment"] = [at |-> "pdf", way |-> "attachment"]
      /\ doing["request"] = [at |-> "none", way |-> "none"]
      /\ DOMAIN doing = Files!Worker /\ doing = [w \in DOMAIN doing |-> doing[w]]
  BY DEF Files!FilesInit, Files!Worker
<1>2. doing \in [Files!Worker -> [at : Places, way : Ways]]
  BY <1>1, SMT DEF Files!Worker, Places, Ways
<1>3. FilesTyped /\ Tasks
  BY <1>1, <1>2 DEF Files!FilesInit, FilesTyped, Tasks
<1>4. Noted /\ Unmailed /\ InvoiceFileIsThere
  BY <1>1 DEF Files!FilesInit, Noted, Unmailed, InvoiceFileIsThere, Files!FileIsThere,
              Files!MailedOnce, Files!At, Files!Worker
<1> QED BY <1>3, <1>4 DEF FilesInv

Went(w, place, way) ==
  /\ doing' \in [Files!Worker -> [at : Places, way : Ways]]
  /\ doing'[w].at = place /\ doing'[w].way = way
  /\ \A v \in Files!Worker \ {w} : doing'[v] = doing[v]

LEMMA GoDoes ==
  ASSUME FilesTyped, NEW w \in Files!Worker, NEW place \in Places, Files!Go(w, place)
  PROVE  Went(w, place, doing[w].way)
BY DEF FilesTyped, Files!Go, Went, Files!Worker, Places, Ways

Failed(w) ==
  \/ /\ doing[w].way = "attachment" /\ Went(w, "pdf", "link")
     /\ UNCHANGED <<handed, spoilt>>
  \/ /\ doing[w].way = "link" /\ Went(w, "done", "link")
     /\ spoilt' = TRUE /\ handed' = handed
  \/ /\ w = "request" /\ Went(w, "none", doing[w].way)
     /\ spoilt' = spoilt /\ handed' = "error"

LEMMA FailDoes ==
  ASSUME FilesTyped, Tasks, NEW w \in Files!Worker, Files!Fail(w)
  PROVE  Failed(w)
<1> USE DEF Failed
<1>1. CASE doing[w].way = "attachment"
  BY <1>1 DEF FilesTyped, Files!Fail, Went, Files!Worker, Places, Ways
<1>2. CASE doing[w].way = "link"
  BY <1>2, GoDoes DEF Files!Fail, Places
<1>3. CASE doing[w].way \notin {"attachment", "link"}
  BY <1>3, GoDoes DEF Files!Fail, Places, Tasks, Files!Worker
<1> QED BY <1>1, <1>2, <1>3

LEMMA FilesInvKept ==
  ASSUME FilesInv, Files!FilesNext
  PROVE  FilesInv'
<1> USE DEF Files!Worker
<1> DEFINE Inner == FilesTyped /\ Tasks /\ Noted /\ Unmailed
<1>0. Inner /\ InvoiceFileIsThere
  BY DEF FilesInv
<1> HIDE DEF Inner
<1>1. ASSUME NEW w \in Files!Worker, Files!makePdf(w)
      PROVE  FilesInv'
  <2>1. /\ Went(w, "put", doing[w].way) /\ UNCHANGED <<handed, spoilt>>
        \/ Failed(w)
    BY <1>1, <1>0, GoDoes, FailDoes DEF Files!makePdf, Inner, Places
  <2>2. doing[w].at = "pdf" /\ UNCHANGED <<setting, pdf, bucket, letters>>
    BY <1>1 DEF Files!makePdf, Files!At
  <2>3. FilesTyped'
    BY <1>0, <2>1, <2>2 DEF Failed, Inner, FilesTyped, Went
  <2>4. Tasks'
    BY <1>0, <2>1, <2>2 DEF Failed, Inner, Tasks, Went
  <2>5. Noted'
    BY <1>0, <2>1, <2>2 DEF Failed, Inner, Noted, Went, Files!At
  <2>6. Unmailed'
    BY <1>0, <2>1, <2>2 DEF Failed, Inner, Unmailed, Went
  <2>7. InvoiceFileIsThere'
    BY <1>0, <2>1, <2>2 DEF Failed, Inner, InvoiceFileIsThere, Unmailed, Tasks, Files!FileIsThere, Files!MailedOnce, Files!At, Went
  <2> QED BY <2>3, <2>4, <2>5, <2>6, <2>7 DEF FilesInv
<1>2. ASSUME NEW w \in Files!Worker, Files!putObject(w)
      PROVE  FilesInv'
  <2>1. \/ /\ Went(w, "note", doing[w].way) /\ UNCHANGED <<handed, spoilt>> /\ bucket' = TRUE
        \/ Failed(w) /\ bucket' \in BOOLEAN /\ (bucket => bucket')
    BY <1>2, <1>0, GoDoes, FailDoes DEF Files!putObject, Inner, Places, FilesTyped
  <2>2. doing[w].at = "put" /\ UNCHANGED <<setting, pdf, letters>>
    BY <1>2 DEF Files!putObject, Files!At
  <2>3. FilesTyped'
    BY <1>0, <2>1, <2>2 DEF Failed, Inner, FilesTyped, Went
  <2>4. Tasks'
    BY <1>0, <2>1, <2>2 DEF Failed, Inner, Tasks, Went
  <2>5. Noted'
    BY <1>0, <2>1, <2>2 DEF Failed, Inner, Noted, Went, Files!At
  <2>6. Unmailed'
    BY <1>0, <2>1, <2>2 DEF Failed, Inner, Unmailed, Went
  <2>7. InvoiceFileIsThere'
    BY <1>0, <2>1, <2>2 DEF Failed, Inner, InvoiceFileIsThere, Unmailed, Tasks, Noted,
       Files!FileIsThere, Files!MailedOnce, Files!At, Went
  <2> QED BY <2>3, <2>4, <2>5, <2>6, <2>7 DEF FilesInv
<1>3. ASSUME NEW w \in Files!Worker, Files!noteFile(w)
      PROVE  FilesInv'
  <2>1. \/ /\ Went(w, IF w = "payment" THEN "mail" ELSE "answer", doing[w].way)
           /\ UNCHANGED <<handed, spoilt>> /\ pdf' = [key |-> TRUE, url |-> "fresh"]
        \/ Failed(w) /\ UNCHANGED pdf
    BY <1>3, <1>0, GoDoes, FailDoes DEF Files!noteFile, Inner, Places
  <2>8. /\ pdf' \in [key : BOOLEAN, url : {"none", "fresh", "old"}]
        /\ (pdf' = pdf) \/ (pdf'.key /\ pdf'.url = "fresh")
    <3>1. [key |-> TRUE, url |-> "fresh"] \in [key : BOOLEAN, url : {"none", "fresh", "old"}]
      OBVIOUS
    <3>2. pdf \in [key : BOOLEAN, url : {"none", "fresh", "old"}]
      BY <1>0 DEF Inner, FilesTyped
    <3>3. pdf' = pdf \/ pdf' = [key |-> TRUE, url |-> "fresh"]
      BY <2>1
    <3> QED BY <3>1, <3>2, <3>3
  <2>2. doing[w].at = "note" /\ UNCHANGED <<setting, bucket, letters>>
    BY <1>3 DEF Files!noteFile, Files!At
  <2>3. FilesTyped'
    BY <1>0, <2>1, <2>2, <2>8 DEF Failed, Inner, FilesTyped, Went
  <2>4. Tasks'
    BY <1>0, <2>1, <2>2, <2>8 DEF Failed, Inner, Tasks, Went
  <2>5. Noted'
    BY <1>0, <2>1, <2>2, <2>8 DEF Failed, Inner, Noted, Went, Files!At
  <2>6. Unmailed'
    BY <1>0, <2>1, <2>2, <2>8 DEF Failed, Inner, Unmailed, Went
  <2>7. InvoiceFileIsThere'
    BY <1>0, <2>1, <2>2, <2>8 DEF Failed, Inner, InvoiceFileIsThere, Unmailed, Tasks, Noted,
       Files!FileIsThere, Files!MailedOnce, Files!At, Went
  <2> QED BY <2>3, <2>4, <2>5, <2>6, <2>7 DEF FilesInv
<1>4. CASE Files!sendInvoiceEmailWithAttachment
  <2>1. \/ /\ Went("payment", "done", doing["payment"].way) /\ UNCHANGED handed
           /\ letters' \in {0, 1} /\ spoilt' \in BOOLEAN /\ (~spoilt' => ~spoilt /\ letters' = 1)
        \/ Failed("payment") /\ UNCHANGED letters
        \/ /\ Went("payment", "done", doing["payment"].way) /\ UNCHANGED <<handed, letters, spoilt>>
           /\ ~setting.contactEmail
    BY <1>4, <1>0, GoDoes, FailDoes
    DEF Files!sendInvoiceEmailWithAttachment, Files!Mailed, Inner, Noted, Unmailed, FilesTyped, Files!At, Places
  <2>2. /\ doing["payment"].at = "mail" /\ letters = 0
        /\ UNCHANGED <<setting, pdf, bucket>>
    BY <1>4, <1>0 DEF Files!sendInvoiceEmailWithAttachment, Files!At, Inner, Unmailed
  <2>3. FilesTyped'
    <3>1. doing' \in [Files!Worker -> [at : Places, way : Ways]]
      BY <2>1 DEF Failed, Went
    <3>2. letters' \in Nat
      BY <2>1, <2>2
    <3>3. spoilt' \in BOOLEAN
      BY <1>0, <2>1, Zenon DEF Failed, Inner, FilesTyped
    <3> QED BY <1>0, <2>2, <3>1, <3>2, <3>3 DEF Inner, FilesTyped
  <2>4. Tasks'
    BY <1>0, <2>1, <2>2 DEF Failed, Inner, Tasks, Went
  <2>5. Noted'
    BY <1>0, <2>1, <2>2 DEF Failed, Inner, Noted, Went, Files!At
  <2>6. Unmailed'
    BY <1>0, <2>1, <2>2 DEF Failed, Inner, Unmailed, Went
  <2>7. InvoiceFileIsThere'
    BY <1>0, <2>1, <2>2 DEF Failed, Inner, InvoiceFileIsThere, Unmailed, Tasks, Noted,
       Files!FileIsThere, Files!MailedOnce, Files!At, Went
  <2> QED BY <2>3, <2>4, <2>5, <2>6, <2>7 DEF FilesInv
<1>5. CASE Files!sendInvoiceEmail
  <2>1. \/ /\ Went("payment", "done", doing["payment"].way) /\ UNCHANGED handed
           /\ letters' \in {0, 1} /\ spoilt' \in BOOLEAN /\ (~spoilt' => ~spoilt /\ letters' = 1)
        \/ Failed("payment") /\ UNCHANGED letters
        \/ /\ Went("payment", "done", doing["payment"].way) /\ UNCHANGED <<handed, letters, spoilt>>
           /\ ~setting.contactEmail
    BY <1>5, <1>0, GoDoes, FailDoes
    DEF Files!sendInvoiceEmail, Files!Mailed, Inner, Noted, Unmailed, FilesTyped, Files!At, Places
  <2>2. /\ doing["payment"].at = "mail" /\ letters = 0
        /\ UNCHANGED <<setting, pdf, bucket>>
    BY <1>5, <1>0 DEF Files!sendInvoiceEmail, Files!At, Inner, Unmailed
  <2>3. FilesTyped'
    <3>1. doing' \in [Files!Worker -> [at : Places, way : Ways]]
      BY <2>1 DEF Failed, Went
    <3>2. letters' \in Nat
      BY <2>1, <2>2
    <3>3. spoilt' \in BOOLEAN
      BY <1>0, <2>1, Zenon DEF Failed, Inner, FilesTyped
    <3> QED BY <1>0, <2>2, <3>1, <3>2, <3>3 DEF Inner, FilesTyped
  <2>4. Tasks'
    BY <1>0, <2>1, <2>2 DEF Failed, Inner, Tasks, Went
  <2>5. Noted'
    BY <1>0, <2>1, <2>2 DEF Failed, Inner, Noted, Went, Files!At
  <2>6. Unmailed'
    BY <1>0, <2>1, <2>2 DEF Failed, Inner, Unmailed, Went
  <2>7. InvoiceFileIsThere'
    BY <1>0, <2>1, <2>2 DEF Failed, Inner, InvoiceFileIsThere, Unmailed, Tasks, Noted,
       Files!FileIsThere, Files!MailedOnce, Files!At, Went
  <2> QED BY <2>3, <2>4, <2>5, <2>6, <2>7 DEF FilesInv
<1>6. CASE Files!streamInvoiceFile \/ Files!getDownloadUrl
  <2>1. PICK way \in {"file", "url"} : Files!Ask(way)
    BY <1>6 DEF Files!streamInvoiceFile, Files!getDownloadUrl
  <2>2. /\ doing["request"].at = "none" /\ UNCHANGED <<setting, pdf, bucket, letters, spoilt>>
        /\ handed' \in {"error", "nothing"}
    BY <2>1 DEF Files!Ask, Files!At
  <2>8. \/ doing' = doing
        \/ pdf.key /\ Went("request", "answer", way)
        \/ ~pdf.key /\ Went("request", "pdf", IF way = "file" THEN "file" ELSE "made")
    BY <2>1, <1>0 DEF Files!Ask, Inner, FilesTyped, Went, Places, Ways
  <2>3. FilesTyped'
    BY <1>0, <2>2, <2>8 DEF Inner, FilesTyped, Went
  <2>4. Tasks'
    BY <1>0, <2>2, <2>8 DEF Inner, Tasks, Went
  <2>5. Noted'
    BY <1>0, <2>2, <2>8 DEF Inner, Noted, Went, Files!At
  <2>6. Unmailed'
    BY <1>0, <2>2, <2>8 DEF Inner, Unmailed, Went
  <2>7. InvoiceFileIsThere'
    BY <1>0, <2>2, <2>8 DEF Inner, InvoiceFileIsThere, Unmailed, Tasks, Noted,
       Files!FileIsThere, Files!MailedOnce, Files!At, Went
  <2> QED BY <2>3, <2>4, <2>5, <2>6, <2>7 DEF FilesInv
<1>7. CASE Files!answered
  <2>1. Went("request", "none", doing["request"].way)
    BY <1>7, <1>0, GoDoes DEF Files!answered, Inner, Places
  <2>2. /\ doing["request"].at = "answer" /\ UNCHANGED <<setting, pdf, bucket, letters, spoilt>>
        /\ handed' \in {"error", CASE doing["request"].way = "file" -> IF bucket THEN "file" ELSE "error"
                                [] doing["request"].way = "made" -> pdf.url
                                [] OTHER -> IF bucket THEN "fresh" ELSE "dead"}
    BY <1>7 DEF Files!answered, Files!At
  <2>8. handed' \in {"error", "file", "fresh"}
    BY <1>0, <2>2 DEF Inner, Noted, Tasks, InvoiceFileIsThere, Files!FileIsThere, Files!At
  <2>3. FilesTyped'
    BY <1>0, <2>1, <2>2, <2>8 DEF Inner, FilesTyped, Went
  <2>4. Tasks'
    BY <1>0, <2>1, <2>2, <2>8 DEF Inner, Tasks, Went
  <2>5. Noted'
    BY <1>0, <2>1, <2>2, <2>8 DEF Inner, Noted, Went, Files!At
  <2>6. Unmailed'
    BY <1>0, <2>1, <2>2, <2>8 DEF Inner, Unmailed, Went
  <2>7. InvoiceFileIsThere'
    BY <1>0, <2>1, <2>2, <2>8 DEF Inner, InvoiceFileIsThere, Unmailed, Tasks, Noted,
       Files!FileIsThere, Files!MailedOnce, Files!At, Went
  <2> QED BY <2>3, <2>4, <2>5, <2>6, <2>7 DEF FilesInv
<1>8. CASE Files!urlExpires
  <2>1. /\ doing["request"].at = "none" /\ doing["payment"].at \in {"done", "lost"}
        /\ pdf.url = "fresh" /\ pdf' = [pdf EXCEPT !.url = "old"]
        /\ handed' \in {handed, "nothing"} /\ UNCHANGED <<setting, bucket, letters, spoilt, doing>>
    BY <1>8 DEF Files!urlExpires, Files!Idle, Files!At
  <2>2. pdf'.key = pdf.key /\ pdf'.url = "old" /\ pdf' \in [key : BOOLEAN, url : {"none", "fresh", "old"}]
    BY <2>1, <1>0 DEF Inner, FilesTyped
  <2>3. FilesTyped'
    BY <1>0, <2>1, <2>2 DEF Inner, FilesTyped, Went
  <2>4. Tasks'
    BY <1>0, <2>1, <2>2 DEF Inner, Tasks, Went
  <2>5. Noted'
    BY <1>0, <2>1, <2>2 DEF Inner, Noted, Went, Files!At
  <2>6. Unmailed'
    BY <1>0, <2>1, <2>2 DEF Inner, Unmailed, Went
  <2>7. InvoiceFileIsThere'
    BY <1>0, <2>1, <2>2 DEF Inner, InvoiceFileIsThere, Unmailed, Tasks, Noted,
       Files!FileIsThere, Files!MailedOnce, Files!At, Went
  <2> QED BY <2>3, <2>4, <2>5, <2>6, <2>7 DEF FilesInv
<1>9. CASE Files!serviceStops
  <2> DEFINE mid == [doing EXCEPT !["payment"].at = IF @ = "done" THEN "done" ELSE "lost"]
  <2>1. mid \in [Files!Worker -> [at : Places, way : Ways]]
        /\ mid["payment"].at = (IF doing["payment"].at = "done" THEN "done" ELSE "lost")
        /\ mid["payment"].way = doing["payment"].way /\ mid["request"] = doing["request"]
    BY <1>0 DEF Inner, FilesTyped, Places
  <2>2. doing' = [mid EXCEPT !["request"].at = "none"]
    BY <1>9 DEF Files!serviceStops
  <2> HIDE DEF mid
  <2>8. /\ doing' \in [Files!Worker -> [at : Places, way : Ways]]
        /\ doing'["payment"] = mid["payment"]
        /\ doing'["request"].at = "none" /\ doing'["request"].way = doing["request"].way
    BY <2>1, <2>2 DEF Places
  <2>9. /\ handed' \in {handed, "error"} /\ UNCHANGED <<setting, pdf, bucket, letters>>
        /\ spoilt' = (spoilt \/ doing["payment"].at # "done")
    BY <1>9 DEF Files!serviceStops, Files!At
  <2>3. FilesTyped'
    BY <1>0, <2>1, <2>8, <2>9 DEF Inner, FilesTyped, Went
  <2>4. Tasks'
    BY <1>0, <2>1, <2>8, <2>9 DEF Inner, Tasks, Went
  <2>5. Noted'
    BY <1>0, <2>1, <2>8, <2>9 DEF Inner, Noted, Went, Files!At
  <2>6. Unmailed'
    BY <1>0, <2>1, <2>8, <2>9 DEF Inner, Unmailed, Went
  <2>7. InvoiceFileIsThere'
    BY <1>0, <2>1, <2>8, <2>9 DEF Inner, InvoiceFileIsThere, Unmailed, Tasks, Noted,
       Files!FileIsThere, Files!MailedOnce, Files!At, Went
  <2> QED BY <2>3, <2>4, <2>5, <2>6, <2>7 DEF FilesInv
<1> QED BY <1>1, <1>2, <1>3, <1>4, <1>5, <1>6, <1>7, <1>8, <1>9 DEF Files!FilesNext

\* An invoice that names its file has it, no link is dead or over its week, and the client is
\* mailed once at most, whoever else makes the file and wherever the service stops
\* (generateInvoiceForPayment, streamInvoiceFile, getDownloadUrl).
THEOREM Invoice_file_is_there == FrontSpec => []InvoiceFileIsThere
<1>1. FilesInv /\ [FrontNext]_frontVars => FilesInv'
  <2> SUFFICES ASSUME FilesInv, [FrontNext]_frontVars
               PROVE  FilesInv'
    OBVIOUS
  <2>1. CASE UNCHANGED filesVars
    BY <2>1 DEF filesVars, FilesInv, FilesTyped, Tasks, Noted, Unmailed, InvoiceFileIsThere,
                Files!FileIsThere, Files!MailedOnce, Files!At
  <2> QED BY <2>1, PageSteps, FilesInvKept
<1>2. FilesInv => InvoiceFileIsThere
  BY DEF FilesInv
<1> QED BY <1>1, <1>2, FilesInvInit, PTL DEF FrontSpec

-----------------------------------------------------------------------------
(* The viewer of documents.                                                *)

\* Unless it was opened while an earlier file was on its way, what comes is what it is
\* open for.
ViewerInv ==
  /\ ~mixed => coming \in {<<>>, <<viewerFileName>>}
  /\ Viewer!NameOfTheFile /\ Viewer!EscapeFreesThePage

LEMMA RemoveOnly ==
  ASSUME NEW x, NEW i \in DOMAIN <<x>>
  PROVE  Viewer!RemoveAt(<<x>>, i) = <<>>
<1>1. i = 1
  OBVIOUS
<1> QED BY <1>1 DEF Viewer!RemoveAt

LEMMA ViewerInvKept ==
  ASSUME ViewerInv, Viewer!ViewerNext \/ Phone!ViewerNext
  PROVE  ViewerInv'
<1> USE DEF ViewerInv, Viewer!NameOfTheFile, Viewer!EscapeFreesThePage
<1>1. ASSUME NEW d \in Doc, Viewer!handleView(d) \/ Phone!handleView(d)
      PROVE  ViewerInv'
  <2>1. mixed' = (coming # <<>>) /\ coming' = Append(coming, d) /\ viewerFileName' = d
        /\ viewerFileUrl' = "none" /\ viewerOpen'
    BY <1>1 DEF Viewer!handleView, Phone!handleView, Viewer!NoUrl, Phone!NoUrl
  <2>2. coming = <<>> => coming' = <<d>>
    BY <2>1
  <2> QED BY <2>1, <2>2
<1>2. ASSUME NEW i \in 1..MaxView, Viewer!fileCame(i) \/ Phone!fileCame(i)
      PROVE  ViewerInv'
  <2>1. /\ i \in DOMAIN coming /\ coming' = Viewer!RemoveAt(coming, i)
        /\ \/ viewerFileUrl' = coming[i] /\ UNCHANGED <<viewerOpen, closedBy>>
           \/ viewerOpen' = FALSE /\ closedBy' = "failure" /\ UNCHANGED viewerFileUrl
        /\ UNCHANGED <<viewerFileName, fullscreen, mixed>>
    BY <1>2 DEF Viewer!fileCame, Phone!fileCame, Viewer!RemoveAt, Phone!RemoveAt
  <2>2. ~mixed => coming[i] = viewerFileName /\ coming' = <<>>
    BY <2>1, RemoveOnly
  <2> QED BY <2>1, <2>2
<1>3. CASE Viewer!closeClicked \/ Phone!closeClicked
  BY <1>3 DEF Viewer!closeClicked, Phone!closeClicked, Viewer!onClose, Phone!onClose
<1>4. CASE Viewer!toggleFullscreen \/ Phone!toggleFullscreen
  BY <1>4 DEF Viewer!toggleFullscreen, Phone!toggleFullscreen
<1>5. CASE Viewer!handleEscape \/ Phone!handleEscape
  BY <1>5 DEF Viewer!handleEscape, Phone!handleEscape, Viewer!onClose, Phone!onClose
<1> QED BY <1>1, <1>2, <1>3, <1>4, <1>5 DEF Viewer!ViewerNext, Phone!ViewerNext

LEMMA ViewerSafe ==
  ASSUME ViewerInv, [FrontNext]_frontVars
  PROVE  ViewerInv'
<1>1. CASE UNCHANGED viewerVars
  BY <1>1 DEF viewerVars, ViewerInv, Viewer!NameOfTheFile, Viewer!EscapeFreesThePage
<1> QED BY <1>1, PageSteps, ViewerInvKept

LEMMA ViewerInit == FrontInit => ViewerInv
BY DEF FrontInit, Viewer!ViewerInit, Phone!ViewerInit, ViewerInv, Viewer!NameOfTheFile,
       Viewer!EscapeFreesThePage

-----------------------------------------------------------------------------
(* The page of a client's documents.                                       *)

Uploaded == {f \in Bulk : items[f] = "done"}

\* What a load has for the page, if one alone is on its way, or has had.
Fetched(docs) ==
  \/ docsLoads = <<>> /\ docs = myDocuments.docs
  \/ \E load : docsLoads = <<load>> /\ docs = load.docs

\* A file that is to be sent is not stored, unless an answer was lost; what is called
\* uploaded is stored, and in what comes next.
DocsInv ==
  /\ items = [f \in Bulk |-> items[f]]
  /\ \A f \in Bulk : items[f] \notin {"done", "gone"} /\ f \in uploaded => f \in lost
  /\ \A f \in Bulk : items[f] = "uploading" => bulkUploading
  /\ Uploaded \subseteq uploaded
  /\ ~docsUnseen => \E docs : Fetched(docs) /\ (~bulkUploading => Uploaded \subseteq docs)
  /\ Docs!NothingStoredTwice

\* What DocsInv says of is as it was.
ItemsKept == UNCHANGED <<items, bulkUploading>>
LoadsKept == UNCHANGED <<myDocuments, docsLoads, docsUnseen>>
StoreKept == UNCHANGED <<uploaded, twice, lost>>

\* A file that no bulk upload sends is stored.
OtherStored ==
  \E f \in Single \cup {"signed"} :
    /\ uploaded' = uploaded \cup {f} /\ twice' \subseteq twice \cup {f} /\ lost \subseteq lost'

\* A load begins, of what the server has by then.
LoadBegins ==
  /\ docsUnseen' = (docsLoads # <<>>)
  /\ \E load : docsLoads' = Append(docsLoads, load) /\ load.docs = uploaded'

LEMMA BegunLoad ==
  ASSUME NEW load, Docs!loadData(load), load.docs = uploaded'
  PROVE  LoadBegins
BY DEF Docs!loadData, LoadBegins

LEMMA LoadCovers ==
  ASSUME DocsInv, LoadBegins, Uploaded' \subseteq uploaded'
  PROVE  ~docsUnseen' => \E docs : Fetched(docs)' /\ Uploaded' \subseteq docs
<1>1. PICK load : docsLoads' = Append(docsLoads, load) /\ load.docs = uploaded'
  BY DEF LoadBegins
<1>2. CASE docsLoads = <<>>
  <2>1. docsLoads' = <<load>>
    BY <1>1, <1>2
  <2> QED BY <1>1, <2>1 DEF Fetched
<1>3. CASE docsLoads # <<>>
  BY <1>3 DEF LoadBegins
<1> QED BY <1>2, <1>3

LEMMA ServerAndLoads ==
  ASSUME DocsInv, ItemsKept, StoreKept \/ OtherStored, LoadsKept \/ LoadBegins
  PROVE  DocsInv'
<1>1. /\ \A f \in Bulk : f \in uploaded' => f \in uploaded
      /\ uploaded \subseteq uploaded' /\ lost \subseteq lost' /\ twice' \cap Bulk \subseteq twice
  BY FrontEndAssumption DEF StoreKept, OtherStored
<1>2. Uploaded' = Uploaded
  BY DEF ItemsKept, Uploaded
<1>3. Uploaded' \subseteq uploaded'
  BY <1>1, <1>2 DEF DocsInv
<1>4. ~docsUnseen' => \E docs : Fetched(docs)' /\ (~bulkUploading' => Uploaded' \subseteq docs)
  <2>1. CASE LoadsKept
    BY <2>1, <1>2 DEF LoadsKept, ItemsKept, DocsInv, Fetched
  <2>2. CASE LoadBegins
    BY <2>2, <1>3, LoadCovers
  <2> QED BY <2>1, <2>2
<1> QED BY <1>1, <1>3, <1>4 DEF DocsInv, ItemsKept, Docs!NothingStoredTwice

\* The items change, the server and the loads do not.
LEMMA ItemsChange ==
  ASSUME DocsInv, StoreKept, LoadsKept, items' = [f \in Bulk |-> items'[f]],
         \A f \in Bulk : \/ items'[f] = items[f]
                         \/ items'[f] = "gone"
                         \/ items'[f] = "pending" /\ items[f] # "done" /\ items[f] # "gone"
                         \/ items'[f] = "uploading" /\ items[f] # "done" /\ items[f] # "gone"
                            /\ bulkUploading',
         bulkUploading => bulkUploading'
  PROVE  DocsInv'
<1>1. Uploaded' \subseteq Uploaded
  BY DEF Uploaded
<1>2. ~docsUnseen' => \E docs : Fetched(docs)' /\ (~bulkUploading' => Uploaded' \subseteq docs)
  BY <1>1 DEF LoadsKept, DocsInv, Fetched
<1> QED BY <1>1, <1>2 DEF DocsInv, StoreKept, Docs!NothingStoredTwice

LEMMA DocsLoaded ==
  ASSUME DocsInv, NEW i, Docs!dataLoaded(i)
  PROVE  DocsInv'
<1>1. /\ i \in DOMAIN docsLoads /\ docsLoads' = SubSeq(docsLoads, 1, i-1) \o SubSeq(docsLoads, i+1, Len(docsLoads))
      /\ \/ myDocuments' = docsLoads[i] /\ UNCHANGED docsUnseen
         \/ UNCHANGED myDocuments /\ docsUnseen' = TRUE
  BY DEF Docs!dataLoaded, Docs!RemoveAt
<1>2. ItemsKept /\ StoreKept
  BY DEF Docs!dataLoaded, Docs!server, Docs!many, ItemsKept, StoreKept
<1>3. ASSUME ~docsUnseen'
      PROVE  \E docs : Fetched(docs)' /\ (~bulkUploading' => Uploaded' \subseteq docs)
  <2>1. PICK docs : Fetched(docs) /\ (~bulkUploading => Uploaded \subseteq docs)
    BY <1>1, <1>3 DEF DocsInv
  <2>2. PICK load : docsLoads = <<load>> /\ docs = load.docs
    BY <1>1, <2>1 DEF Fetched
  <2>3. i = 1 /\ docsLoads' = <<>> /\ myDocuments' = load
    BY <1>1, <1>3, <2>2
  <2> QED BY <1>2, <2>1, <2>2, <2>3 DEF Fetched, ItemsKept, Uploaded
<1> QED BY <1>2, <1>3 DEF DocsInv, ItemsKept, StoreKept, Uploaded, Docs!NothingStoredTwice

LEMMA DocsAnswered ==
  ASSUME DocsInv, NEW f \in Bulk, Docs!bulkItemAnswered(f)
  PROVE  DocsInv'
<1>1. items[f] = "uploading" /\ bulkUploading /\ bulkUploading' = bulkUploading /\ LoadsKept
  BY DEF DocsInv, Docs!bulkItemAnswered, Docs!data, LoadsKept
<1>2. \/ /\ items' = [items EXCEPT ![f] = "done"] /\ lost' = lost
         /\ uploaded' = uploaded \cup {f} /\ twice' = twice \cup ({f} \cap uploaded)
      \/ /\ items' = [items EXCEPT ![f] = "error"] /\ lost' = lost \cup {f}
         /\ uploaded' = uploaded \cup {f} /\ twice' = twice \cup ({f} \cap uploaded)
      \/ items' = [items EXCEPT ![f] = "error"] /\ StoreKept
  BY DEF Docs!bulkItemAnswered, Docs!Done, Docs!Refused, Docs!Lost, Docs!Store, Docs!server, StoreKept
<1>3. items' = [g \in Bulk |-> items'[g]] /\ \A g \in Bulk \ {f} : items'[g] = items[g]
  BY <1>2 DEF DocsInv
<1>4. items'[f] \in {"done", "error"}
  BY <1>2 DEF DocsInv
<1>5. /\ f \in uploaded => f \in lost
      /\ twice' \cap Bulk \subseteq lost' /\ lost \subseteq lost' /\ uploaded \subseteq uploaded'
      /\ uploaded' \subseteq uploaded \cup {f}
      /\ items'[f] = "done" => f \in uploaded'
      /\ items'[f] = "error" /\ f \in uploaded' => f \in lost'
  BY <1>1, <1>2 DEF DocsInv, StoreKept, Docs!NothingStoredTwice
<1>6. ~docsUnseen' => \E docs : Fetched(docs)'
  BY <1>1 DEF LoadsKept, DocsInv, Fetched
<1>7. Uploaded' \subseteq uploaded'
  BY <1>3, <1>5 DEF Uploaded, DocsInv
<1> QED BY <1>1, <1>3, <1>4, <1>5, <1>6, <1>7 DEF DocsInv, Docs!NothingStoredTwice

LEMMA DocsInvKept ==
  ASSUME DocsInv, Docs!DocsNext
  PROVE  DocsInv'
<1> USE DEF Docs!server, Docs!data, Docs!one, Docs!many
<1>1. CASE \E i \in 1..MaxLoad : Docs!dataLoaded(i)
  BY <1>1, DocsLoaded
<1>2. CASE \/ Docs!cancelUpload \/ Docs!handleUpload \/ Docs!handleUploadSignedAgreement
           \/ Docs!handleSubmitKycForReview \/ \E f \in Single : Docs!openUploadForType(f)
  <2>1. ItemsKept /\ StoreKept /\ LoadsKept
    BY <1>2 DEF Docs!cancelUpload, Docs!handleUpload, Docs!handleUploadSignedAgreement,
       Docs!handleSubmitKycForReview, Docs!openUploadForType, ItemsKept, StoreKept, LoadsKept
  <2> QED BY <2>1, ServerAndLoads
<1>3. CASE Docs!uploadAnswered
  <2>1. ItemsKept /\ (StoreKept \/ OtherStored) /\ (LoadsKept \/ LoadBegins)
    <3>1. CASE (Docs!Refused \/ Docs!Lost(uploading)) /\ LoadsKept
      BY <1>3, <3>1 DEF Docs!uploadAnswered, Docs!Refused, Docs!Lost, Docs!Store,
         ItemsKept, StoreKept, OtherStored
    <3>2. CASE Docs!Done(uploading) /\ Docs!loadData(Docs!Answer(uploaded \cup {uploading}, stage, "upload"))
      <4>1. ItemsKept /\ OtherStored /\ uploaded' = uploaded \cup {uploading}
        BY <1>3, <3>2 DEF Docs!uploadAnswered, Docs!Done, Docs!Store, ItemsKept, OtherStored
      <4>2. LoadBegins
        BY <3>2, <4>1, BegunLoad DEF Docs!Answer
      <4> QED BY <4>1, <4>2
    <3> QED BY <1>3, <3>1, <3>2 DEF Docs!uploadAnswered, LoadsKept
  <2> QED BY <2>1, ServerAndLoads
<1>4. CASE Docs!reviewAnswered
  <2>1. ItemsKept /\ StoreKept /\ (LoadsKept \/ LoadBegins)
    <3>1. ItemsKept /\ StoreKept
      BY <1>4 DEF Docs!reviewAnswered, ItemsKept, StoreKept
    <3>2. LoadsKept \/ Docs!loadData(Docs!Answer(uploaded, "KYC_REVIEW", "review"))
      BY <1>4 DEF Docs!reviewAnswered, LoadsKept
    <3>3. LoadsKept \/ LoadBegins
      BY <3>1, <3>2, BegunLoad DEF Docs!Answer, StoreKept
    <3> QED BY <3>1, <3>3
  <2> QED BY <2>1, ServerAndLoads
<1>5. CASE Docs!bulkFinished
  <2>1. LoadBegins /\ StoreKept /\ items' = items /\ \A f \in Bulk : items[f] # "uploading"
    BY <1>5 DEF Docs!bulkFinished, Docs!Reload, Docs!loadData, Docs!Answer, StoreKept, LoadBegins
  <2>2. Uploaded' \subseteq uploaded'
    BY <2>1 DEF Uploaded, StoreKept, DocsInv
  <2>3. ~docsUnseen' => \E docs : Fetched(docs)' /\ Uploaded' \subseteq docs
    BY <2>1, <2>2, LoadCovers
  <2> QED BY <2>1, <2>2, <2>3 DEF DocsInv, StoreKept, Docs!NothingStoredTwice
<1>6. ASSUME NEW f \in Bulk, Docs!handleBulkFilesSelected(f) \/ Docs!removeBulkItem(f)
      PROVE  DocsInv'
  <2>1. StoreKept /\ LoadsKept /\ bulkUploading' = bulkUploading
    BY <1>6 DEF Docs!handleBulkFilesSelected, Docs!removeBulkItem, StoreKept, LoadsKept
  <2>2. \/ items[f] = "out" /\ items' = [items EXCEPT ![f] = "pending"]
        \/ items' = [items EXCEPT ![f] = "gone"]
    BY <1>6 DEF Docs!handleBulkFilesSelected, Docs!removeBulkItem
  <2>3. items' = [g \in Bulk |-> items'[g]] /\ \A g \in Bulk \ {f} : items'[g] = items[g]
    BY <2>2 DEF DocsInv
  <2>4. items'[f] = "gone" \/ (items'[f] = "pending" /\ items[f] = "out")
    BY <2>2 DEF DocsInv
  <2> QED BY <2>1, <2>3, <2>4, ItemsChange
<1>7. CASE Docs!clearList
  <2>1. StoreKept /\ LoadsKept /\ bulkUploading' = bulkUploading
    BY <1>7 DEF Docs!clearList, StoreKept, LoadsKept
  <2>2. items' = [f \in Bulk |-> IF items[f] = "out" THEN "out" ELSE "gone"]
    BY <1>7 DEF Docs!clearList
  <2>3. items' = [f \in Bulk |-> items'[f]]
        /\ \A f \in Bulk : items'[f] = items[f] \/ items'[f] = "gone"
    BY <2>2
  <2> QED BY <2>1, <2>3, ItemsChange
<1>8. CASE Docs!handleBulkUpload
  <2>1. StoreKept /\ LoadsKept /\ bulkUploading'
    BY <1>8 DEF Docs!handleBulkUpload, StoreKept, LoadsKept
  <2>2. items' = [f \in Bulk |-> IF f \in Docs!Pending THEN "uploading" ELSE items[f]]
    BY <1>8 DEF Docs!handleBulkUpload
  <2>3. items' = [f \in Bulk |-> items'[f]]
        /\ \A f \in Bulk : \/ items'[f] = items[f]
                           \/ items'[f] = "uploading" /\ items[f] \in {"pending", "error"}
    BY <2>2 DEF Docs!Pending, Docs!Unsent
  <2> QED BY <2>1, <2>3, ItemsChange
<1> QED BY <1>1, <1>2, <1>3, <1>4, <1>5, <1>6, <1>7, <1>8, DocsAnswered DEF Docs!DocsNext

LEMMA DocsSafe ==
  ASSUME DocsInv, [FrontNext]_frontVars
  PROVE  DocsInv'
<1>1. CASE UNCHANGED docsVars
  BY <1>1 DEF docsVars, DocsInv, Uploaded, Fetched, Docs!NothingStoredTwice
<1> QED BY <1>1, PageSteps, DocsInvKept

LEMMA DocsInit == FrontInit => DocsInv
BY DEF FrontInit, Docs!DocsInit, Docs!Answer, DocsInv, Uploaded, Fetched, Docs!NothingStoredTwice

\* What the client handed in is stored once and listed, and the viewer shows each file under
\* its own name, however uploads, retries, loads and views overlap (handleBulkUpload,
\* loadData, handleView).
THEOREM Documents_as_shown == FrontSpec => []DocumentsAsShown
<1>1. DocsInv => Docs!UploadsAreListed
  BY DEF DocsInv, Fetched, Uploaded, Docs!UploadsAreListed
<1>2. DocsInv /\ ViewerInv => DocumentsAsShown
  BY <1>1 DEF DocsInv, ViewerInv, DocumentsAsShown
<1>3. DocsInv /\ ViewerInv /\ [FrontNext]_frontVars => DocsInv' /\ ViewerInv'
  BY DocsSafe, ViewerSafe
<1>4. FrontInit => DocsInv /\ ViewerInv
  BY DocsInit, ViewerInit
<1> QED BY <1>2, <1>3, <1>4, PTL DEF FrontSpec

-----------------------------------------------------------------------------
(* The paged lists.                                                        *)

Queries == [filter : BOOLEAN, search : BOOLEAN, page : 0..2]

\* The rows of a query are those of the fields on the screen.
OnScreen(q) == /\ q.page = asked.page /\ q.filter = asked.filter
               /\ list = "AdminBookings" => q.search = asked.search

\* Unless an answer was overtaken, the youngest load is for what is on the screen, and so are
\* the rows when none is on its way; there are pages as of the rows that are shown; and who is
\* on a later page of a filtered list came there before the answer.
ListsInv ==
  /\ list \in DOMAIN Lists!Reloads /\ asked \in Queries /\ asked.page >= 1
  /\ calls \in Seq(Queries) /\ crossed \in BOOLEAN /\ hasty \in BOOLEAN
  /\ shown \in Queries /\ pagination \in 0..2
  /\ ~crossed /\ calls # <<>> => OnScreen(calls[Len(calls)])
  /\ Lists!Settled => OnScreen(shown)
  /\ shown # Lists!None => pagination = Lists!Pages(shown)
  /\ asked.filter /\ asked.page > 1 => hasty

LEMMA RemoveOne ==
  ASSUME NEW S, NEW s \in Seq(S), NEW i \in DOMAIN s
  PROVE  /\ Lists!RemoveAt(s, i) \in Seq(S)
         /\ i = 1 /\ Len(s) = 1 => Lists!RemoveAt(s, i) = <<>>
         /\ i = 1 /\ Len(s) > 1 => /\ Lists!RemoveAt(s, i) # <<>>
                                   /\ Lists!RemoveAt(s, i)[Len(Lists!RemoveAt(s, i))] = s[Len(s)]
<1>1. i \in Nat /\ 1 <= i /\ i <= Len(s) /\ Len(s) \in Nat
  OBVIOUS
<1>2. SubSeq(s, 1, i-1) \in Seq(S) /\ SubSeq(s, i+1, Len(s)) \in Seq(S)
  BY <1>1
<1>3. Lists!RemoveAt(s, i) \in Seq(S)
  BY <1>2 DEF Lists!RemoveAt
<1>4. ASSUME i = 1
      PROVE  Lists!RemoveAt(s, i) = SubSeq(s, 2, Len(s))
  BY <1>1, <1>2, <1>4 DEF Lists!RemoveAt
<1>5. i = 1 /\ Len(s) = 1 => Lists!RemoveAt(s, i) = <<>>
  BY <1>4
<1>6. ASSUME i = 1, Len(s) > 1
      PROVE  /\ Lists!RemoveAt(s, i) # <<>>
             /\ Lists!RemoveAt(s, i)[Len(Lists!RemoveAt(s, i))] = s[Len(s)]
  BY <1>1, <1>4, <1>6
<1> QED BY <1>3, <1>5, <1>6

LEMMA SentLast ==
  ASSUME NEW S, NEW s \in Seq(S), NEW q \in S, NEW t \in Seq(S),
         t = s \o <<q>> \/ t = s \o <<q, q>>
  PROVE  t # <<>> /\ t[Len(t)] = q
OBVIOUS

LEMMA AskKeeps ==
  ASSUME ListsInv, NEW q \in Queries, Lists!Ask(q), q.page >= 1,
         list = "ClientInvoices" => q.filter = asked.filter,
         q.filter /\ q.page > 1 => hasty \/ (q.page > asked.page /\ ~Lists!Settled)
  PROVE  ListsInv'
<1>1. asked' = q /\ UNCHANGED <<list, shown, pagination>>
      /\ hasty' = ((q.page > asked.page /\ ~Lists!Settled) \/ (hasty /\ q.page > 1))
  BY DEF Lists!Ask
<1>2. CASE \E f \in Lists!Reloads[list] : q[f] # asked[f]
  <2>1. calls' = calls \o <<q>> /\ crossed' = (crossed /\ calls # <<>>)
    BY <1>2 DEF Lists!Ask, Lists!Send
  <2>2. calls' \in Seq(Queries) /\ calls' # <<>> /\ calls'[Len(calls')] = q
    BY <2>1, SentLast DEF ListsInv
  <2>3. OnScreen(q)'
    BY <1>1 DEF OnScreen
  <2>4. ~crossed' /\ calls' # <<>> => OnScreen(calls[Len(calls)])'
    BY <1>1, <2>2 DEF OnScreen
  <2> QED BY <1>1, <2>1, <2>2, <2>4 DEF ListsInv, Lists!Settled, Lists!Pages
<1>3. CASE ~\E f \in Lists!Reloads[list] : q[f] # asked[f]
  <2>1. UNCHANGED <<calls, crossed>>
    BY <1>3 DEF Lists!Ask
  <2>2. \A f \in Lists!Reloads[list] : q[f] = asked[f]
    BY <1>3
  <2>3. /\ "page" \in Lists!Reloads[list]
        /\ list # "ClientInvoices" => "filter" \in Lists!Reloads[list]
        /\ list = "AdminBookings" => "search" \in Lists!Reloads[list]
    BY DEF ListsInv, Lists!Reloads, Lists!AdminPaymentsReloads, Lists!AdminBookingsReloads,
           Lists!AdminInvoicesReloads, Lists!ClientInvoicesReloads
  <2>4. q.page = asked.page /\ q.filter = asked.filter
        /\ (list = "AdminBookings" => q.search = asked.search)
    BY <2>2, <2>3
  <2>5. \A r : OnScreen(r) => OnScreen(r)'
    BY <1>1, <2>4 DEF OnScreen
  <2> QED BY <1>1, <2>1, <2>4, <2>5 DEF ListsInv, Lists!Settled, Lists!Pages, OnScreen
<1> QED BY <1>2, <1>3

LEMMA ListsInvKept ==
  ASSUME ListsInv, Lists!ListsNext
  PROVE  ListsInv'
<1>1. CASE Lists!setFilter
  <2> DEFINE p == [asked EXCEPT !.filter = ~@]
             q == [p EXCEPT !.page = 1]
  <2>1. Lists!Ask(q) /\ list # "ClientInvoices"
    BY <1>1 DEF Lists!setFilter, Lists!FirstPage
  <2>2. p \in Queries
    BY DEF ListsInv, Queries
  <2> HIDE DEF p
  <2>3. q \in Queries /\ q.page = 1
    BY <2>2 DEF Queries
  <2> HIDE DEF q
  <2> QED BY <2>1, <2>3, AskKeeps
<1>2. CASE Lists!setSearchQuery
  <2> DEFINE q == [asked EXCEPT !.search = ~@]
  <2>1. Lists!Ask(q) /\ list # "ClientInvoices"
    BY <1>2 DEF Lists!setSearchQuery
  <2>2. q \in Queries /\ q.page = asked.page /\ q.filter = asked.filter
    BY DEF ListsInv, Queries
  <2> HIDE DEF q
  <2> QED BY <2>1, <2>2, AskKeeps DEF ListsInv
<1>3. CASE Lists!clearFilters
  <2>1. Lists!Ask(Lists!First) /\ list # "ClientInvoices"
    BY <1>3 DEF Lists!clearFilters
  <2>2. Lists!First \in Queries /\ Lists!First.page = 1
    BY DEF Lists!First, Queries
  <2> QED BY <2>1, <2>2, AskKeeps
<1>4. CASE Lists!previous
  <2> DEFINE q == [asked EXCEPT !.page = @ - 1]
  <2>1. Lists!Ask(q) /\ asked.page > 1
    BY <1>4 DEF Lists!previous
  <2>2. q \in Queries /\ q.page = asked.page - 1 /\ q.filter = asked.filter
    BY <2>1 DEF ListsInv, Queries
  <2> HIDE DEF q
  <2>3. asked.page \in 0..2
    BY DEF ListsInv, Queries
  <2> QED BY <2>1, <2>2, <2>3, AskKeeps DEF ListsInv
<1>5. CASE Lists!next
  <2> DEFINE q == [asked EXCEPT !.page = @ + 1]
  <2>1. Lists!Ask(q) /\ asked.page < pagination
    BY <1>5 DEF Lists!next
  <2>2. asked.page \in 1..2 /\ pagination \in 0..2
    BY DEF ListsInv, Queries
  <2>3. q \in Queries /\ q.page = asked.page + 1 /\ q.filter = asked.filter
    BY <2>1, <2>2 DEF ListsInv, Queries
  <2> HIDE DEF q
  <2>4. asked.filter => ~Lists!Settled
    <3> SUFFICES ASSUME asked.filter, Lists!Settled
                 PROVE  FALSE
      OBVIOUS
    <3>1. shown.filter = asked.filter
      BY DEF ListsInv, OnScreen
    <3>2. pagination = Lists!Pages(shown)
      BY DEF ListsInv, Lists!Settled
    <3>3. pagination = 1
      BY <3>1, <3>2 DEF Lists!Pages
    <3> QED BY <2>1, <2>2, <3>3
  <2> QED BY <2>1, <2>2, <2>3, <2>4, AskKeeps
<1>6. CASE Lists!handleSearch \/ Lists!refreshed
  <2> DEFINE q == IF Lists!handleSearch THEN [asked EXCEPT !.page = 1] ELSE asked
  <2>1. q \in Queries /\ q.page \in {1, asked.page} /\ q.filter = asked.filter
    BY DEF ListsInv, Queries
  <2>2. /\ asked' = q
        /\ calls' = calls \o <<q>> \/ calls' = calls \o <<q, q>>
        /\ crossed' = (crossed /\ calls # <<>>)
        /\ (hasty' = hasty \/ (hasty' = FALSE /\ q.page = 1))
        /\ UNCHANGED <<list, shown, pagination>>
    <3>1. CASE Lists!handleSearch
      <4>1. q = [asked EXCEPT !.page = 1] /\ q.page = 1
        BY <3>1 DEF ListsInv, Queries
      <4> HIDE DEF q
      <4> QED BY <3>1, <4>1 DEF Lists!handleSearch, Lists!Send
    <3>2. CASE ~Lists!handleSearch
      <4>1. q = asked /\ Lists!refreshed
        BY <1>6, <3>2
      <4> HIDE DEF q
      <4> QED BY <4>1 DEF Lists!refreshed, Lists!Send
    <3> QED BY <3>1, <3>2
  <2> HIDE DEF q
  <2>a. calls \in Seq(Queries) /\ (calls' = calls \o <<q>> \/ calls' = calls \o <<q, q>>)
    BY <2>2 DEF ListsInv
  <2>p. <<q>> \in Seq(Queries) /\ <<q, q>> \in Seq(Queries)
    BY <2>1
  <2>q. \A s, t \in Seq(Queries) : s \o t \in Seq(Queries)
    OBVIOUS
  <2>b. calls' \in Seq(Queries)
    BY <2>p, <2>q, <2>a, Zenon
  <2>3. calls' # <<>> /\ calls'[Len(calls')] = q
    BY <2>1, <2>a, <2>b, SentLast
  <2>4. ~crossed' /\ calls' # <<>> => OnScreen(calls[Len(calls)])'
    BY <2>2, <2>3 DEF OnScreen
  <2>5. hasty' \in BOOLEAN /\ crossed' \in BOOLEAN /\ (asked'.filter /\ asked'.page > 1 => hasty')
    <3>1. hasty \in BOOLEAN /\ crossed \in BOOLEAN
      BY DEF ListsInv
    <3>2. hasty' \in BOOLEAN /\ crossed' \in BOOLEAN
      BY <2>2, <3>1, Zenon
    <3>3. ~(1 > 1)
      OBVIOUS
    <3>4. asked.filter /\ asked.page > 1 => hasty
      BY DEF ListsInv
    <3>5. ASSUME asked'.filter, asked'.page > 1
          PROVE  hasty'
      <4>1. q.page > 1 /\ asked.filter
        BY <2>1, <2>2, <3>5, Zenon
      <4>2. q.page # 1
        BY <3>3, <4>1, Zenon
      <4>3. asked.page > 1 /\ hasty' = hasty
        BY <2>1, <2>2, <4>1, <4>2, Zenon
      <4> QED BY <3>4, <4>1, <4>3, Zenon
    <3> QED BY <3>2, <3>5
  <2>6. asked'.page >= 1
    BY <2>1, <2>2 DEF ListsInv
  <2>7. shown' # Lists!None => pagination' = Lists!Pages(shown)'
    BY <2>2 DEF ListsInv, Lists!Pages
  <2> QED BY <2>1, <2>2, <2>b, <2>3, <2>4, <2>5, <2>6, <2>7 DEF ListsInv, Lists!Settled
<1>7. ASSUME NEW i \in 1..MaxCalls, Lists!loaded(i) \/ Lists!loadFailed(i)
      PROVE  ListsInv'
  <2>1. /\ i \in DOMAIN calls /\ calls' = Lists!RemoveAt(calls, i)
        /\ crossed' = (crossed \/ i > 1) /\ UNCHANGED <<list, asked, hasty>>
    BY <1>7 DEF Lists!loaded, Lists!loadFailed, Lists!Answered
  <2>2. \/ shown' = calls[i] /\ pagination' = Lists!Pages(calls[i])
        \/ shown' = Lists!None /\ pagination' \in {0, pagination}
    BY <1>7 DEF Lists!loaded, Lists!loadFailed
  <2>a. calls \in Seq(Queries) /\ i \in DOMAIN calls
    BY <2>1 DEF ListsInv
  <2>c. /\ calls' \in Seq(Queries)
        /\ i = 1 /\ Len(calls) = 1 => calls' = <<>>
        /\ i = 1 /\ Len(calls) > 1 => calls' # <<>> /\ calls'[Len(calls')] = calls[Len(calls)]
    BY <2>1, <2>a, RemoveOne
  <2>3. calls' \in Seq(Queries) /\ calls[i] \in Queries
    BY <2>a, <2>c
  <2>4. Lists!None \in Queries /\ Lists!Pages(calls[i]) \in 0..2
    BY DEF Lists!None, Queries, Lists!Pages
  <2>5. \A r : OnScreen(r)' <=> OnScreen(r)
    BY <2>1 DEF OnScreen
  <2>6. ~crossed' /\ calls' # <<>> => OnScreen(calls[Len(calls)])'
    <3> SUFFICES ASSUME ~crossed', calls' # <<>>
                 PROVE  OnScreen(calls[Len(calls)])'
      OBVIOUS
    <3>1. ~(i > 1) /\ ~crossed
      BY <2>1
    <3>2. i = 1 /\ Len(calls) \in Nat /\ Len(calls) >= 1
      BY <2>a, <3>1
    <3>3. Len(calls) > 1
      <4>1. Len(calls) # 1
        BY <2>c, <3>2
      <4>2. \A n \in Nat : n >= 1 /\ n # 1 => n > 1
        OBVIOUS
      <4> QED BY <3>2, <4>1, <4>2, Zenon
    <3>4. calls'[Len(calls')] = calls[Len(calls)] /\ calls # <<>>
      BY <2>a, <2>c, <3>2, <3>3
    <3>5. OnScreen(calls[Len(calls)])
      BY <3>1, <3>4 DEF ListsInv
    <3> QED BY <2>1, <3>4, <3>5 DEF OnScreen
  <2>7. Lists!Settled' => OnScreen(shown)'
    <3> SUFFICES ASSUME Lists!Settled'
                 PROVE  OnScreen(shown)'
      OBVIOUS
    <3>1. calls' = <<>> /\ ~crossed' /\ shown' # Lists!None
      BY DEF Lists!Settled, Lists!None
    <3>2. ~(i > 1) /\ ~crossed
      BY <2>1, <3>1
    <3>3. i = 1 /\ Len(calls) \in Nat /\ Len(calls) >= 1
      BY <2>a, <3>2
    <3>4. Len(calls) = 1 /\ calls # <<>>
      <4>1. ~(Len(calls) > 1)
        BY <2>c, <3>1, <3>3
      <4> QED BY <2>a, <3>3, <4>1
    <3>5. shown' = calls[Len(calls)]
      BY <2>2, <3>1, <3>3, <3>4
    <3>6. OnScreen(calls[Len(calls)])
      BY <3>2, <3>4 DEF ListsInv
    <3> QED BY <2>1, <3>5, <3>6 DEF OnScreen
  <2>8. shown' # Lists!None => pagination' = Lists!Pages(shown)'
    BY <2>1, <2>2 DEF Lists!Pages
  <2>9. /\ shown' \in Queries /\ pagination' \in 0..2
        /\ list' \in DOMAIN Lists!Reloads /\ asked' \in Queries /\ asked'.page >= 1
        /\ hasty' \in BOOLEAN /\ crossed' \in BOOLEAN /\ (asked'.filter /\ asked'.page > 1 => hasty')
    BY <2>1, <2>2, <2>3, <2>4 DEF ListsInv
  <2> QED BY <2>3, <2>6, <2>7, <2>8, <2>9 DEF ListsInv, Lists!None
<1> QED BY <1>1, <1>2, <1>3, <1>4, <1>5, <1>6, <1>7 DEF Lists!ListsNext

LEMMA ListsSafe ==
  ASSUME ListsInv, [FrontNext]_frontVars
  PROVE  ListsInv'
<1>1. CASE UNCHANGED listsVars
  BY <1>1 DEF listsVars, ListsInv, OnScreen, Lists!Settled, Lists!None, Lists!Pages
<1> QED BY <1>1, PageSteps, ListsInvKept

LEMMA ListsInit == FrontInit => ListsInv
<1> SUFFICES ASSUME Lists!ListsInit PROVE ListsInv
  BY DEF FrontInit
<1>1. Lists!First \in Queries /\ Lists!None \in Queries /\ Lists!First.page = 1
  BY DEF Lists!First, Lists!None, Queries
<1>2. ~Lists!First.filter /\ OnScreen(Lists!First)
  BY DEF Lists!ListsInit, Lists!First, OnScreen
<1>3. <<Lists!First>> \in Seq(Queries) /\ <<Lists!First>>[Len(<<Lists!First>>)] = Lists!First
  BY <1>1
<1>4. ~Lists!Settled
  BY DEF Lists!ListsInit, Lists!Settled
<1>a. 0 \in 0..2
  OBVIOUS
<1>5. /\ asked = Lists!First /\ calls = <<Lists!First>> /\ shown = Lists!None
      /\ pagination \in 0..2 /\ crossed \in BOOLEAN /\ hasty \in BOOLEAN
      /\ list \in DOMAIN Lists!Reloads
  BY <1>a, Zenon DEF Lists!ListsInit
<1>6. asked.page >= 1 /\ ~asked.filter
  BY <1>1, <1>2, <1>5
<1> QED BY <1>1, <1>2, <1>3, <1>4, <1>5, <1>6, Zenon DEF ListsInv

LEMMA ListsShow == ListsInv => Lists!RowsAreOfTheFilters /\ Lists!PageExists
<1> SUFFICES ASSUME ListsInv PROVE Lists!RowsAreOfTheFilters /\ Lists!PageExists
  OBVIOUS
<1>1. Lists!RowsAreOfTheFilters
  BY DEF ListsInv, OnScreen, Lists!RowsAreOfTheFilters
<1>2. asked.page \in 1..2 /\ (asked.filter /\ asked.page > 1 => hasty)
  BY DEF ListsInv, Queries
<1>3. Lists!PageExists
  BY <1>2 DEF Lists!PageExists, Lists!Pages
<1> QED BY <1>1, <1>3

(***************************************************************************)
(* The list of spaces.                                                     *)
(***************************************************************************)
Fields == {"category", "locationId", "minPrice", "maxPrice", "availableOnly"}

\* The filters are five, of one of the categories and of prices, and the spaces are listed
\* once they have come.
SpacesInv ==
  /\ listed \subseteq Space
  /\ DOMAIN filters = Fields
  /\ filters.category \in DOMAIN Spaces!CATEGORIES
  /\ filters.minPrice \in Nat /\ filters.maxPrice \in Nat
  /\ filters.availableOnly \in BOOLEAN

LEMMA SetKeeps ==
  ASSUME SpacesInv, NEW field \in Fields, NEW v, Spaces!Set(field, v),
         field = "category" => v \in DOMAIN Spaces!CATEGORIES,
         field \in {"minPrice", "maxPrice"} => v \in Nat,
         field = "availableOnly" => v \in BOOLEAN
  PROVE  SpacesInv'
<1>1. filters' = [filters EXCEPT ![field] = v] /\ listed' = listed
  BY DEF Spaces!Set
<1>2. DOMAIN filters' = Fields
  BY <1>1 DEF SpacesInv
<1>3. \A f \in Fields : filters'[f] = IF f = field THEN v ELSE filters[f]
  BY <1>1 DEF SpacesInv
<1>4. /\ filters'.category \in DOMAIN Spaces!CATEGORIES
      /\ filters'.minPrice \in Nat /\ filters'.maxPrice \in Nat
  BY <1>3 DEF SpacesInv, Fields
<1>5. filters'.availableOnly \in BOOLEAN
  <2>1. CASE field = "availableOnly"
    BY <1>3, <2>1 DEF Fields
  <2>2. CASE field # "availableOnly"
    BY <1>3, <2>2 DEF SpacesInv, Fields
  <2> QED BY <2>1, <2>2
<1> QED BY <1>1, <1>2, <1>4, <1>5 DEF SpacesInv

LEMMA DefaultFilters ==
  ASSUME filters' = Spaces!DEFAULT_FILTERS, listed' \subseteq Space
  PROVE  SpacesInv'
BY DEF SpacesInv, Spaces!DEFAULT_FILTERS, Spaces!DefaultMax, Spaces!CATEGORIES, Fields

LEMMA SpacesInvKept ==
  ASSUME SpacesInv, Spaces!ListNext
  PROVE  SpacesInv'
<1>1. CASE Spaces!getLocations
  BY <1>1 DEF Spaces!getLocations, SpacesInv
<1>2. CASE Spaces!setCategory
  BY <1>2, SetKeeps DEF Spaces!setCategory, Fields
<1>3. CASE Spaces!setLocation
  BY <1>3, SetKeeps DEF Spaces!setLocation, Fields
<1>4. CASE Spaces!setPrice
  BY <1>4, SetKeeps, FrontEndAssumption DEF Spaces!setPrice, Fields
<1>5. CASE Spaces!toggleAvailable
  BY <1>5, SetKeeps DEF Spaces!toggleAvailable, Fields
<1>6. CASE Spaces!setSearch
  BY <1>6 DEF Spaces!setSearch, SpacesInv
<1>7. CASE Spaces!resetFilters
  BY <1>7, DefaultFilters DEF Spaces!resetFilters, SpacesInv
<1>8. ASSUME NEW s \in Space, Spaces!handleBook(s)
      PROVE  SpacesInv'
  BY <1>8 DEF Spaces!handleBook, SpacesInv
<1> QED BY <1>1, <1>2, <1>3, <1>4, <1>5, <1>6, <1>7, <1>8 DEF Spaces!ListNext

LEMMA SpacesSafe ==
  ASSUME SpacesInv, [FrontNext]_frontVars
  PROVE  SpacesInv'
<1>1. CASE UNCHANGED spacesVars
  BY <1>1 DEF spacesVars, SpacesInv
<1>2. CASE bookSpace
  BY <1>2, DefaultFilters DEF bookSpace
<1> QED BY <1>1, <1>2, PageSteps, SpacesInvKept

LEMMA SpacesInit == FrontInit => SpacesInv
<1> SUFFICES ASSUME Spaces!ListInit PROVE SpacesInv
  BY DEF FrontInit
<1>1. listed = {} /\ filters = Spaces!DEFAULT_FILTERS
  BY Zenon DEF Spaces!ListInit
<1> QED BY <1>1 DEF SpacesInv, Spaces!DEFAULT_FILTERS, Spaces!DefaultMax,
                    Spaces!CATEGORIES, Fields

LEMMA SameCount ==
  ASSUME NEW S
  PROVE  Spaces!Cardinality(S) = Cardinality(S)
BY Zenon DEF Spaces!Cardinality, Cardinality

\* A count of none means that none of the filters is on.
LEMMA NoneCounted ==
  ASSUME Spaces!activeFilterCount = 0
  PROVE  Spaces!Counted = {}
<1>1. IsFiniteSet(Fields)
  <2>1. IsFiniteSet({"category"})
    BY FS_Singleton
  <2>2. IsFiniteSet({"category"} \cup {"locationId"})
    BY <2>1, FS_AddElement
  <2>3. IsFiniteSet(({"category"} \cup {"locationId"}) \cup {"minPrice"})
    BY <2>2, FS_AddElement
  <2>4. IsFiniteSet((({"category"} \cup {"locationId"}) \cup {"minPrice"}) \cup {"maxPrice"})
    BY <2>3, FS_AddElement
  <2>5. IsFiniteSet(((({"category"} \cup {"locationId"}) \cup {"minPrice"}) \cup {"maxPrice"})
                      \cup {"availableOnly"})
    BY <2>4, FS_AddElement
  <2>6. Fields = ((({"category"} \cup {"locationId"}) \cup {"minPrice"}) \cup {"maxPrice"})
                    \cup {"availableOnly"}
    BY DEF Fields
  <2> QED BY <2>5, <2>6
<1>2. Spaces!Counted \subseteq Fields
  BY DEF Spaces!Counted, Fields
<1>3. IsFiniteSet(Spaces!Counted)
  BY <1>1, <1>2, FS_Subset
<1> QED BY <1>3, SameCount, FS_EmptySet DEF Spaces!activeFilterCount

LEMMA NothingHidden == SpacesInv => Spaces!NothingHiddenUnsaid
<1> SUFFICES ASSUME SpacesInv, Spaces!activeFilterCount = 0, \A s : Spaces!Matches(s),
                    NEW s \in listed, Price[s] <= Spaces!DefaultMax
             PROVE  s \in Spaces!filtered
  BY Zenon DEF Spaces!NothingHiddenUnsaid, Spaces!Matches
<1>1. Spaces!Counted = {}
  BY NoneCounted
<1>2. filters["category"] = "ALL" /\ filters["locationId"] = "ALL"
  BY <1>1 DEF Spaces!Counted
<1>3. ~(filters["minPrice"] > 0)
  BY <1>1 DEF Spaces!Counted
<1>4. ~(filters["maxPrice"] < Spaces!DefaultMax)
  BY <1>1 DEF Spaces!Counted
<1>5. ~filters["availableOnly"]
  BY <1>1 DEF Spaces!Counted
<1>a. SpaceType \in [Space -> SpaceTypes] /\ Price \in [Space -> Nat]
  BY FrontEndAssumption
<1>6. s \in Space /\ Price[s] \in Nat /\ SpaceType[s] \in SpaceTypes
  BY <1>a DEF SpacesInv
<1>b. Spaces!CATEGORIES["ALL"] = SpaceTypes
  BY DEF Spaces!CATEGORIES, SpaceTypes
<1>7. SpaceType[s] \in Spaces!CATEGORIES[filters.category]
  BY <1>2, <1>6, <1>b
<1>8. Price[s] \in filters.minPrice..filters.maxPrice
  <2>1. filters.minPrice \in Nat /\ filters.maxPrice \in Nat
    BY DEF SpacesInv
  <2>2. Spaces!DefaultMax \in Nat
    BY DEF Spaces!DefaultMax
  <2> QED BY <1>3, <1>4, <1>6, <2>1, <2>2
<1> QED BY <1>2, <1>5, <1>7, <1>8 DEF Spaces!filtered

-----------------------------------------------------------------------------
\* When nothing is on its way and no answer overtook an older one, the rows of the lists of
\* payments, bookings and invoices are those of the page and the filters on the screen; the
\* page is one the list has, unless it was turned before the answer to a filter came; and
\* BookListing.tsx hides no space of a usual price while its button counts no filter.
THEOREM Rows_of_the_page == FrontSpec => []RowsAreOfThePage
<1> DEFINE Inv == ListsInv /\ SpacesInv
<1>1. FrontInit => Inv
  BY ListsInit, SpacesInit
<1>2. Inv /\ [FrontNext]_frontVars => Inv'
  BY ListsSafe, SpacesSafe
<1>3. Inv => RowsAreOfThePage
  BY ListsShow, NothingHidden DEF RowsAreOfThePage
<1> HIDE DEF Inv
<1> QED BY <1>1, <1>2, <1>3, PTL DEF FrontSpec

(***************************************************************************)
(* The prices of the admins and the invoice profile.                       *)
(***************************************************************************)

\* There is no amount, or it was meant for spaces of the kind.
MeantFor(amount, kind) == amount = Pricing!None \/ amount.for = kind

\* Prices, rows and inputs hold amounts of their kind, wherever they came from; and what
\* is no longer to do of a campaign on its way was done, unless it was saved over since.
PricingInv ==
  /\ DOMAIN price = Resource
  /\ \A r \in Resource : MeantFor(price[r], Kind[r])
  /\ \A r \in DOMAIN rows : r \in Resource /\ MeantFor(rows[r], Kind[r])
  /\ DOMAIN campaignForm = Pricing!Kinds
  /\ \A k \in Pricing!Kinds : MeantFor(campaignForm[k], k) /\ MeantFor(body[k], k)
  /\ editing \in Resource =>
       IF Pricing!isDesk(editing) THEN MeantFor(editDay, Kind[editing])
                                  ELSE MeantFor(editHourly, Kind[editing])
  /\ todo \subseteq Resource
  /\ applying = "put" =>
       ~applied /\ \A r \in Resource \ (edited \cup todo) : price[r] = body[Kind[r]]
  /\ applied => \A r \in Resource \ edited : price[r] = body[Kind[r]]

\* Nothing is edited unless it is a space, and the first space of a kind is of that kind.
LEMMA NoneIsNoSpace == "none" \notin Resource
BY SpacesAssumption

LEMMA FirstOfKind == \A k \in Pricing!Kinds : FirstOf[k] \in Resource /\ Kind[FirstOf[k]] = k
<1>1. \A r \in Resource : FirstOf[Kind[r]] \in Resource /\ Kind[FirstOf[Kind[r]]] = Kind[r]
  BY SpacesAssumption
<1> QED BY <1>1 DEF Pricing!Kinds

LEMMA AmountIsMeant == \A kind, is : MeantFor(Pricing!Amount(kind, is), kind)
BY DEF MeantFor, Pricing!Amount

LEMMA PricingInit == FrontInit => PricingInv
<1> SUFFICES ASSUME Pricing!PricingInit PROVE PricingInv
  BY DEF FrontInit
<1>1. /\ DOMAIN price = Resource
      /\ \A r \in Resource : MeantFor(price[r], Kind[r])
  BY DEF Pricing!PricingInit, MeantFor, Pricing!Amount
<1>2. /\ DOMAIN campaignForm = Pricing!Kinds
      /\ \A k \in Pricing!Kinds : MeantFor(campaignForm[k], k) /\ MeantFor(body[k], k)
  BY DEF Pricing!PricingInit, MeantFor, Pricing!Amount
<1>3. DOMAIN rows = {} /\ editing \notin Resource /\ todo = {} /\ applying = "idle" /\ ~applied
  BY NoneIsNoSpace DEF Pricing!PricingInit
<1> QED BY <1>1, <1>2, <1>3 DEF PricingInv

\* A load leaves rows and form with amounts of their kind.
LEMMA LoadOfPrices ==
  ASSUME PricingInv, Pricing!loadData
  PROVE  /\ \A r \in DOMAIN rows' : r \in Resource /\ MeantFor(rows'[r], Kind[r])
         /\ DOMAIN campaignForm' = Pricing!Kinds
         /\ \A k \in Pricing!Kinds : MeantFor(campaignForm'[k], k)
<1>1. CASE rows' = price /\ campaignForm' = Pricing!Prefilled
  <2>2. \A k \in Pricing!Kinds : MeantFor(campaignForm'[k], k)
    BY <1>1, FirstOfKind DEF PricingInv, Pricing!Prefilled, MeantFor
  <2> QED BY <1>1, <2>2 DEF PricingInv, Pricing!Prefilled
<1>2. CASE rows' = <<>> /\ campaignForm' = campaignForm
  BY <1>2 DEF PricingInv
<1> QED BY <1>1, <1>2 DEF Pricing!loadData

\* A price that is set, of an amount of its kind, keeps the invariant if the campaign
\* knows of it or meant it.
LEMMA PriceSet ==
  ASSUME PricingInv, NEW r \in Resource, NEW amount, MeantFor(amount, Kind[r]),
         price' = [price EXCEPT ![r] = amount],
         amount = body[Kind[r]] \/ r \in edited',
         edited \subseteq edited',
         todo \subseteq todo' \cup edited' \cup {r}, todo' \subseteq Resource,
         r \in todo' => r \in todo,
         UNCHANGED <<rows, campaignForm, body, applying, applied>>,
         editing' = editing, editHourly' = editHourly, editDay' = editDay
  PROVE  PricingInv'
<1>1. DOMAIN price' = Resource /\ price'[r] = amount /\ \A q \in Resource \ {r} : price'[q] = price[q]
  BY DEF PricingInv
<1>2. \A q \in Resource : MeantFor(price'[q], Kind[q])
  BY <1>1 DEF PricingInv
<1>3. applying' = "put" =>
        ~applied' /\ \A q \in Resource \ (edited' \cup todo') : price'[q] = body'[Kind[q]]
  BY <1>1 DEF PricingInv
<1>4. applied' => \A q \in Resource \ edited' : price'[q] = body'[Kind[q]]
  BY <1>1 DEF PricingInv
<1> QED BY <1>1, <1>2, <1>3, <1>4 DEF PricingInv, MeantFor, Pricing!isDesk

LEMMA PricingInvKept ==
  ASSUME PricingInv, Pricing!PricingNext
  PROVE  PricingInv'
<1> USE DEF Pricing!edit, Pricing!saves, Pricing!campaign
<1>1. CASE Pricing!loaded
  BY <1>1, LoadOfPrices DEF Pricing!loaded, PricingInv, MeantFor, Pricing!isDesk
<1>2. CASE Pricing!refresh
  BY <1>2 DEF Pricing!refresh, PricingInv, MeantFor, Pricing!isDesk
<1>3. CASE Pricing!handleCancelEdit
  BY <1>3, NoneIsNoSpace DEF Pricing!handleCancelEdit, PricingInv, MeantFor
<1>4. CASE Pricing!type
  <2>1. editing \in Resource
    BY <1>4 DEF Pricing!type, PricingInv
  <2>2. IF Pricing!isDesk(editing) THEN MeantFor(editDay', Kind[editing])
                                   ELSE MeantFor(editHourly', Kind[editing])
    BY <1>4, AmountIsMeant DEF Pricing!type, MeantFor
  <2> QED BY <1>4, <2>1, <2>2 DEF Pricing!type, PricingInv, MeantFor, Pricing!isDesk
<1>5. CASE Pricing!setForm
  <2>1. PICK k \in Pricing!Kinds : campaignForm' = [campaignForm EXCEPT ![k] = Pricing!Amount(k, "new")]
    BY <1>5 DEF Pricing!setForm
  <2>2. DOMAIN campaignForm' = Pricing!Kinds
        /\ \A j \in Pricing!Kinds : MeantFor(campaignForm'[j], j)
    BY <2>1, AmountIsMeant DEF PricingInv
  <2> QED BY <1>5, <2>2 DEF Pricing!setForm, PricingInv, MeantFor, Pricing!isDesk
<1>6. CASE Pricing!handleApplyCampaign
  <2>1. todo' = Resource /\ ~applied'
    BY <1>6 DEF Pricing!handleApplyCampaign, Pricing!OfAllRows
  <2> QED BY <1>6, <2>1 DEF Pricing!handleApplyCampaign, PricingInv, MeantFor, Pricing!isDesk
<1>7. CASE Pricing!campaignAnswered
  BY <1>7 DEF Pricing!campaignAnswered, PricingInv, MeantFor, Pricing!isDesk
<1>8. CASE Pricing!campaignShown
  BY <1>8, LoadOfPrices DEF Pricing!campaignShown, PricingInv, MeantFor, Pricing!isDesk
<1>9. ASSUME NEW r \in Resource, Pricing!handleStartEdit(r)
      PROVE  PricingInv'
  <2>1. IF Pricing!isDesk(r) THEN MeantFor(editDay', Kind[r]) ELSE MeantFor(editHourly', Kind[r])
    BY <1>9 DEF Pricing!handleStartEdit, Pricing!OwnText, PricingInv, MeantFor
  <2> QED BY <1>9, <2>1 DEF Pricing!handleStartEdit, PricingInv, MeantFor, Pricing!isDesk
<1>10. ASSUME NEW r \in Resource, Pricing!handleSaveEdit(r)
       PROVE  PricingInv'
  <2> DEFINE amount == IF Pricing!isDesk(r) THEN editDay ELSE editHourly
  <2>1. MeantFor(amount, Kind[r])
    BY <1>10 DEF Pricing!handleSaveEdit, PricingInv
  <2>2. CASE price' = [price EXCEPT ![r] = amount] /\ edited' = edited \cup {r}
    <3> HIDE DEF amount
    <3> QED BY <1>10, <2>1, <2>2, PriceSet DEF Pricing!handleSaveEdit, PricingInv
  <2>3. CASE UNCHANGED <<price, edited>>
    BY <1>10, <2>3 DEF Pricing!handleSaveEdit, PricingInv, MeantFor, Pricing!isDesk
  <2> QED BY <1>10, <2>2, <2>3 DEF Pricing!handleSaveEdit
<1>11. ASSUME NEW r \in Resource, Pricing!saved(r)
       PROVE  PricingInv'
  <2>1. /\ \A q \in DOMAIN rows' : q \in Resource /\ MeantFor(rows'[q], Kind[q])
        /\ DOMAIN campaignForm' = Pricing!Kinds
        /\ \A k \in Pricing!Kinds : MeantFor(campaignForm'[k], k)
    BY <1>11, LoadOfPrices DEF Pricing!saved
  <2>2. editing' \notin Resource
    BY <1>11, NoneIsNoSpace DEF Pricing!saved
  <2>3. UNCHANGED <<price, applying, todo, body, edited, applied>>
    BY <1>11 DEF Pricing!saved
  <2> QED BY <2>1, <2>2, <2>3 DEF PricingInv, MeantFor
<1>12. ASSUME NEW r \in Resource, Pricing!savedElsewhere(r)
       PROVE  PricingInv'
  BY <1>12, AmountIsMeant, PriceSet DEF Pricing!savedElsewhere, PricingInv
<1>13. ASSUME NEW r \in Resource, Pricing!upsert(r)
       PROVE  PricingInv'
  <2>1. Kind[r] \in Pricing!Kinds
    BY DEF Pricing!Kinds
  <2>2. MeantFor(body[Kind[r]], Kind[r])
    BY <2>1 DEF PricingInv
  <2> QED BY <1>13, <2>2, PriceSet DEF Pricing!upsert, PricingInv
<1> QED BY <1>1, <1>2, <1>3, <1>4, <1>5, <1>6, <1>7, <1>8, <1>9, <1>10, <1>11, <1>12, <1>13
        DEF Pricing!PricingNext

LEMMA PricingSafe ==
  ASSUME PricingInv, [FrontNext]_frontVars
  PROVE  PricingInv'
<1>1. CASE UNCHANGED pricingVars
  BY <1>1 DEF pricingVars, PricingInv, MeantFor, Pricing!isDesk
<1> QED BY <1>1, PageSteps, PricingInvKept

\* What is not typed into is what was stored when the form was filled, once that has come.
ProfileInv ==
  /\ DOMAIN form = Profile!Field /\ DOMAIN stored = Profile!Field
  /\ saving => ~loading
  /\ ~loading /\ ~told /\ ~elsewhere => \A f \in Profile!Field \ touched : form[f] = stored[f]

LEMMA ProfileInit == FrontInit => ProfileInv
<1> SUFFICES ASSUME Profile!ProfileInit PROVE ProfileInv
  BY DEF FrontInit
<1>1. DOMAIN form = Profile!Field /\ DOMAIN stored = Profile!Field
  BY DEF Profile!ProfileInit, Profile!EMPTY
<1>2. ~saving /\ loading
  BY DEF Profile!ProfileInit
<1> QED BY <1>1, <1>2 DEF ProfileInv

LEMMA ProfileInvKept ==
  ASSUME ProfileInv, Profile!ProfileNext
  PROVE  ProfileInv' /\ Profile!SaveKeepsUntouched
<1>1. CASE Profile!profileCame
  <2>1. loading /\ ~loading' /\ UNCHANGED <<stored, saving>>
    BY <1>1 DEF Profile!profileCame
  <2>2. ~saving /\ ~saving'
    BY <2>1 DEF ProfileInv
  <2> QED BY <1>1, <2>1, <2>2
          DEF ProfileInv, Profile!profileCame, Profile!Fill, Profile!SaveKeepsUntouched
<1>2. CASE Profile!handleChange
  <2>1. PICK f \in Profile!Field, text \in {"typed", "empty"} :
          form' = [form EXCEPT ![f] = text] /\ touched' = touched \cup {f}
    BY <1>2 DEF Profile!handleChange
  <2>2. ~loading /\ ~saving /\ UNCHANGED <<stored, loading, saving, told, elsewhere>>
    BY <1>2 DEF Profile!handleChange, Profile!Editable
  <2> QED BY <2>1, <2>2 DEF ProfileInv, Profile!SaveKeepsUntouched
<1>3. CASE Profile!handleSubmit
  BY <1>3 DEF ProfileInv, Profile!handleSubmit, Profile!Editable, Profile!SaveKeepsUntouched
<1>4. CASE Profile!saved
  <2>1. saving /\ ~saving' /\ loading' = loading
    BY <1>4 DEF Profile!saved
  <2>2. ~loading
    BY <2>1 DEF ProfileInv
  <2>3. Profile!SaveKeepsUntouched
    BY <1>4, <2>2 DEF ProfileInv, Profile!saved, Profile!Fill, Profile!SaveKeepsUntouched
  <2> QED BY <1>4, <2>1, <2>2, <2>3 DEF ProfileInv, Profile!saved, Profile!Fill
<1>5. CASE Profile!savedElsewhere
  BY <1>5 DEF ProfileInv, Profile!savedElsewhere, Profile!SaveKeepsUntouched
<1> QED BY <1>1, <1>2, <1>3, <1>4, <1>5 DEF Profile!ProfileNext

LEMMA ProfileSafe ==
  ASSUME ProfileInv, [FrontNext]_frontVars
  PROVE  ProfileInv' /\ [Profile!SaveKeepsUntouched]_profileVars
<1>1. CASE UNCHANGED profileVars
  BY <1>1 DEF profileVars, ProfileInv
<1> QED BY <1>1, PageSteps, ProfileInvKept

-----------------------------------------------------------------------------
\* Whatever row AdminPricing.tsx has under edit, and whatever answers close the edit or load
\* the rows again, a price is one meant for a space of its kind; a campaign that was answered
\* as done has reached every space not saved since; and a save of AggregatorInvoiceProfile.tsx,
\* which replaces the whole row, leaves the fields that were not typed into as they are.
THEOREM Saved_as_meant == FrontSpec => SavedAsMeant
<1> DEFINE Inv == PricingInv /\ ProfileInv
           Safe == Pricing!PriceOfItsKind /\ Pricing!CampaignReachesAll
           Kept == [Profile!SaveKeepsUntouched]_profileVars
<1>1. FrontInit => Inv
  BY PricingInit, ProfileInit
<1>2. Inv /\ [FrontNext]_frontVars => Inv' /\ Kept
  BY PricingSafe, ProfileSafe
<1>3. Inv => Safe
  BY DEF PricingInv, MeantFor, Pricing!PriceOfItsKind, Pricing!CampaignReachesAll
<1>4. FrontSpec => []Inv /\ [][Profile!SaveKeepsUntouched]_profileVars
  <2> HIDE DEF Inv
  <2> QED BY <1>1, <1>2, PTL DEF FrontSpec
<1>5. []Inv => []Safe
  <2> HIDE DEF Inv, Safe
  <2> QED BY <1>3, PTL
<1> QED BY <1>4, <1>5, PTL DEF SavedAsMeant

(***************************************************************************)
(* Sessions.                                                               *)
(***************************************************************************)

\* The flag of an expired session lasts no longer than the load of the login page.
SessionInv ==
  /\ role \in Seq(Session!Role)
  /\ flag = [t \in Tab |-> FALSE]
  /\ DOMAIN at = Tab /\ DOMAIN says = Tab /\ DOMAIN refused = Tab
  /\ \A q \in requests : q.tab \in Tab
  /\ Session!SaidOnce

LEMMA TurnKeeps ==
  ASSUME SessionInv, NEW t \in Tab, NEW p, NEW f, NEW r, Session!Turn(t, p, f, r),
         f => r /\ p \in Session!LoginPages
  PROVE  /\ flag' = [u \in Tab |-> FALSE]
         /\ DOMAIN at' = Tab /\ DOMAIN says' = Tab /\ DOMAIN refused' = Tab
         /\ Session!SaidOnce'
         /\ at'[t] = p
<1>1. flag' = [u \in Tab |-> FALSE]
  <2>1. Session!clearSessionExpired(t, p, f) = FALSE
    BY DEF Session!clearSessionExpired
  <2> QED BY <2>1 DEF SessionInv, Session!Turn
<1>2. Session!SaidOnce'
  <2> SUFFICES ASSUME NEW u \in Tab, says'[u] PROVE refused'[u]
    BY DEF Session!SaidOnce
  <2>1. CASE u = t
    BY <2>1 DEF SessionInv, Session!Turn
  <2>2. CASE u # t
    BY <2>2 DEF SessionInv, Session!SaidOnce, Session!Turn
  <2> QED BY <2>1, <2>2
<1> QED BY <1>1, <1>2 DEF SessionInv, Session!Turn

LEMMA SessionInvKept ==
  ASSUME SessionInv, Session!SessionNext
  PROVE  SessionInv' /\ Session!SignInLetsIn
<1>1. ASSUME NEW t \in Tab, Session!open(t)
      PROVE  SessionInv' /\ Session!SignInLetsIn
  <2>1. PICK q : Session!Turn(t, q, flag[t], FALSE)
    BY <1>1 DEF Session!open
  <2> QED BY <1>1, <2>1, TurnKeeps DEF Session!open, SessionInv, Session!SignInLetsIn
<1>2. ASSUME NEW t \in Tab, Session!openMail(t)
      PROVE  SessionInv' /\ Session!SignInLetsIn
  BY <1>2, TurnKeeps DEF Session!openMail, SessionInv, Session!SignInLetsIn
<1>3. ASSUME NEW t \in Tab, Session!signIn(t)
      PROVE  SessionInv' /\ Session!SignInLetsIn
  <2> DEFINE n == Len(role) + 1
  <2>1. PICK r \in Session!Role :
          /\ at[t] = "signup" => r = "CLIENT"
          /\ role' = Append(role, r)
          /\ IF Session!Target(at[t], r) \in Session!LoginPages
               THEN session' = 0 /\ UNCHANGED <<at, says, flag, refused>>
               ELSE /\ session' = n
                    /\ Session!Turn(t, Session!Shown(Session!Target(at[t], r), Session!User(n, role')),
                                    flag[t], FALSE)
    BY <1>3 DEF Session!signIn
  <2>2. role' \in Seq(Session!Role) /\ n # 0 /\ role'[n] = r
    BY <2>1 DEF SessionInv
  <2>r. requests' = requests
    BY <1>3 DEF Session!signIn
  <2>3. CASE Session!Target(at[t], r) \in Session!LoginPages
    BY <2>1, <2>2, <2>r, <2>3 DEF SessionInv, Session!SaidOnce, Session!SignInLetsIn
  <2>4. CASE Session!Target(at[t], r) \notin Session!LoginPages
    <3>1. session' = n /\ ~flag[t]
          /\ Session!Turn(t, Session!Shown(Session!Target(at[t], r), Session!User(n, role')),
                          flag[t], FALSE)
      BY <2>1, <2>4 DEF SessionInv
    <3>2. Session!User(n, role').is = r
      BY <2>2 DEF Session!User
    <3>3. at[t] \in {"login", "adminLogin", "signup", "setPassword"}
      BY <1>3 DEF Session!signIn, Session!LoginPages
    <3>4. Session!Target(at[t], r) = Session!Dashboard(r)
      BY <2>1, <2>4, <3>3 DEF Session!Target, Session!Dashboard, Session!LoginPages
    <3>5. Session!Shown(Session!Dashboard(r), Session!User(n, role')) = Session!Dashboard(r)
      BY <3>2 DEF Session!Shown, Session!Dashboard, Session!Role, Session!ProtectedRoute,
                  Session!AdminRoute, Session!AggregatorRoute
    <3> HIDE DEF n
    <3>6. /\ flag' = [u \in Tab |-> FALSE]
          /\ DOMAIN at' = Tab /\ DOMAIN says' = Tab /\ DOMAIN refused' = Tab
          /\ Session!SaidOnce'
          /\ at'[t] = Session!Dashboard(r)
      BY <3>1, <3>4, <3>5, TurnKeeps
    <3>7. Session!SignInLetsIn
      BY <2>2, <3>1, <3>3, <3>6 DEF Session!SignInLetsIn, Session!Portals
    <3> QED BY <2>2, <2>r, <3>6, <3>7 DEF SessionInv
  <2> QED BY <2>3, <2>4
<1>4. ASSUME NEW t \in Tab, Session!resetPassword(t)
      PROVE  SessionInv' /\ Session!SignInLetsIn
  BY <1>4, TurnKeeps DEF Session!resetPassword, SessionInv, Session!SignInLetsIn
<1>5. ASSUME NEW t \in Tab, Session!logout(t)
      PROVE  SessionInv' /\ Session!SignInLetsIn
  BY <1>5, TurnKeeps DEF Session!logout, SessionInv, Session!SignInLetsIn
<1>6. ASSUME NEW t \in Tab, Session!request(t)
      PROVE  SessionInv' /\ Session!SignInLetsIn
  BY <1>6 DEF Session!request, SessionInv, Session!SignInLetsIn, Session!SaidOnce
<1>7. CASE Session!expire
  BY <1>7 DEF Session!expire, SessionInv, Session!SignInLetsIn, Session!SaidOnce
<1>8. ASSUME NEW q \in requests, Session!accepted(q)
      PROVE  SessionInv' /\ Session!SignInLetsIn
  BY <1>8 DEF Session!accepted, SessionInv, Session!SignInLetsIn, Session!SaidOnce
<1>9. ASSUME NEW q \in requests, Session!unauthorized(q)
      PROVE  SessionInv' /\ Session!SignInLetsIn
  BY <1>9, TurnKeeps DEF Session!unauthorized, SessionInv, Session!SignInLetsIn, Session!LoginUrl,
                         Session!LoginPages
<1> QED BY <1>1, <1>2, <1>3, <1>4, <1>5, <1>6, <1>7, <1>8, <1>9 DEF Session!SessionNext

LEMMA SessionSafe ==
  ASSUME SessionInv, [FrontNext]_frontVars
  PROVE  SessionInv' /\ [Session!SignInLetsIn]_sessionVars
<1>1. CASE UNCHANGED sessionVars
  BY <1>1 DEF sessionVars, SessionInv, Session!SaidOnce
<1> QED BY <1>1, PageSteps, SessionInvKept

LEMMA SessionInit == FrontInit => SessionInv
<1> SUFFICES ASSUME Session!SessionInit PROVE SessionInv
  BY DEF FrontInit
<1>1. role = <<>> /\ role \in Seq(Session!Role)
  BY DEF Session!SessionInit
<1> QED BY <1>1 DEF Session!SessionInit, SessionInv, Session!SaidOnce

-----------------------------------------------------------------------------
\* However the tabs of a browser share localStorage, no guard of App.tsx turns away whoever
\* has just signed in, and the login page says that the session expired only after a refused
\* request of its own tab, once.
THEOREM Signed_in_is_in == FrontSpec => SignedInIsIn
<1> DEFINE Said == Session!SaidOnce
<1>1. FrontInit => SessionInv
  BY SessionInit
<1>2. SessionInv /\ [FrontNext]_frontVars => SessionInv' /\ [Session!SignInLetsIn]_sessionVars
  BY SessionSafe
<1>3. SessionInv => Said
  BY DEF SessionInv
<1>4. FrontSpec => [][Session!SignInLetsIn]_sessionVars /\ []SessionInv
  BY <1>1, <1>2, PTL DEF FrontSpec
<1>5. []SessionInv => []Said
  <2> HIDE DEF Said
  <2> QED BY <1>3, PTL
<1> QED BY <1>4, <1>5, PTL DEF SignedInIsIn

(***************************************************************************)
(* The page on which a space is booked.                                    *)
(***************************************************************************)

Offers == [date : Date \cup {"none"}, slots : SUBSET Slot]

\* Unless price questions overlap there is one at most, and while it is on its way no offer
\* is shown and no slot is picked; the slots picked are of the offer shown; and once the
\* timer of a picked day has run, question and offer are about that day.
BookInv ==
  /\ questions \in Seq(Date \cup {"none"})
  /\ date \in Date \cup {"none"} /\ pricing \in Offers
  /\ DOMAIN attempt = {"at", "order", "seen", "overlap"}
  /\ ~overlap =>
       /\ Len(questions) <= 1
       /\ questions # <<>> => pricing = Book!None /\ selected = {}
       /\ selected \subseteq pricing.slots
       /\ ~timer /\ date # "none" =>
            /\ questions # <<>> => questions[1] = date
            /\ pricing # Book!None => pricing.date = date
  /\ Book!OrderWasOffered
  /\ Book!SuccessShowsTheOrder

LEMMA NoneOffered == Desk!None = Book!None /\ Book!None \in Offers /\ Book!None.slots = {}
BY DEF Desk!None, Book!None, Offers

LEMMA BookInit == FrontInit => BookInv
<1> SUFFICES ASSUME Book!BookInit PROVE BookInv
  BY DEF FrontInit
<1>1. questions = <<>> /\ Len(questions) = 0
  BY DEF Book!BookInit
<1>2. DOMAIN attempt = {"at", "order", "seen", "overlap"}
  BY DEF Book!BookInit
<1>3. pricing = Book!None /\ selected = {} /\ date = "none" /\ attempt.at = "nothing"
      /\ success.shown = success.order
  BY DEF Book!BookInit
<1> QED BY <1>1, <1>2, <1>3, NoneOffered
        DEF BookInv, Book!OrderWasOffered, Book!SuccessShowsTheOrder

\* The slots asked for are picked, or the one that a desk has picked for the visitor.
LEMMA EffectiveSlots ==
  ASSUME BookInv, ~overlap
  PROVE  Book!effectiveSlots \subseteq pricing.slots /\ Desk!effectiveSlots \subseteq pricing.slots
BY DEF BookInv, Book!effectiveSlots, Desk!effectiveSlots

LEMMA BookInvKept ==
  ASSUME BookInv, Book!BookNext \/ Desk!BookNext
  PROVE  BookInv'
<1> USE DEF Book!order, Desk!order, Book!prices, Desk!prices, Book!page, Desk!page
<1>a. CASE UNCHANGED <<questions, overlap, timer, pricing, selected, date, attempt, success>>
  BY <1>a DEF BookInv, Book!OrderWasOffered, Book!SuccessShowsTheOrder
<1>1. CASE Book!locationsLoaded \/ Desk!locationsLoaded
  BY <1>a, <1>1 DEF Book!locationsLoaded, Desk!locationsLoaded
<1>2. CASE Book!typeDetails \/ Desk!typeDetails
  BY <1>a, <1>2 DEF Book!typeDetails, Desk!typeDetails
<1>3. CASE Book!goNext \/ Desk!goNext
  BY <1>a, <1>3 DEF Book!goNext, Desk!goNext
<1>4. CASE Book!goBack \/ Desk!goBack
  BY <1>a, <1>4 DEF Book!goBack, Desk!goBack
<1>5. CASE Book!checkoutClosed \/ Desk!checkoutClosed
  BY <1>a, <1>5 DEF Book!checkoutClosed, Desk!checkoutClosed
<1>6. CASE Book!debouncedDate \/ Desk!debouncedDate
  <2>1. /\ timer /\ ~timer' /\ pricing' = Book!None /\ selected' = {}
        /\ UNCHANGED <<date, attempt, success>>
        /\ IF date = "none" THEN UNCHANGED <<questions, overlap>>
           ELSE questions' = Append(questions, date) /\ overlap' = (questions # <<>>)
    BY <1>6, NoneOffered DEF Book!debouncedDate, Desk!debouncedDate, Book!ClearedSelection,
                             Desk!ClearedSelection
  <2>2. CASE date = "none"
    BY <2>1, <2>2, NoneOffered DEF BookInv, Book!OrderWasOffered, Book!SuccessShowsTheOrder
  <2>3. CASE date # "none"
    <3>1. questions' = Append(questions, date) /\ overlap' = (questions # <<>>)
      BY <2>1, <2>3
    <3>2. ASSUME ~overlap'
          PROVE  Len(questions') <= 1 /\ questions'[1] = date
      <4>1. questions = <<>>
        BY <3>1, <3>2
      <4>2. questions' = <<date>>
        BY <3>1, <4>1
      <4> QED BY <4>2
    <3>3. questions' \in Seq(Date \cup {"none"})
      <4>1. date \in Date \cup {"none"}
        BY DEF BookInv
      <4> QED BY <3>1, <4>1 DEF BookInv
    <3> QED BY <2>1, <3>2, <3>3, NoneOffered
            DEF BookInv, Book!OrderWasOffered, Book!SuccessShowsTheOrder
  <2> QED BY <2>2, <2>3
<1>7. ASSUME NEW d \in Date \cup {"none"}, Book!handleDateSelect(d) \/ Desk!handleDateSelect(d)
      PROVE  BookInv'
  <2>1. /\ date' = d /\ timer' /\ timer' \in BOOLEAN /\ selected' = {}
        /\ UNCHANGED <<pricing, questions, overlap, attempt, success>>
    BY <1>7 DEF Book!handleDateSelect, Desk!handleDateSelect
  <2> QED BY <2>1 DEF BookInv, Book!OrderWasOffered, Book!SuccessShowsTheOrder
<1>8. ASSUME NEW i \in 1..MaxAsk, Book!pricingAnswered(i) \/ Desk!pricingAnswered(i)
      PROVE  BookInv'
  <2>1. /\ i \in DOMAIN questions
        /\ (questions' = Book!RemoveAt(questions, i) \/ questions' = Desk!RemoveAt(questions, i))
        /\ UNCHANGED <<date, timer, overlap, attempt, success>>
    BY <1>8 DEF Book!pricingAnswered, Desk!pricingAnswered
  <2>2. \/ \E free \in SUBSET Slot :
              /\ pricing' = [date |-> questions[i], slots |-> free]
              /\ selected' \in {free, selected}
        \/ pricing' = Book!None /\ selected' = {}
    BY <1>8, NoneOffered DEF Book!pricingAnswered, Desk!pricingAnswered
  <2>3. questions' = SubSeq(questions, 1, i-1) \o SubSeq(questions, i+1, Len(questions))
    BY <2>1 DEF Book!RemoveAt, Desk!RemoveAt
  <2>4. questions \in Seq(Date \cup {"none"}) /\ questions[i] \in Date \cup {"none"}
    BY <2>1 DEF BookInv
  <2>5. questions' \in Seq(Date \cup {"none"})
    BY <2>1, <2>3, <2>4
  <2>6. pricing' \in Offers
    BY <2>2, <2>4, NoneOffered DEF Offers
  <2>7. ASSUME ~overlap
        PROVE  questions' = <<>> /\ Len(questions') = 0 /\ questions[i] = questions[1]
               /\ questions # <<>> /\ selected = {}
    <3>1. Len(questions) <= 1 /\ Len(questions) \in Nat /\ i \in 1..Len(questions)
      BY <2>1, <2>4, <2>7 DEF BookInv
    <3>a. Len(questions) = 1 /\ i = 1
      <4>1. \A n \in Nat : \A k \in 1..n : n <= 1 => n = 1 /\ k = 1
        OBVIOUS
      <4> QED BY <3>1, <4>1, Zenon
    <3>2. Len(questions) = 1 /\ i = 1 /\ questions # <<>>
      BY <2>4, <3>a
    <3>3. questions' = <<>> /\ Len(questions') = 0
      BY <2>3, <2>4, <3>2
    <3> QED BY <2>7, <3>2, <3>3 DEF BookInv
  <2>8. ASSUME ~overlap
        PROVE  /\ selected' \subseteq pricing'.slots
               /\ ~timer /\ date # "none" => (pricing' # Book!None => pricing'.date = date)
    BY <2>2, <2>7, <2>8 DEF BookInv
  <2> QED BY <2>1, <2>5, <2>6, <2>7, <2>8
          DEF BookInv, Book!OrderWasOffered, Book!SuccessShowsTheOrder
<1>9. ASSUME NEW s \in Slot, Book!handleSlotSelect(s) \/ Desk!handleSlotSelect(s)
      PROVE  BookInv'
  <2>1. /\ s \in pricing.slots /\ selected' \in {selected \ {s}, {s}, selected \cup {s}}
        /\ UNCHANGED <<date, timer, pricing, questions, overlap, attempt, success>>
    BY <1>9 DEF Book!handleSlotSelect, Desk!handleSlotSelect
  <2>2. ASSUME ~overlap
        PROVE  questions = <<>> /\ selected' \subseteq pricing.slots
    BY <2>1, <2>2, NoneOffered DEF BookInv
  <2> QED BY <2>1, <2>2 DEF BookInv, Book!OrderWasOffered, Book!SuccessShowsTheOrder
<1>10. CASE Book!handlePayment \/ Desk!handlePayment
  <2>1. /\ ~timer /\ date # "none"
        /\ UNCHANGED <<date, timer, pricing, questions, overlap, selected, success>>
    BY <1>10 DEF Book!handlePayment, Desk!handlePayment, Book!Ready, Desk!Ready
  <2>2. PICK slots \in {Book!effectiveSlots, Desk!effectiveSlots} :
          /\ slots # {}
          /\ attempt' = [at |-> "order", order |-> [date |-> date, slots |-> slots],
                         seen |-> pricing, overlap |-> overlap]
    BY <1>10 DEF Book!handlePayment, Desk!handlePayment, Book!Ready, Desk!Ready
  <2>3. ASSUME ~overlap
        PROVE  slots \subseteq pricing.slots /\ pricing.date = date
    BY <2>1, <2>2, <2>3, EffectiveSlots, NoneOffered DEF BookInv
  <2>4. Book!OrderWasOffered' /\ DOMAIN attempt' = {"at", "order", "seen", "overlap"}
    BY <2>2, <2>3 DEF Book!OrderWasOffered
  <2> QED BY <2>1, <2>4 DEF BookInv, Book!SuccessShowsTheOrder
<1>11. CASE Book!orderAnswered \/ Desk!orderAnswered
  <2>1. /\ UNCHANGED <<date, timer, pricing, questions, overlap, selected>>
        /\ \/ attempt' = [attempt EXCEPT !.at = "script"] /\ attempt.at = "order"
           \/ attempt'.at = "nothing" /\ DOMAIN attempt' = {"at", "order", "seen", "overlap"}
        /\ (success' = success \/ success'.shown = success'.order)
    BY <1>11 DEF Book!orderAnswered, Desk!orderAnswered, Book!NoAttempt, Desk!NoAttempt,
                 Book!Succeed, Desk!Succeed, Book!WhatWasOrdered, Desk!WhatWasOrdered
  <2>2. Book!OrderWasOffered' /\ DOMAIN attempt' = {"at", "order", "seen", "overlap"}
    <3>1. CASE attempt' = [attempt EXCEPT !.at = "script"] /\ attempt.at = "order"
      BY <3>1 DEF BookInv, Book!OrderWasOffered
    <3>2. CASE attempt'.at = "nothing"
      BY <2>1, <3>2 DEF BookInv, Book!OrderWasOffered
    <3> QED BY <2>1, <3>1, <3>2
  <2> QED BY <2>1, <2>2 DEF BookInv, Book!SuccessShowsTheOrder
<1>12. CASE Book!scriptLoaded \/ Desk!scriptLoaded
  <2>1. /\ UNCHANGED <<date, timer, pricing, questions, overlap, selected, success>>
        /\ attempt'.at = "nothing" /\ DOMAIN attempt' = {"at", "order", "seen", "overlap"}
    BY <1>12 DEF Book!scriptLoaded, Desk!scriptLoaded, Book!NoAttempt, Desk!NoAttempt
  <2> QED BY <2>1 DEF BookInv, Book!OrderWasOffered, Book!SuccessShowsTheOrder
<1>13. CASE Book!checkoutPaid \/ Desk!checkoutPaid
  <2>1. /\ UNCHANGED <<date, timer, pricing, questions, overlap, selected, attempt>>
        /\ success'.shown = success'.order
    BY <1>13 DEF Book!checkoutPaid, Desk!checkoutPaid, Book!Succeed, Desk!Succeed,
                 Book!WhatWasOrdered, Desk!WhatWasOrdered
  <2> QED BY <2>1 DEF BookInv, Book!OrderWasOffered, Book!SuccessShowsTheOrder
<1> QED BY <1>1, <1>2, <1>3, <1>4, <1>5, <1>6, <1>7, <1>8, <1>9, <1>10, <1>11, <1>12, <1>13
        DEF Book!BookNext, Desk!BookNext

LEMMA BookSafe ==
  ASSUME BookInv, [FrontNext]_frontVars
  PROVE  BookInv'
<1>1. CASE UNCHANGED bookVars
  BY <1>1 DEF bookVars, BookInv, Book!OrderWasOffered, Book!SuccessShowsTheOrder
<1> QED BY <1>1, PageSteps, BookInvKept

-----------------------------------------------------------------------------
\* Although Book.tsx withdraws no price question and keeps the old answer on the screen while
\* a day is picked, an order is for slots that the answer for its day offered, unless two
\* questions were under way at once; and BookSuccess.tsx shows the order it is about.
THEOREM Booked_as_shown == FrontSpec => []BookedAsShown
<1>1. FrontInit => BookInv
  BY BookInit
<1>2. BookInv /\ [FrontNext]_frontVars => BookInv'
  BY BookSafe
<1>3. BookInv => BookedAsShown
  BY DEF BookInv, BookedAsShown
<1> QED BY <1>1, <1>2, <1>3, PTL DEF FrontSpec

(***************************************************************************)
(* The page on which a client is registered.                               *)
(***************************************************************************)

\* Until a company was made the form shows the profile as it is, or none; so what is asked
\* for is what was shown, or is left to a profile that was shown.
RegisterInv ==
  /\ created \in [done : Nat, refused : Nat, lost : Nat]
  /\ registerView \in {"form", "detail"}
  /\ currentStep \in {"idle", "creating", "uploading"}
  /\ created.done <= 1
  /\ registerView = "form" /\ currentStep # "uploading" => created.done = 0
  /\ registerView = "detail" =>
       currentStep = "idle" /\ \A f \in Kyc : kycItems[f] # "pending"
  /\ created.done = 0 /\ created.lost = 0 => savedInvoiceTo \in {profile, Register!Empty}
  /\ currentStep = "creating" /\ created.lost = 0 =>
       \/ request.sent = request.showed
       \/ request.sent = Register!Empty /\ request.showed = profile
  /\ Register!InvoicedAsFilledIn

LEMMA RegisterInit == FrontInit => RegisterInv
<1> SUFFICES ASSUME Register!RegisterInit PROVE RegisterInv
  BY DEF FrontInit
<1>1. /\ registerView = "form" /\ currentStep = "idle" /\ savedInvoiceTo = Register!Empty
      /\ created = [done |-> 0, refused |-> 0, lost |-> 0]
  BY DEF Register!RegisterInit
<1>2. created \in [done : Nat, refused : Nat, lost : Nat] /\ created.done = 0
  BY <1>1
<1> QED BY <1>1, <1>2 DEF RegisterInv, Register!InvoicedAsFilledIn

LEMMA RegisterInvKept ==
  ASSUME RegisterInv, Register!RegisterNext
  PROVE  RegisterInv'
<1> USE DEF Register!invoice, Register!sent, Register!Editable, Register!submitting
<1>a. CASE UNCHANGED <<registerView, profile, savedInvoiceTo, kycItems, currentStep, request,
                       created, snapshot>>
  BY <1>a DEF RegisterInv, Register!InvoicedAsFilledIn
<1>1. CASE Register!profileLoaded
  <2>1. /\ savedInvoiceTo' \in {profile, Register!Empty}
        /\ UNCHANGED <<registerView, profile, kycItems, currentStep, request, created, snapshot>>
    BY <1>1 DEF Register!profileLoaded
  <2> QED BY <2>1 DEF RegisterInv, Register!InvoicedAsFilledIn
<1>2. CASE Register!handleChange
  BY <1>a, <1>2 DEF Register!handleChange
<1>3. CASE Register!handleInvoiceToChange
  BY <1>a, <1>3 DEF Register!handleInvoiceToChange
<1>4. CASE Register!setSaveInvoiceToProfile
  BY <1>a, <1>4 DEF Register!setSaveInvoiceToProfile
<1>5. CASE Register!customize
  BY <1>a, <1>5 DEF Register!customize
<1>6. CASE Register!useSaved
  BY <1>a, <1>6 DEF Register!useSaved
<1>7. ASSUME NEW f \in Kyc, Register!handleFilesSelected(f) \/ Register!removeItem(f)
      PROVE  RegisterInv'
  <2>1. /\ registerView = "form"
        /\ UNCHANGED <<registerView, profile, savedInvoiceTo, currentStep, request, created,
                       snapshot>>
    BY <1>7 DEF Register!handleFilesSelected, Register!removeItem
  <2> QED BY <2>1 DEF RegisterInv, Register!InvoicedAsFilledIn
<1>8. ASSUME NEW f \in Kyc, Register!kycUploaded(f)
      PROVE  RegisterInv'
  <2>1. /\ currentStep = "uploading"
        /\ UNCHANGED <<registerView, profile, savedInvoiceTo, currentStep, request, created,
                       snapshot>>
    BY <1>8 DEF Register!kycUploaded
  <2> QED BY <2>1 DEF RegisterInv, Register!InvoicedAsFilledIn
<1>9. CASE Register!handleSubmit
  <2>1. /\ registerView = "form" /\ currentStep = "idle" /\ currentStep' = "creating"
        /\ UNCHANGED <<registerView, profile, savedInvoiceTo, kycItems, created, snapshot>>
    BY <1>9 DEF Register!handleSubmit
  <2>2. \/ request'.sent = request'.showed
        \/ /\ request'.sent = Register!Empty /\ request'.showed = savedInvoiceTo
           /\ savedInvoiceTo # Register!Empty
    BY <1>9 DEF Register!handleSubmit, Register!Customizing
  <2> QED BY <2>1, <2>2 DEF RegisterInv, Register!InvoicedAsFilledIn
<1>10. CASE Register!companyCreated
  <2>1. /\ currentStep = "creating" /\ UNCHANGED <<registerView, savedInvoiceTo, kycItems, request>>
    BY <1>10 DEF Register!companyCreated
  <2>2. registerView = "form" /\ created.done = 0
    BY <2>1 DEF RegisterInv
  <2>3. CASE /\ Register!Create /\ created' = [created EXCEPT !.done = @ + 1]
             /\ currentStep' = "uploading"
    <3>1. /\ created' \in [done : Nat, refused : Nat, lost : Nat]
          /\ created'.done = 1 /\ created'.lost = created.lost
      BY <2>2, <2>3 DEF RegisterInv
    <3>2. snapshot' = [f \in Register!Field |->
                         IF request.sent[f] # "empty" THEN request.sent[f] ELSE profile[f]]
      BY <2>3 DEF Register!Create, Register!createAggregatorBookingTx, Register!Resolved
    <3>3. ASSUME created.lost = 0, NEW f \in Register!Field, request.showed[f] # "empty"
          PROVE  snapshot'[f] = request.showed[f]
      BY <2>1, <3>2, <3>3 DEF RegisterInv, Register!Empty
    <3>4. Register!InvoicedAsFilledIn'
      BY <2>1, <3>1, <3>3 DEF Register!InvoicedAsFilledIn
    <3> QED BY <2>1, <2>2, <2>3, <3>1, <3>4 DEF RegisterInv
  <2>4. CASE /\ UNCHANGED <<snapshot, profile>> /\ created' = [created EXCEPT !.refused = @ + 1]
             /\ currentStep' = "idle"
    <3>1. /\ created' \in [done : Nat, refused : Nat, lost : Nat]
          /\ created'.done = 0 /\ created'.lost = created.lost
      BY <2>2, <2>4 DEF RegisterInv
    <3> QED BY <2>1, <2>2, <2>4, <3>1 DEF RegisterInv, Register!InvoicedAsFilledIn
  <2>5. CASE created' = [created EXCEPT !.lost = @ + 1] /\ currentStep' = "idle"
    <3>1. /\ created' \in [done : Nat, refused : Nat, lost : Nat]
          /\ created'.done = 0 /\ created'.lost # 0
      BY <2>2, <2>5 DEF RegisterInv
    <3> QED BY <2>1, <2>2, <2>5, <3>1 DEF RegisterInv, Register!InvoicedAsFilledIn
  <2> QED BY <1>10, <2>3, <2>4, <2>5 DEF Register!companyCreated
<1>11. CASE Register!submitted
  <2>1. /\ registerView' = "detail" /\ currentStep' = "idle"
        /\ \A f \in Kyc : kycItems[f] # "pending"
        /\ UNCHANGED <<profile, savedInvoiceTo, kycItems, request, created, snapshot>>
    BY <1>11 DEF Register!submitted, Register!ToSend, Register!AfterUploads
  <2> QED BY <2>1 DEF RegisterInv, Register!InvoicedAsFilledIn
<1> QED BY <1>1, <1>2, <1>3, <1>4, <1>5, <1>6, <1>7, <1>8, <1>9, <1>10, <1>11
        DEF Register!RegisterNext

LEMMA RegisterSafe ==
  ASSUME RegisterInv, [FrontNext]_frontVars
  PROVE  RegisterInv'
<1>1. CASE UNCHANGED registerVars
  BY <1>1 DEF registerVars, RegisterInv, Register!InvoicedAsFilledIn
<1> QED BY <1>1, PageSteps, RegisterInvKept

-----------------------------------------------------------------------------
\* The submit of AggregatorCreateCompany.tsx makes one company in a visit unless an answer
\* was lost, sends every file of its list before the page is left, and the booking has each
\* filled-in field of "Invoice To" as it was shown, although the profile may load, or be
\* saved by another submit, while the form is open.
THEOREM Registered_as_filled_in == FrontSpec => []RegisteredAsFilledIn
<1>1. FrontInit => RegisterInv
  BY RegisterInit
<1>2. RegisterInv /\ [FrontNext]_frontVars => RegisterInv'
  BY RegisterSafe
<1>3. RegisterInv => RegisteredAsFilledIn
  <2> SUFFICES ASSUME RegisterInv PROVE RegisteredAsFilledIn
    OBVIOUS
  <2>1. Register!OneCompanyPerVisit
    BY DEF RegisterInv, Register!OneCompanyPerVisit
  <2> QED BY <2>1 DEF RegisterInv, RegisteredAsFilledIn, Register!EveryFileSent
<1> QED BY <1>1, <1>2, <1>3, PTL DEF FrontSpec

===============================================================================
