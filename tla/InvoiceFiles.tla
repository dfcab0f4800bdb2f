---------------------------- MODULE InvoiceFiles ----------------------------
(***************************************************************************)
(* The PDF file of an invoice: src/src/invoices/invoices.service.ts from   *)
(* the point on where the invoice's row is there.  The file is made, put   *)
(* into the bucket, noted in the row and mailed; if that fails, once more, *)
(* and the mail has a link; and whoever asks for a file that is not there  *)
(* yet makes it.  The service may stop between any two of those steps.     *)
(***************************************************************************)
EXTENDS Naturals

CONSTANTS
  MaxAsked, \* bound: requests for the file
  MaxStops  \* bound: stops of the service

Worker == {"payment", "request"}

VARIABLES
  setting, \* is there a bucket, and has the company an address
  pdf,     \* pdfFileKey is set, and what pdfUrl is
  bucket,  \* the file is in it
  doing,   \* where a worker is, and in what way it works
  letters, \* mails sent to the client (history)
  handed,  \* what the last request came to
  spoilt,  \* the second attempt or a mail failed, or the service stopped before it (history)
  askings, stops

filesVars == <<setting, pdf, bucket, doing, letters, handed, spoilt, askings, stops>>

FilesInit ==
  /\ setting \in [storage : BOOLEAN, contactEmail : BOOLEAN]
  /\ pdf = [key |-> FALSE, url |-> "none"] /\ bucket = FALSE
  /\ doing = [payment |-> [at |-> "pdf", way |-> "attachment"],
              request |-> [at |-> "none", way |-> "none"]]
  /\ letters = 0 /\ handed = "nothing" /\ spoilt = FALSE /\ askings = 0 /\ stops = 0

-----------------------------------------------------------------------------
At(w, place) == doing[w].at = place
Go(w, place) == doing' = [doing EXCEPT ![w].at = place]

\* The first attempt is followed by a second, the second by nothing, and a request by its
\* refusal.
Fail(w) ==
  CASE doing[w].way = "attachment" ->
         doing' = [doing EXCEPT ![w] = [at |-> "pdf", way |-> "link"]]
          /\ UNCHANGED <<handed, spoilt>>
  [] doing[w].way = "link" -> Go(w, "done") /\ spoilt' = TRUE /\ UNCHANGED handed
  [] OTHER -> Go(w, "none") /\ handed' = "error" /\ UNCHANGED spoilt

\* Puppeteer, and in all but the first attempt PDFKit after it.
makePdf(w) ==
  /\ At(w, "pdf")
  /\ \/ Go(w, "put") /\ UNCHANGED <<handed, spoilt>>
     \/ Fail(w)
  /\ UNCHANGED <<setting, pdf, bucket, letters, askings, stops>>

\* A slip: the file is noted in the row and never put.
NotedFirst(w) ==
  /\ At(w, "put")
  /\ pdf' = [key |-> TRUE, url |-> "fresh"] /\ Go(w, "note")
  /\ UNCHANGED <<setting, bucket, letters, handed, spoilt, askings, stops>>

\* The answer of the bucket may be lost.
putObject(w) ==
  /\ At(w, "put")
  /\ \/ setting.storage /\ bucket' = TRUE /\ Go(w, "note") /\ UNCHANGED <<handed, spoilt>>
     \/ bucket' \in {bucket, setting.storage \/ bucket} /\ Fail(w)
  /\ UNCHANGED <<setting, pdf, letters, askings, stops>>

\* pdfUrl is a link for seven days.
noteFile(w) ==
  /\ At(w, "note")
  /\ \/ /\ pdf' = [key |-> TRUE, url |-> "fresh"]
        /\ Go(w, IF w = "payment" THEN "mail" ELSE "answer")
        /\ UNCHANGED <<handed, spoilt>>
     \/ UNCHANGED pdf /\ Fail(w)
  /\ UNCHANGED <<setting, bucket, letters, askings, stops>>

\* A mail that the mail service refuses is no failure to the sender, but the row that is
\* read before may not come.
Mailed(w) ==
  /\ Go(w, "done") /\ UNCHANGED handed
  /\ letters' \in {letters, letters + 1} /\ spoilt' = (spoilt \/ letters' = letters)

sendInvoiceEmailWithAttachment ==
  /\ At("payment", "mail") /\ doing["payment"].way = "attachment"
  /\ IF setting.contactEmail THEN Mailed("payment") \/ (Fail("payment") /\ UNCHANGED letters)
     ELSE (Go("payment", "done") /\ UNCHANGED <<handed, spoilt, letters>>)
          \/ (Fail("payment") /\ UNCHANGED letters)
  /\ UNCHANGED <<setting, pdf, bucket, askings, stops>>

sendInvoiceEmail ==
  /\ At("payment", "mail") /\ doing["payment"].way = "link"
  /\ IF pdf.url # "none" /\ setting.contactEmail
     THEN Mailed("payment") \/ (Fail("payment") /\ UNCHANGED letters)
     ELSE Go("payment", "done") /\ UNCHANGED <<handed, spoilt, letters>>
  /\ UNCHANGED <<setting, pdf, bucket, askings, stops>>

-----------------------------------------------------------------------------
\* A request for the file itself or for a link to it; who finds no key makes the file.
Ask(way) ==
  /\ At("request", "none") /\ askings < MaxAsked /\ askings' = askings + 1
  /\ IF ~pdf.key /\ ~setting.storage
     THEN handed' = "error" /\ UNCHANGED doing
     ELSE /\ handed' = "nothing"
          /\ doing' = [doing EXCEPT !["request"] =
                         [at |-> IF pdf.key THEN "answer" ELSE "pdf",
                          way |-> IF pdf.key THEN way ELSE IF way = "file" THEN "file" ELSE "made"]]
  /\ UNCHANGED <<setting, pdf, bucket, letters, spoilt, stops>>

streamInvoiceFile == Ask("file")
getDownloadUrl    == Ask("url")

\* The file is fetched from the bucket; a link is made for an hour, or is the row's if the
\* file was made for it.
answered ==
  /\ At("request", "answer") /\ Go("request", "none")
  /\ handed' \in {"error",
                  CASE doing["request"].way = "file" -> IF bucket THEN "file" ELSE "error"
                  [] doing["request"].way = "made" -> pdf.url
                  [] OTHER -> IF bucket THEN "fresh" ELSE "dead"}
  /\ UNCHANGED <<setting, pdf, bucket, letters, spoilt, askings, stops>>

Idle == doing["payment"].at \in {"done", "lost"} /\ At("request", "none")

\* A week goes by: no work takes so long.
urlExpires ==
  /\ Idle /\ pdf.url = "fresh" /\ pdf' = [pdf EXCEPT !.url = "old"]
  /\ handed' = IF handed = "file" THEN handed ELSE "nothing"
  /\ UNCHANGED <<setting, bucket, doing, letters, spoilt, askings, stops>>

\* What was under way is lost, and is not taken up: the invoice is there.
serviceStops ==
  /\ stops < MaxStops /\ stops' = stops + 1
  /\ doing' = [doing EXCEPT !["payment"].at = IF @ = "done" THEN "done" ELSE "lost",
                            !["request"].at = "none"]
  /\ handed' = IF At("request", "none") THEN handed ELSE "error"
  /\ spoilt' = (spoilt \/ ~At("payment", "done"))
  /\ UNCHANGED <<setting, pdf, bucket, letters, askings>>

FilesNext ==
  \/ \E w \in Worker : makePdf(w) \/ putObject(w) \/ noteFile(w)
  \/ sendInvoiceEmailWithAttachment \/ sendInvoiceEmail
  \/ streamInvoiceFile \/ getDownloadUrl \/ answered \/ urlExpires \/ serviceStops

-----------------------------------------------------------------------------
\* A row that names a file has it in the bucket, so that no link or file that is handed
\* out is dead, and none is over its week, whoever made the file while the payment's
\* attempts were still under way.
FileIsThere == (pdf.key => bucket) /\ handed \notin {"dead", "old", "none"}

\* The client is mailed once at most, though there are two attempts, and once for sure
\* unless the second fails too, the mail is refused or the service stops.
MailedOnce ==
  /\ letters <= 1
  /\ At("payment", "done") /\ setting.contactEmail /\ ~spoilt => letters = 1

=============================================================================
