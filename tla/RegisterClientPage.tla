------------------------- MODULE RegisterClientPage -------------------------
(***************************************************************************)
(* The page on which an aggregator registers a client:                     *)
(* src/frontend/src/pages/AggregatorCreateCompany.tsx.  One submit creates *)
(* the company and then uploads the chosen KYC files one by one.  Whom the *)
(* booking is invoiced to is settled between the page and create of        *)
(* client-profiles, which fills what the page leaves out from the saved    *)
(* profile.  The other fields only have to be filled in.                   *)
(***************************************************************************)
EXTENDS Naturals, FiniteSets

CONSTANTS
  Kyc,      \* files the aggregator may choose
  MaxCreate \* bound: companies created, refused or lost in a visit

\* Two of the fields of "Invoice To" stand for all: the name and the tax number.
Field == {"legalName", "gstin"}
Empty == [f \in Field |-> "empty"]
Saved == [f \in Field |-> "saved"]

VARIABLES
  registerView,           \* "form" or, at last, "detail"
  profile,        \* the saved profile at the server, Empty if there is none
  profileLoading, savedInvoiceTo, invoiceTo, customizeInvoiceTo, saveInvoiceToProfile,
  filled,         \* company, contact, venue and duration are good
  kycItems,       \* status of a file, "out" while it is not on the list
  currentStep,    \* "idle", "creating" or "uploading"
  request,        \* the invoiceTo sent, and what section 3 showed then
  created,        \* the companies created, refused and lost
  snapshot        \* the invoice fields of the last booking made

registerVars == <<registerView, profile, profileLoading, savedInvoiceTo, invoiceTo,
                  customizeInvoiceTo, saveInvoiceToProfile, filled, kycItems,
                  currentStep, request, created, snapshot>>

NoRequest == [sent |-> Empty, showed |-> Empty, save |-> FALSE]

RegisterInit ==
  /\ registerView = "form"
  /\ profile \in {Empty, Saved}
  /\ profileLoading = TRUE /\ savedInvoiceTo = Empty /\ invoiceTo = Empty
  /\ customizeInvoiceTo = FALSE /\ saveInvoiceToProfile = FALSE
  /\ filled = FALSE
  /\ kycItems = [f \in Kyc |-> "out"]
  /\ currentStep = "idle" /\ request = NoRequest
  /\ created = [done |-> 0, refused |-> 0, lost |-> 0]
  /\ snapshot = Empty

invoice == <<savedInvoiceTo, invoiceTo, customizeInvoiceTo, saveInvoiceToProfile>>
sent    == <<profile, request, created, snapshot>>

\* Every input is disabled while the page submits.
submitting == currentStep # "idle"
Editable == registerView = "form" /\ ~submitting

-----------------------------------------------------------------------------
\* Without a profile, or without an answer, the fields are empty and are to be saved.
profileLoaded ==
  /\ registerView = "form" /\ profileLoading
  /\ profileLoading' = FALSE
  /\ \E p \in {profile, Empty} :
       /\ savedInvoiceTo' = p /\ invoiceTo' = p
       /\ customizeInvoiceTo' = (customizeInvoiceTo \/ p = Empty)
       /\ saveInvoiceToProfile' = (saveInvoiceToProfile \/ p = Empty)
  /\ UNCHANGED <<registerView, filled, kycItems, currentStep, sent>>

handleChange ==
  /\ Editable
  /\ filled' \in BOOLEAN
  /\ UNCHANGED <<registerView, profileLoading, invoice, kycItems, currentStep, sent>>

Customizing == savedInvoiceTo = Empty \/ customizeInvoiceTo

handleInvoiceToChange ==
  /\ Editable /\ ~profileLoading /\ Customizing
  /\ \E f \in Field, text \in {"typed", "empty"} : invoiceTo' = [invoiceTo EXCEPT ![f] = text]
  /\ UNCHANGED <<registerView, profileLoading, savedInvoiceTo, customizeInvoiceTo,
                 saveInvoiceToProfile, filled, kycItems, currentStep, sent>>

setSaveInvoiceToProfile ==
  /\ Editable /\ ~profileLoading /\ Customizing
  /\ saveInvoiceToProfile' = ~saveInvoiceToProfile
  /\ UNCHANGED <<registerView, profileLoading, savedInvoiceTo, invoiceTo, customizeInvoiceTo,
                 filled, kycItems, currentStep, sent>>

customize ==
  /\ Editable /\ ~profileLoading /\ ~Customizing
  /\ customizeInvoiceTo' = TRUE
  /\ UNCHANGED <<registerView, profileLoading, savedInvoiceTo, invoiceTo, saveInvoiceToProfile,
                 filled, kycItems, currentStep, sent>>

useSaved ==
  /\ Editable /\ ~profileLoading /\ Customizing /\ savedInvoiceTo # Empty
  /\ customizeInvoiceTo' = FALSE /\ saveInvoiceToProfile' = FALSE
  /\ invoiceTo' = savedInvoiceTo
  /\ UNCHANGED <<registerView, profileLoading, savedInvoiceTo, filled, kycItems, currentStep, sent>>

handleFilesSelected(f) ==
  /\ Editable /\ kycItems[f] = "out"
  /\ kycItems' = [kycItems EXCEPT ![f] = "pending"]
  /\ UNCHANGED <<registerView, profileLoading, invoice, filled, currentStep, sent>>

removeItem(f) ==
  /\ Editable /\ kycItems[f] # "out"
  /\ kycItems' = [kycItems EXCEPT ![f] = "out"]
  /\ UNCHANGED <<registerView, profileLoading, invoice, filled, currentStep, sent>>

-----------------------------------------------------------------------------
(* The submit.                                                             *)

Requests == created.done + created.refused + created.lost

handleSubmit ==
  /\ Editable /\ filled /\ Requests < MaxCreate
  /\ currentStep' = "creating"
  /\ request' = [sent   |-> IF Customizing THEN invoiceTo ELSE Empty,
                 showed |-> IF Customizing THEN invoiceTo ELSE savedInvoiceTo,
                 save   |-> Customizing /\ saveInvoiceToProfile /\ invoiceTo["legalName"] # "empty"]
  /\ UNCHANGED <<registerView, profileLoading, invoice, filled, kycItems, profile, created,
                 snapshot>>

\* What a request leaves out is taken from the saved profile, field by field.
Resolved(over) == [f \in Field |-> IF over[f] # "empty" THEN over[f] ELSE profile[f]]

\* The booking keeps the fields as they were resolved for it.
createAggregatorBookingTx == snapshot' = Resolved(request.sent)

Create ==
  /\ createAggregatorBookingTx
  /\ profile' = IF request.save THEN snapshot' ELSE profile

companyCreated ==
  /\ currentStep = "creating"
  /\ \/ /\ Create
        /\ created' = [created EXCEPT !.done = @ + 1]
        /\ currentStep' = "uploading"
     \/ /\ UNCHANGED <<snapshot, profile>>
        /\ created' = [created EXCEPT !.refused = @ + 1]
        /\ currentStep' = "idle"
     \/ /\ Create
        /\ created' = [created EXCEPT !.lost = @ + 1]
        /\ currentStep' = "idle"
  /\ UNCHANGED <<registerView, profileLoading, invoice, filled, kycItems, request>>

\* A file that failed does not keep the others from being sent.
ToSend == {f \in Kyc : kycItems[f] = "pending"}

kycUploaded(f) ==
  /\ currentStep = "uploading" /\ f \in ToSend
  /\ kycItems' \in {[kycItems EXCEPT ![f] = "done"], [kycItems EXCEPT ![f] = "error"]}
  /\ UNCHANGED <<registerView, profileLoading, invoice, filled, currentStep, sent>>

\* Failed or not, the page gives way to that of the company.
AfterUploadsIfDone == IF \E f \in Kyc : kycItems[f] = "error" THEN "form" ELSE "detail"
AfterUploads == "detail"

submitted ==
  /\ currentStep = "uploading" /\ ToSend = {}
  /\ registerView' = AfterUploads
  /\ currentStep' = "idle"
  /\ UNCHANGED <<profileLoading, invoice, filled, kycItems, sent>>

RegisterNext ==
  \/ profileLoaded \/ handleChange \/ handleInvoiceToChange \/ setSaveInvoiceToProfile
  \/ customize \/ useSaved
  \/ \E f \in Kyc : handleFilesSelected(f) \/ removeItem(f) \/ kycUploaded(f)
  \/ handleSubmit \/ companyCreated \/ submitted

-----------------------------------------------------------------------------
(* Properties.                                                             *)

\* A visit makes one company, however its files fare: a second is made only after the
\* answer to a request was lost, for create looks for no company of the same contact.
OneCompanyPerVisit == created.done + created.lost > 1 => created.lost > 0

\* The page is not left before every file of its list was sent.
EveryFileSent == registerView = "detail" => \A f \in Kyc : kycItems[f] # "pending"

\* A field of section 3 that is filled in is on the booking as it was shown, and so is
\* the saved profile where it was left in use; only after the answer to an earlier
\* request was lost may the saved profile be another than the page shows.
InvoicedAsFilledIn ==
  currentStep = "uploading" /\ created.lost = 0 =>
    \A f \in Field : request.showed[f] # "empty" => snapshot[f] = request.showed[f]

\* The booking is invoiced to what section 3 showed.  It is not: a field that was
\* emptied is left out of the request, and the saved profile fills it in again.
InvoicedAsShown ==
  currentStep = "uploading" /\ request.showed["legalName"] # "empty" =>
    snapshot = request.showed

=============================================================================
