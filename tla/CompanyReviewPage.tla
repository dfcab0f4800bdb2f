------------------------- MODULE CompanyReviewPage --------------------------
(***************************************************************************)
(* The page on which an admin, or an aggregator, reviews one company:      *)
(* src/frontend/src/pages/AdminCompanyDetail.tsx with the tabs of          *)
(* components/company-detail.  Each button has a busy flag of its own, so  *)
(* several operations may be under way; each that succeeds loads the page  *)
(* again before its flag is lowered.  The viewer is in DocumentViewer.     *)
(***************************************************************************)
EXTENDS Naturals, Sequences, FiniteSets, SequencesExt

CONSTANTS
  Draft,    \* files an admin may upload as agreement drafts, numbered as they are chosen
  MaxWork,  \* bound: operations under way at once
  MaxUnseen \* bound: changes of the company made elsewhere, and answers lost on the way

VARIABLES
  who,     \* the company comes from an aggregator, the page is shown to it
  server,  \* stage, status of the KYC document, payment, and whether a draft exists
  company, \* server as loaded last, Blank before and after a load that failed
  error,   \* a load failed and none was asked for since: the page shows only that
  loads,   \* the loads under way, oldest first
  work,    \* the operations under way: asked, or loading the page again
  modal,   \* activateModalOpen
  drafts,  \* the files chosen, those of them the loop has still to send, those stored
  unknown, \* the changes elsewhere and lost answers there were
  unseen,  \* the company may have changed since it was loaded
  past     \* history: drafts stored twice, or in a batch of which an upload failed;
           \* a second payment link asked for, a stage taken back, by a page that
           \* showed the company as it was

reviewVars == <<who, server, company, error, loads, work, modal, drafts, unknown, unseen, past>>

Row(stage, doc, payment, draft) ==
  [stage |-> stage, doc |-> doc, payment |-> payment, draft |-> draft]

Blank == Row("none", "none", "none", FALSE)

\* Rows a company may have when its page is opened.
Opened(aggregator) ==
  {Row("KYC_IN_PROGRESS", "REVIEW_PENDING", "none", FALSE),
   Row("KYC_REVIEW", "REVIEW_PENDING", "none", FALSE),
   Row("FINAL_AGREEMENT_SHARED", "VERIFIED", "none", TRUE)}
  \cup IF aggregator THEN {Row("AGREEMENT_DRAFT_SHARED", "VERIFIED", "none", TRUE)}
       ELSE {Row("ADMIN_CREATED", "none", "none", FALSE)}

ReviewInit ==
  /\ who \in {[aggregator |-> a, view |-> v] : a \in BOOLEAN, v \in BOOLEAN}
  /\ who.view => who.aggregator
  /\ server \in Opened(who.aggregator)
  /\ company = Blank /\ error = FALSE
  /\ loads = <<[row |-> server, op |-> "page", clean |-> TRUE]>>
  /\ work = {} /\ modal = FALSE
  /\ drafts = [chosen |-> {}, left |-> {}, stored |-> {}]
  /\ unknown = 0
  /\ unseen = FALSE
  /\ past = [twice |-> {}, failed |-> {}, again |-> FALSE, back |-> FALSE]

-----------------------------------------------------------------------------
(* What the server does with a request: the rows it may leave, none if it  *)
(* refuses.  See Documents and Payments for how it does.                   *)

Verdict == {"VERIFIED", "REJECTED", "PENDING_WITH_CLIENT"}

reviewDocument(s, v) ==
  {[s EXCEPT !.doc = v, !.stage = st] :
     st \in IF s.stage \notin {"KYC_IN_PROGRESS", "KYC_REVIEW"} THEN {}
            ELSE IF v = "VERIFIED" /\ s.stage = "KYC_REVIEW" /\ ~who.aggregator
              THEN {"KYC_REVIEW", "AGREEMENT_DRAFT_SHARED"}
            ELSE {s.stage}}

Moved(s, from, to) == IF s.stage \in from THEN {[s EXCEPT !.stage = to]} ELSE {}
Drafted(R) == {[s EXCEPT !.draft = TRUE] : s \in R}
SharedFrom == {"AGREEMENT_DRAFT_SHARED"} \cup IF who.aggregator THEN {"KYC_REVIEW"} ELSE {}
PastDraft  == {"SIGNED_AGREEMENT_RECEIVED", "FINAL_AGREEMENT_SHARED", "ACTIVE"}

Effects(s, op, v) ==
  IF s = Blank THEN {} ELSE
  CASE op = "review"   -> reviewDocument(s, v)
    [] op = "complete" -> {[s EXCEPT !.stage = "AGREEMENT_DRAFT_SHARED"]}
    [] op = "draft"    -> Drafted(Moved(s, SharedFrom, "AGREEMENT_DRAFT_SHARED"))
    [] op = "template" -> IF s.stage \in PastDraft THEN {} ELSE Drafted({s})
    [] op = "notify"   -> Moved(s, {"KYC_REVIEW", "AGREEMENT_DRAFT_SHARED"},
                                "AGREEMENT_DRAFT_SHARED")
    [] op = "signed"   -> Moved(s, {"AGREEMENT_DRAFT_SHARED", "SIGNED_AGREEMENT_RECEIVED"},
                                "SIGNED_AGREEMENT_RECEIVED")
    [] op = "final"    -> Moved(s, {"SIGNED_AGREEMENT_RECEIVED"}, "FINAL_AGREEMENT_SHARED")
                            \cup (IF s.stage \in {"FINAL_AGREEMENT_SHARED", "ACTIVE"}
                                  THEN {s} ELSE {})
    [] op = "link"     -> {[t EXCEPT !.payment = "CREATED"] :
                             t \in Moved(s, {"ADMIN_CREATED", "PAYMENT_PENDING"},
                                         "PAYMENT_PENDING")}
    [] op = "paid"     -> {[t EXCEPT !.payment = "PAID"] :
                             t \in Moved(s, {"PAYMENT_PENDING"}, "KYC_IN_PROGRESS")}
    [] op = "activate" -> Moved(s, {"FINAL_AGREEMENT_SHARED"}, "ACTIVE")
    [] op = "upload"   -> {[t EXCEPT !.doc = "REVIEW_PENDING"] :
                             t \in Moved(s, {"KYC_IN_PROGRESS"}, "KYC_REVIEW")}
    [] op = "delete"   -> {Blank}
    [] OTHER           -> {s}

\* Nobody signs or pays but the client, whose page this is not.
Elsewhere == {"complete", "draft", "final", "paid", "upload", "activate"}
               \cup IF who.view THEN {} ELSE {"signed"}

Dirty == [i \in DOMAIN loads |-> [loads[i] EXCEPT !.clean = FALSE]]

rivalMoves ==
  /\ unknown < MaxUnseen
  /\ \E op \in Elsewhere : server' \in Effects(server, op, "VERIFIED") \ {server}
  /\ unknown' = unknown + 1
  /\ unseen' = TRUE
  /\ loads' = Dirty
  /\ work' = {[w EXCEPT !.late = TRUE] : w \in work}
  /\ UNCHANGED <<who, company, error, modal, drafts, past>>

-----------------------------------------------------------------------------
(* Loading.  A load finds what is there when it is asked for; one that     *)
(* reads later finds only newer rows.                                      *)

Asked(row, op) ==
  Append(Dirty, [row |-> row, op |-> op, clean |-> loads = <<>>])

\* A load that fails leaves the error page, on which there is no button, also if another
\* succeeds after it.  The flag of the operation that asked for it goes down with it.
dataLoaded(i) ==
  /\ i \in DOMAIN loads
  /\ \/ company' = loads[i].row /\ UNCHANGED error
     \/ company' = Blank /\ error' = TRUE
  /\ unseen' = ~loads[i].clean
  /\ loads' = RemoveAt(loads, i)
  /\ work' = {w \in work : w.at # "loading" \/ w.op # loads[i].op}
  /\ UNCHANGED <<who, server, modal, drafts, unknown, past>>

-----------------------------------------------------------------------------
(* The buttons.                                                            *)

Clickable == company # Blank /\ ~error

FreeOnceAnswered(op) == \A w \in work : w.op = op => w.at # "asked"
Free(op) == \A w \in work : w.op # op

Start(op, v) ==
  /\ Clickable /\ Free(op) /\ Cardinality(work) < MaxWork
  /\ work' = work \cup {[op |-> op, arg |-> v, at |-> "asked", late |-> unseen]}
  /\ UNCHANGED <<who, server, company, error, loads, unknown, unseen>>

Click(op) == ~modal /\ Start(op, "none") /\ UNCHANGED <<modal, drafts, past>>
AdminClick(op) == ~who.view /\ Click(op)

\* handleApprove, handleReject and handleMarkPendingWithClient share busyId.
isReviewableDocStatus == company.doc \in {"REVIEW_PENDING", "PENDING_WITH_CLIENT"}
review(v) ==
  /\ ~who.view /\ ~modal /\ isReviewableDocStatus
  /\ Start("review", v)
  /\ UNCHANGED <<modal, drafts, past>>

handleApprove             == review("VERIFIED")
handleReject              == review("REJECTED")
handleMarkPendingWithClient == review("PENDING_WITH_CLIENT")

isCompliant         == company.doc = "VERIFIED"
canMarkKycComplete  == company.stage = "KYC_REVIEW" /\ isCompliant
handleMarkKycComplete == canMarkKycComplete /\ AdminClick("complete")

showPaymentSection == ~who.aggregator /\ company.stage \in {"ADMIN_CREATED", "PAYMENT_PENDING"}

handleGeneratePaymentLink ==
  /\ showPaymentSection /\ company.payment = "none"
  /\ ~who.view /\ ~modal /\ Start("link", "none")
  /\ past' = [past EXCEPT !.again = @ \/ (server.payment # "none" /\ ~unseen)]
  /\ UNCHANGED <<modal, drafts>>

pendingPayment          == showPaymentSection /\ company.payment = "CREATED"
handleResendPaymentLink == pendingPayment /\ AdminClick("resend")
handleMarkAsPaid        == pendingPayment /\ AdminClick("paid")
handleResendInvite      == Click("invite")
handleDeleteCompany     == AdminClick("delete")

templateBlocked == company.stage \in PastDraft
handleGenerateAgreementDraftFromTemplate ==
  who.aggregator /\ ~templateBlocked /\ Free("draft") /\ AdminClick("template")

handleNotifyAgreementDraftShared ==
  /\ who.aggregator /\ company.draft
  /\ company.stage \in {"KYC_REVIEW", "AGREEMENT_DRAFT_SHARED"}
  /\ AdminClick("notify")

canUploadSigned == company.stage \in {"AGREEMENT_DRAFT_SHARED", "SIGNED_AGREEMENT_RECEIVED"}
handleUploadAggregatorSignedAgreement == who.view /\ canUploadSigned /\ Click("signed")

handleUploadFinalAgreement == AdminClick("final")

\* A file is chosen once.
setAgreementDraftFiles ==
  /\ Clickable /\ ~who.view /\ ~modal /\ Free("draft")
  /\ drafts.chosen = {}
  /\ \E last \in Draft \ drafts.stored :
       drafts' = [drafts EXCEPT !.chosen = {f \in Draft \ drafts.stored : f <= last}]
  /\ UNCHANGED <<who, server, company, error, loads, work, modal, unknown, unseen, past>>

handleUploadAgreementDraft ==
  /\ ~who.view /\ ~modal /\ drafts.chosen # {}
  /\ Start("draft", "none")
  /\ drafts' = [drafts EXCEPT !.left = drafts.chosen]
  /\ UNCHANGED <<modal, past>>

canActivate == company.stage = "FINAL_AGREEMENT_SHARED"

openActivateModal ==
  /\ Clickable /\ ~who.view /\ ~modal /\ canActivate /\ Free("activate")
  /\ modal' = TRUE
  /\ UNCHANGED <<who, server, company, error, loads, work, drafts, unknown, unseen, past>>

closeActivateModal ==
  /\ modal /\ Clickable /\ Free("activate")
  /\ modal' = FALSE
  /\ UNCHANGED <<who, server, company, error, loads, work, drafts, unknown, unseen, past>>

\* The stage is asked for again: a load may have come since the modal was opened.
handleActivateSubmit ==
  /\ modal /\ canActivate
  /\ Start("activate", "none")
  /\ UNCHANGED <<modal, drafts, past>>

-----------------------------------------------------------------------------
(* The answers.                                                            *)

Without(w) == work \ {w}
ClearedFiles == {}

TakesBack(w) == w.op = "complete" /\ server.stage \in PastDraft /\ ~w.late

NoReload(w, row) == work' = Without(w) /\ UNCHANGED <<loads, error>>
Reload(w, row) ==
  /\ work' = Without(w) \cup {[w EXCEPT !.at = "loading"]}
  /\ loads' = Asked(row, w.op)
  /\ error' = FALSE

succeeded(w) ==
  /\ w.op \notin {"draft", "invite", "delete"}
  /\ server' \in Effects(server, w.op, w.arg)
  /\ Reload(w, server')
  /\ modal' = (modal /\ w.op # "activate")
  /\ past' = [past EXCEPT !.back = @ \/ TakesBack(w)]
  /\ UNCHANGED <<company, drafts, unknown, unseen>>

inviteResent(w) ==
  /\ w.op = "invite"
  /\ work' = Without(w)
  /\ UNCHANGED <<server, company, error, loads, modal, drafts, unknown, unseen, past>>

\* The visitor is taken to the dashboard; what the page still waits for is lost on it.
companyDeleted(w) ==
  /\ w.op = "delete"
  /\ server' = Blank /\ company' = Blank
  /\ work' = {} /\ loads' = <<>> /\ modal' = FALSE
  /\ UNCHANGED <<error, drafts, unknown, unseen, past>>

\* The loop sends one file after another; the list is cleared after the last.
draftStored(w, f) ==
  /\ w.op = "draft" /\ f \in drafts.left /\ \A g \in drafts.left : f <= g
  /\ server' \in Effects(server, "draft", "none")
  /\ past' = [past EXCEPT !.twice = @ \cup (drafts.stored \cap {f})]
  /\ IF drafts.left = {f}
       THEN /\ Reload(w, server') /\ UNCHANGED unseen
            /\ drafts' = [chosen |-> ClearedFiles, left |-> {}, stored |-> drafts.stored \cup {f}]
       ELSE /\ UNCHANGED <<work, error>> /\ loads' = Dirty /\ unseen' = TRUE
            /\ drafts' = [drafts EXCEPT !.left = @ \ {f}, !.stored = @ \cup {f}]
  /\ UNCHANGED <<company, modal, unknown>>

Failure(w) == past' = [past EXCEPT !.failed = IF w.op = "draft" THEN @ \cup drafts.chosen ELSE @]

refused(w) ==
  /\ work' = Without(w) /\ Failure(w)
  /\ UNCHANGED <<server, company, error, loads, modal, drafts, unknown, unseen>>

\* What was asked for is done, and the page does not hear of it.
answerLost(w) ==
  /\ unknown < MaxUnseen /\ w.op \notin {"draft", "invite"}
  /\ unknown' = unknown + 1
  /\ server' \in Effects(server, w.op, w.arg)
  /\ work' = Without(w) /\ Failure(w)
  /\ loads' = Dirty
  /\ unseen' = TRUE
  /\ UNCHANGED <<company, error, modal, drafts>>

answered ==
  /\ \E w \in work :
       /\ w.at = "asked"
       /\ \/ succeeded(w) \/ inviteResent(w) \/ companyDeleted(w) \/ refused(w) \/ answerLost(w)
          \/ \E f \in drafts.left : draftStored(w, f)
  /\ UNCHANGED who

ReviewNext ==
  \/ rivalMoves
  \/ \E i \in DOMAIN loads : dataLoaded(i)
  \/ handleApprove \/ handleReject \/ handleMarkPendingWithClient \/ handleMarkKycComplete
  \/ handleGeneratePaymentLink \/ handleResendPaymentLink \/ handleMarkAsPaid
  \/ handleResendInvite \/ handleDeleteCompany
  \/ handleGenerateAgreementDraftFromTemplate \/ handleNotifyAgreementDraftShared
  \/ handleUploadAggregatorSignedAgreement \/ handleUploadFinalAgreement
  \/ setAgreementDraftFiles \/ handleUploadAgreementDraft
  \/ openActivateModal \/ closeActivateModal \/ handleActivateSubmit
  \/ answered

-----------------------------------------------------------------------------
(* Properties.                                                             *)

\* Once its loads have come the page shows the company as it is, or an error, unless
\* the company was changed elsewhere, an answer was lost, a batch of drafts was stored
\* in part, or loads overlapped, of which an older one may come last.
ShowsTheCompany ==
  loads = <<>> /\ ~unseen /\ ~error => company = server

\* A page that shows the company as it is does not ask for a second payment link: from
\* the click on, until the payment is shown, the button is disabled or gone.
OnePaymentLink == ~past.again

\* "Mark KYC Review Complete" writes the stage whatever it is by then; it takes a
\* company back only if the company moved on after the page was loaded.
KycCompleteOnlyForward == ~past.back

\* A draft is stored twice only by a retry of a batch of which one upload failed.
DraftsStoredOnce == past.twice \subseteq past.failed

=============================================================================
