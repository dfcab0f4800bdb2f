----------------------------- MODULE Documents ------------------------------
(***************************************************************************)
(* The documents of a company and the onboarding they carry forward:       *)
(* src/src/documents with the parts of src/src/onboarding,                 *)
(* src/src/client-profiles and src/src/companies that read or write a      *)
(* company's stage.  Every endpoint is an async function whose database    *)
(* and storage calls interleave with those of other requests, so a request *)
(* is a job: the endpoint checks, and leaves the list of steps that its    *)
(* body still has to make.                                                 *)
(***************************************************************************)
EXTENDS OnboardingStages, Sequences

CONSTANTS
  Company,
  Doc,       \* the documents that may be uploaded, each under a file key of its own
  TypeOf,    \* the documentType of each of them
  Worker,    \* requests in progress at a time
  Patch,     \* the stages an admin may try to set by hand
  Registrar, \* who registers the companies that come by an aggregator
  Redirect,  \* the channels an admin may change a company to
  Verdict,   \* what an admin may say of a document at review
  MayCrash   \* whether the process may die and be restarted

Gone == "GONE"  \* the stage of a company whose row has been deleted

KycTypes   == {"AADHAAR", "PAN", "OTHER"}
FinalTypes == {"AGREEMENT_FINAL", "NOC_ASPIRE_COWORKS", "NOC_LANDLORD",
               "ELECTRICITY_BILL", "WIFI_BILL"}
DocumentType ==
  KycTypes \cup FinalTypes \cup {"KYC", "AGREEMENT_DRAFT", "AGREEMENT_SIGNED"}
Channel == {"DIRECT", "AGGREGATOR"}
DocumentStatus == {"REVIEW_PENDING", "VERIFIED", "APPROVED", "REJECTED",
                   "PENDING_WITH_CLIENT", "PENDING_WITH_ADMIN"}

ASSUME DocumentsAssumption ==
  /\ TypeOf \in [Doc -> DocumentType]
  /\ Patch \subseteq Stage /\ Redirect \subseteq Channel
  /\ Registrar \subseteq {"ADMIN", "AGGREGATOR"}
  /\ Verdict \subseteq {"VERIFIED", "REJECTED", "PENDING_WITH_CLIENT"}
  /\ MayCrash \in BOOLEAN
  /\ "none" \notin Company \cup Doc

VARIABLES
  stage,    \* clientProfile.onboardingStage
  channel,  \* clientProfile.clientChannel
  createdBy,\* the role of its createdBy: an admin, or the aggregator that brought it
  paid,     \* whether the company has a payment that is PAID
  login,    \* the user account of the company's client
  row,      \* the rows of the documents table, by document
  object,   \* the documents whose file is in the bucket
  job,      \* of a worker: the request it serves and the steps left
  history   \* notes on what has happened to a company

vars == <<stage, channel, createdBy, paid, login, row, object, job, history>>

Present        == DOMAIN row
DocsOf(c)      == {d \in Present : row[d].co = c}
DocsLike(c, t) == {d \in DocsOf(c) : TypeOf[d] = t}

-----------------------------------------------------------------------------
(* Jobs.                                                                   *)

Idle == [op |-> "idle", co |-> "none", d |-> "none", todo |-> <<>>,
         ver |-> 1, known |-> {}, st |-> "none", late |-> FALSE]

Insert(by)     == [do |-> "row", by |-> by]
Version(S)     == [do |-> "version", among |-> S]
Do(op)         == [do |-> op]
Check(S)       == [do |-> "check", in |-> S]
Write(to)      == [do |-> "write", to |-> to]
Must(to)       == [do |-> "must", to |-> to]
Move(to, from) == [do |-> "move", to |-> to, from |-> from]
Save(to, ch)   == [do |-> "save", to |-> to, ch |-> ch]

At(w, op) == /\ job[w].todo # <<>>
             /\ Head(job[w].todo).do = op
Now(w)    == Head(job[w].todo)
Rest(w)   == Tail(job[w].todo)

\* The request goes on with the steps given, or returns when there is none.
Continue(w, steps) ==
  job' = [job EXCEPT ![w] = IF steps = <<>> THEN Idle ELSE [@ EXCEPT !.todo = steps]]

\* A request passes its checks and has the steps given before it.
Begin(w, op, c, d, st, steps) ==
  /\ job[w] = Idle
  /\ job' = [job EXCEPT ![w] =
               [op |-> op, co |-> c, d |-> d, todo |-> steps, ver |-> 1, known |-> {},
                st |-> st, late |-> stage[c] = "ACTIVE"]]
  /\ UNCHANGED <<stage, channel, createdBy, paid, login, row, object, history>>

\* A document nobody has used yet: its uuid makes its file key unique.
Fresh(d) == /\ d \notin Present \cup object
            /\ \A w \in Worker : job[w].d # d

-----------------------------------------------------------------------------
(* Steps that the endpoints share.                                         *)

\* The documents of the highest version: of two that tie, the query returns either.
Newest(S) == {d \in S : \A e \in S : row[e].version <= row[d].version}

\* The version of a new agreement is one above the highest there is now.
VersionIgnoringOld(S) == {1} \* a slip: the previous document is not looked up
VersionFromZero(S) == IF S = {} THEN {0} ELSE {row[d].version + 1 : d \in Newest(S)} \* a slip
VersionAfter(S) == IF S = {} THEN {1} ELSE {row[d].version + 1 : d \in Newest(S)}

ReadVersion(w) ==
  LET S == DocsLike(job[w].co, TypeOf[job[w].d]) \cap Now(w).among
  IN /\ At(w, "version")
     /\ \E v \in VersionAfter(S) :
          job' = [job EXCEPT ![w].todo = Rest(w), ![w].known = S, ![w].ver = v]
     /\ UNCHANGED <<stage, channel, createdBy, paid, login, row, object, history>>

PutObject(w) ==
  /\ At(w, "put")
  /\ object' = object \cup {job[w].d}
  /\ Continue(w, Rest(w))
  /\ UNCHANGED <<stage, channel, createdBy, paid, login, row, history>>

\* document.create; the foreign key refuses it once the company is gone.
InsertRow(w) ==
  /\ At(w, "row")
  /\ IF stage[job[w].co] = Gone
       THEN Continue(w, <<>>) /\ UNCHANGED row
       ELSE /\ row' = [e \in Present \cup {job[w].d} |->
                         IF e \in Present THEN row[e]
                         ELSE [co |-> job[w].co, version |-> job[w].ver,
                               status |-> job[w].st, known |-> job[w].known,
                               by |-> Now(w).by]]
            /\ Continue(w, Rest(w))
  /\ UNCHANGED <<stage, channel, createdBy, paid, login, object, history>>

-----------------------------------------------------------------------------
(* The onboarding service.                                                 *)

\* assertStage and assertNotActive, met in the middle of a request.
assertStage(w) ==
  /\ At(w, "check")
  /\ Continue(w, IF stage[job[w].co] \in Now(w).in THEN Rest(w) ELSE <<>>)
  /\ UNCHANGED <<stage, channel, createdBy, paid, login, row, object, history>>

\* The read of updateStageIfAllowed: no stage it may start from, no move.  Its
\* callers catch what it throws.  The second read that updateStage makes adds
\* nothing: a stage between the two that the table lets through is in the list.
updateStageIfAllowed(w) ==
  LET cur == stage[job[w].co]
  IN /\ At(w, "move")
     /\ Continue(w, IF cur \in Now(w).from /\ CanTransition(cur, Now(w).to)
                      THEN <<Write(Now(w).to)>> \o Rest(w) ELSE Rest(w))
     /\ UNCHANGED <<stage, channel, createdBy, paid, login, row, object, history>>

\* The read of updateStage: a transition the table does not have is an error.
updateStage(w) ==
  /\ At(w, "must")
  /\ Continue(w, IF CanTransition(stage[job[w].co], Now(w).to)
                   THEN <<Write(Now(w).to)>> \o Rest(w) ELSE <<>>)
  /\ UNCHANGED <<stage, channel, createdBy, paid, login, row, object, history>>

\* What a write of a stage leaves in the history of its company.
Moved(w, to) ==
  (IF job[w].op = "activate" THEN {"activated"} ELSE {}) \cup
  (IF to \in {"PAYMENT_CONFIRMED", "KYC_IN_PROGRESS"} /\ job[w].op # "kyc"
     THEN {"sent back"} ELSE {}) \cup
  (IF stage[job[w].co] = "ACTIVE" /\ to # "ACTIVE" THEN {"reopened"} ELSE {})

\* Its update, which names the row by id only: whatever the stage is by now.
writeStage(w) ==
  LET c == job[w].co
  IN /\ At(w, "write")
     /\ IF stage[c] = Gone
          THEN Continue(w, <<>>) /\ UNCHANGED <<stage, history>>
          ELSE /\ stage' = [stage EXCEPT ![c] = Now(w).to]
               /\ history' = [history EXCEPT ![c] = @ \cup Moved(w, Now(w).to)]
               /\ Continue(w, Rest(w))
     /\ UNCHANGED <<channel, createdBy, paid, login, row, object>>

onKycUploaded ==
  Move("KYC_IN_PROGRESS", {"PAYMENT_CONFIRMED", "KYC_IN_PROGRESS", "KYC_REVIEW"})
moveToKycReviewAfterUpload == Move("KYC_REVIEW", {"KYC_IN_PROGRESS", "KYC_REVIEW"})
onKycApproved              == Move("AGREEMENT_DRAFT_SHARED", {"KYC_REVIEW"})
onAgreementDraftShared ==
  Move("AGREEMENT_DRAFT_SHARED", {"KYC_REVIEW", "AGREEMENT_DRAFT_SHARED"})
onSignedAgreementReceived ==
  Move("SIGNED_AGREEMENT_RECEIVED",
       {"AGREEMENT_DRAFT_SHARED", "SIGNED_AGREEMENT_RECEIVED"})
onFinalAgreementShared ==
  Move("FINAL_AGREEMENT_SHARED", {"SIGNED_AGREEMENT_RECEIVED"})

KycMovesReversed == <<moveToKycReviewAfterUpload, onKycUploaded>> \* a slip
KycMoves == <<onKycUploaded, moveToKycReviewAfterUpload>>

\* Razorpay or an admin confirms a payment; Payments has its steps.
onPaymentConfirmed(c) ==
  /\ stage[c] = "PAYMENT_PENDING"
  /\ paid' = [paid EXCEPT ![c] = TRUE]
  /\ stage' = [stage EXCEPT ![c] = "KYC_IN_PROGRESS"]
  /\ UNCHANGED <<channel, createdBy, login, row, object, job, history>>

-----------------------------------------------------------------------------
(* Uploads by the client and by the aggregator who onboarded the client.   *)

IsClient(c) == login[c] = "linked"

\* No KYC before payment, no signed agreement before the draft is shared.
ClientStages(t) ==
  IF t = "AGREEMENT_SIGNED" THEN {"AGREEMENT_DRAFT_SHARED"}
  ELSE {"PAYMENT_CONFIRMED", "KYC_IN_PROGRESS", "KYC_REVIEW"}

\* The row is made before the file, which the caller puts in the bucket past the
\* server, or never.  A re-upload may name a document it replaces.
ClientOp(d) == IF TypeOf[d] \in KycTypes THEN "kyc" ELSE "other"

generateUploadUrl(w, c, d) ==
  /\ IsClient(c) /\ Fresh(d)
  /\ TypeOf[d] \in KycTypes \cup {"AGREEMENT_SIGNED"}
  /\ stage[c] \in ClientStages(TypeOf[d])
  /\ \E S \in {{}} \cup {{e} : e \in DocsLike(c, TypeOf[d])} :
       Begin(w, ClientOp(d), c, d, "REVIEW_PENDING",
             (IF S = {} THEN <<>> ELSE <<Version(S)>>) \o <<Insert("presigned")>> \o
               (IF TypeOf[d] = "AGREEMENT_SIGNED" THEN <<>> ELSE KycMoves))

confirmSteps ==
  <<Check({"AGREEMENT_DRAFT_SHARED", "SIGNED_AGREEMENT_RECEIVED"}),
    onSignedAgreementReceived>>

uploadDocumentProxy(w, c, d) ==
  /\ IsClient(c) /\ Fresh(d)
  /\ TypeOf[d] \in KycTypes \cup {"AGREEMENT_SIGNED"}
  /\ stage[c] \in ClientStages(TypeOf[d])
  /\ Begin(w, ClientOp(d), c, d, "REVIEW_PENDING",
           <<Do("put"), Insert("server")>> \o
             (IF TypeOf[d] = "AGREEMENT_SIGNED" THEN confirmSteps ELSE KycMoves))

NotActive(c) == stage[c] \notin {"ACTIVE", Gone}

\* What an aggregator may upload for: still of its channel, and brought by itself.
OwnClient(c) == channel[c] = "AGGREGATOR" /\ createdBy[c] = "AGGREGATOR"

uploadAggregatorKycProxy(w, c, d) ==
  /\ OwnClient(c) /\ Fresh(d)
  /\ TypeOf[d] \in KycTypes
  /\ NotActive(c)
  /\ Begin(w, "kyc", c, d, "REVIEW_PENDING",
           <<Do("put"), Insert("server")>> \o KycMoves)

uploadAggregatorSignedAgreementProxy(w, c, d) ==
  /\ OwnClient(c) /\ Fresh(d)
  /\ TypeOf[d] = "AGREEMENT_SIGNED"
  /\ stage[c] \in {"AGREEMENT_DRAFT_SHARED", "SIGNED_AGREEMENT_RECEIVED"}
  /\ Begin(w, "other", c, d, "REVIEW_PENDING",
           <<Version(Doc), Do("put"), Insert("server"), onSignedAgreementReceived>>)

confirmSignedAgreement(w, c, d) ==
  /\ IsClient(c)
  /\ d \in DocsLike(c, "AGREEMENT_SIGNED")
  /\ stage[c] \in {"AGREEMENT_DRAFT_SHARED", "SIGNED_AGREEMENT_RECEIVED"}
  /\ Begin(w, "other", c, d, "none", <<onSignedAgreementReceived>>)

submitKycForReview(w, c) ==
  /\ IsClient(c)
  /\ stage[c] = "KYC_IN_PROGRESS"
  /\ \E d \in DocsOf(c) : TypeOf[d] \in KycTypes \cup {"KYC"}
  /\ Begin(w, "other", c, "none", "none", <<moveToKycReviewAfterUpload>>)

-----------------------------------------------------------------------------
(* Review by an admin.                                                     *)

Reviewable == KycTypes \cup {"KYC", "AGREEMENT_SIGNED"}

UnlockedStages(t) == Stage \* a slip: the lock is forgotten
ReviewStages(t) == IF t = "AGREEMENT_SIGNED" THEN {"SIGNED_AGREEMENT_RECEIVED"}
                   ELSE {"KYC_IN_PROGRESS", "KYC_REVIEW"}

reviewDocument(w, d, verdict) ==
  /\ d \in Present
  /\ TypeOf[d] \in Reviewable
  /\ stage[row[d].co] \in ReviewStages(TypeOf[d])
  /\ Begin(w, "review", row[d].co, d, verdict,
           <<Do("status"), Do("direct?"), Do("approved?")>>)

\* assertKycDocumentForReview: /admin/kyc takes documents of the old KYC type.
KycForReview(d) == /\ d \in Present
                   /\ TypeOf[d] = "KYC"
                   /\ stage[row[d].co] \in {"KYC_IN_PROGRESS", "KYC_REVIEW"}

approveKycDocument(w, d) ==
  /\ KycForReview(d)
  /\ Begin(w, "approve", row[d].co, d, "APPROVED", <<Do("status"), Do("approved?")>>)

rejectKycDocument(w, d) ==
  /\ KycForReview(d)
  /\ Begin(w, "other", row[d].co, d, "REJECTED",
           <<Do("status"), Must("KYC_IN_PROGRESS")>>)

pendingWithClientKycDocument(w, d) ==
  /\ KycForReview(d)
  /\ Begin(w, "other", row[d].co, d, "PENDING_WITH_CLIENT",
           <<Do("status"), Must("KYC_IN_PROGRESS")>>)

pendingWithAdminKycDocument(w, d) ==
  /\ KycForReview(d)
  /\ Begin(w, "other", row[d].co, d, "PENDING_WITH_ADMIN",
           <<Do("status"), Must("KYC_REVIEW")>>)

\* document.update.  The row it returns carries the stage of that moment, and
\* only an approval read at KYC_REVIEW goes on to ask for the other documents.
UpdateStatus(w) ==
  LET d == job[w].d
      c == job[w].co
      asks == \/ job[w].op = "approve" /\ stage[c] = "KYC_REVIEW"
              \/ job[w].op = "review" /\ job[w].st = "VERIFIED" /\ stage[c] = "KYC_REVIEW"
  IN /\ At(w, "status")
     /\ IF d \notin Present
          THEN Continue(w, <<>>) /\ UNCHANGED row
          ELSE /\ row' = [row EXCEPT ![d].status = job[w].st]
               /\ Continue(w, IF job[w].op \in {"approve", "review"} /\ ~asks
                                THEN <<>> ELSE Rest(w))
     /\ UNCHANGED <<stage, channel, createdBy, paid, login, object, history>>

\* Only a company of the direct channel moves on by itself.
isDirect(w) ==
  /\ At(w, "direct?")
  /\ Continue(w, IF channel[job[w].co] = "AGGREGATOR" THEN <<>> ELSE Rest(w))
  /\ UNCHANGED <<stage, channel, createdBy, paid, login, row, object, history>>

Approved == {"APPROVED", "VERIFIED"}

\* The newest document of the old KYC type.
LatestKyc(c) == Newest(DocsLike(c, "KYC"))

areAllKycDocumentsApproved(w) ==
  LET c == job[w].co
  IN /\ At(w, "approved?")
     /\ \/ /\ \E d \in LatestKyc(c) : row[d].status \in Approved
           /\ Continue(w, <<onKycApproved>>)
        \/ /\ LatestKyc(c) = {} \/ \E d \in LatestKyc(c) : row[d].status \notin Approved
           /\ Continue(w, <<>>)
     /\ UNCHANGED <<stage, channel, createdBy, paid, login, row, object, history>>

-----------------------------------------------------------------------------
(* Agreements and other papers from the admin.                             *)

DraftStages(c) == {"AGREEMENT_DRAFT_SHARED"} \cup
                  (IF channel[c] = "AGGREGATOR" THEN {"KYC_REVIEW"} ELSE {})

generateAdminAgreementDraftUploadUrl(w, c, d) ==
  /\ Fresh(d) /\ TypeOf[d] = "AGREEMENT_DRAFT"
  /\ stage[c] \in DraftStages(c)
  /\ Begin(w, "other", c, d, "APPROVED", <<Version(Doc), Insert("presigned")>>)

draftSharedSteps == <<Check(Stage \ {"ACTIVE"}), onAgreementDraftShared>>

uploadAdminAgreementDraftProxy(w, c, d) ==
  /\ Fresh(d) /\ TypeOf[d] = "AGREEMENT_DRAFT"
  /\ stage[c] \in DraftStages(c)
  /\ Begin(w, "other", c, d, "APPROVED",
           <<Version(Doc), Do("put"), Insert("server")>> \o draftSharedSteps)

TemplateStages ==
  {"ADMIN_CREATED", "PAYMENT_PENDING", "PENDING_DOCUMENTS", "DOCUMENTS_SUBMITTED",
   "UNDER_REVIEW", "PAYMENT_CONFIRMED", "KYC_IN_PROGRESS", "KYC_REVIEW",
   "AGREEMENT_DRAFT_SHARED"}

generateAgreementDraftFromTemplate(w, c, d) ==
  /\ Fresh(d) /\ TypeOf[d] = "AGREEMENT_DRAFT"
  /\ channel[c] = "AGGREGATOR"
  /\ stage[c] \in TemplateStages
  /\ Begin(w, "other", c, d, "APPROVED",
           <<Version(Doc), Do("put"), Insert("server")>>)

notifyAgreementDraftShared(w, c, d) ==
  /\ d \in DocsLike(c, "AGREEMENT_DRAFT")
  /\ NotActive(c)
  /\ Begin(w, "other", c, d, "none", <<onAgreementDraftShared>>)

FinalUploadStages ==
  {"SIGNED_AGREEMENT_RECEIVED", "FINAL_AGREEMENT_SHARED", "ACTIVE", "COMPLETED"}

generateAdminAgreementFinalUploadUrl(w, c, d) ==
  /\ Fresh(d) /\ TypeOf[d] \in FinalTypes
  /\ stage[c] \in FinalUploadStages
  /\ Begin(w, "other", c, d, "APPROVED", <<Version(Doc), Insert("presigned")>>)

uploadAdminAgreementFinalProxy(w, c, d) ==
  /\ Fresh(d) /\ TypeOf[d] \in FinalTypes
  /\ stage[c] \in FinalUploadStages
  /\ Begin(w, "other", c, d, "APPROVED",
           <<Version(Doc), Do("put"), Insert("server")>> \o
             (IF TypeOf[d] = "AGREEMENT_FINAL" THEN <<onFinalAgreementShared>>
              ELSE <<>>))

notifyAgreementFinalShared(w, c, d) ==
  /\ d \in DocsLike(c, "AGREEMENT_FINAL")
  /\ Begin(w, "other", c, d, "none", <<onFinalAgreementShared>>)

-----------------------------------------------------------------------------
(* The company itself.                                                     *)

\* PATCH /client-profiles/:id/status: any admin, along the table.
updateStageByAdmin(w, c, to) ==
  /\ NotActive(c)
  /\ CanTransition(stage[c], to)
  /\ Begin(w, "other", c, "none", "none", <<Write(to)>>)

\* PATCH /client-profiles/:id, by an admin or the aggregator who brought the company:
\* a stage, a channel, or both with one update.  The transition is validated on the row
\* read first, the lock on one read later, and a change of the channel on neither.
update(w, c, to, ch) ==
  /\ stage[c] # Gone
  /\ to # "same" => CanTransition(stage[c], to)
  /\ to # "same" \/ ch # channel[c]
  /\ Begin(w, "other", c, "none", "none",
           (IF to = "same" THEN <<>> ELSE <<Check(Stage \ {"ACTIVE"})>>) \o <<Save(to, ch)>>)

saveProfile(w) ==
  LET c  == job[w].co
      to == Now(w).to
      midActivation == \E v \in Worker : job[v].op = "activate" /\ job[v].co = c
  IN /\ At(w, "save")
     /\ IF stage[c] = Gone
          THEN UNCHANGED <<stage, channel, history>>
          ELSE /\ stage' = IF to = "same" THEN stage ELSE [stage EXCEPT ![c] = to]
               /\ channel' = [channel EXCEPT ![c] = Now(w).ch]
               /\ history' = [history EXCEPT ![c] = @ \cup
                    (IF to = "same" THEN {} ELSE Moved(w, to)) \cup
                    (IF Now(w).ch # channel[c] /\ midActivation
                       THEN {"redirected"} ELSE {})]
     /\ Continue(w, Rest(w))
     /\ UNCHANGED <<createdBy, paid, login, row, object>>

\* PATCH /companies/:id/status, which has no lock of its own.
updateStatus(w, c, to) ==
  /\ stage[c] # Gone
  /\ CanTransition(stage[c], to)
  /\ Begin(w, "other", c, "none", "none", <<Write(to)>>)

confirmPayment(w, c) ==
  /\ stage[c] = "PAYMENT_CONFIRMED"
  /\ Begin(w, "other", c, "none", "none", <<Must("KYC_IN_PROGRESS")>>)

\* What canActivateCompany asks for apart from the stage, in one query.
BackedWithoutFinal(c) == channel[c] = "AGGREGATOR" \/ paid[c] \* a slip
Backed(c) == /\ channel[c] = "AGGREGATOR" \/ paid[c]
             /\ LatestKyc(c) # {} => \E d \in LatestKyc(c) : row[d].status \in Approved
             /\ DocsLike(c, "AGREEMENT_FINAL") # {}

canActivateCompany(w) ==
  /\ At(w, "backed?")
  /\ Continue(w, IF /\ stage[job[w].co] = "FINAL_AGREEMENT_SHARED"
                    /\ Backed(job[w].co)
                   THEN Rest(w) ELSE <<>>)
  /\ UNCHANGED <<stage, channel, createdBy, paid, login, row, object, history>>

\* canActivateCompany, and then activateCompany of the onboarding service: the stage and,
\* in a query of its own, the channel once more; but not what was found before.
ActivationSteps ==
  <<Do("backed?"), Check({"FINAL_AGREEMENT_SHARED"}), Do("dated?"), Write("ACTIVE")>>

\* A company that an aggregator brings needs the dates of its contract.
checkDates(w) ==
  /\ At(w, "dated?")
  /\ Continue(w, IF channel[job[w].co] = "AGGREGATOR" /\ job[w].st # "dated"
                   THEN <<>> ELSE Rest(w))
  /\ UNCHANGED <<stage, channel, createdBy, paid, login, row, object, history>>

\* That of the client profiles, the only one that calls it.
activateCompany(w, c, dates) ==
  /\ stage[c] = "FINAL_AGREEMENT_SHARED"
  /\ channel[c] = "AGGREGATOR" => dates = "dated"
  /\ Begin(w, "activate", c, "none", dates, ActivationSteps)

\* Nothing of a removal is in a transaction.  The users to delete at the end are
\* the ones linked at its start.
FilesFirst == <<Do("files"), Do("unlink"), Do("drop"), Do("users")>> \* a slip
UsersKept == <<Do("unlink"), Do("files"), Do("drop")>> \* a slip
RemovalSteps == <<Do("unlink"), Do("files"), Do("drop"), Do("users")>>

remove(w, c) ==
  /\ stage[c] # Gone
  /\ Begin(w, "remove", c, "none", login[c], RemovalSteps)

Removing(c) == {w \in Worker : job[w].op = "remove" /\ job[w].co = c}

disconnectUsers(w) ==
  LET c == job[w].co
  IN /\ At(w, "unlink")
     /\ login' = [login EXCEPT ![c] = IF @ = "linked" THEN "detached" ELSE @]
     /\ history' = [history EXCEPT ![c] =
                      IF Removing(c) # {w} THEN @ \cup {"removed twice"} ELSE @]
     /\ Continue(w, Rest(w))
     /\ UNCHANGED <<stage, channel, createdBy, paid, row, object>>

\* Best effort: a file the bucket would not delete stays.
deleteFiles(w) ==
  /\ At(w, "files")
  /\ \E stay \in {{}, DocsOf(job[w].co)} : object' = object \ (DocsOf(job[w].co) \ stay)
  /\ Continue(w, Rest(w))
  /\ UNCHANGED <<stage, channel, createdBy, paid, login, row, history>>

\* clientProfile.delete cascades to the documents and the payments.
deleteClientProfile(w) ==
  LET c == job[w].co
  IN /\ At(w, "drop")
     /\ IF stage[c] = Gone
          THEN Continue(w, <<>>) /\ UNCHANGED <<stage, paid, row>>
          ELSE /\ stage' = [stage EXCEPT ![c] = Gone]
               /\ paid' = [paid EXCEPT ![c] = FALSE]
               /\ row' = [d \in Present \ DocsOf(c) |-> row[d]]
               /\ Continue(w, Rest(w))
     /\ UNCHANGED <<channel, createdBy, login, object, history>>

deleteUsers(w) ==
  LET c == job[w].co
  IN /\ At(w, "users")
     /\ login' = [login EXCEPT ![c] = IF job[w].st = "linked" THEN "deleted" ELSE @]
     /\ Continue(w, Rest(w))
     /\ UNCHANGED <<stage, channel, createdBy, paid, row, object, history>>

\* The process dies: what its requests had left to do is never done.  Once is
\* the bound.
Crash ==
  /\ MayCrash
  /\ \A c \in Company : "crashed" \notin history[c]
  /\ \E w \in Worker : job[w] # Idle
  /\ job' = [w \in Worker |-> Idle]
  /\ history' = [c \in Company |-> history[c] \cup {"crashed"}]
  /\ UNCHANGED <<stage, channel, createdBy, paid, login, row, object>>

-----------------------------------------------------------------------------
(* A new company waits for its payment, or skips it when it comes by an    *)
(* aggregator, who registers it or has an admin do so.  An old one may     *)
(* have KYC documents of a type that no upload makes any more.             *)
KycDocs == {d \in Doc : TypeOf[d] = "KYC"}

Init ==
  /\ channel \in [Company -> Channel]
  /\ createdBy \in [Company -> {"ADMIN"} \cup Registrar]
  /\ \A c \in Company : createdBy[c] \in IF channel[c] = "DIRECT" THEN {"ADMIN"} ELSE Registrar
  /\ \E old \in SUBSET Company :
       /\ \A c \in old : channel[c] = "DIRECT"
       /\ stage = [c \in Company |-> IF c \in old THEN "KYC_REVIEW"
                                     ELSE IF channel[c] = "DIRECT" THEN "PAYMENT_PENDING"
                                     ELSE "KYC_IN_PROGRESS"]
       /\ paid = [c \in Company |-> c \in old]
       /\ \E of \in [KycDocs -> old \cup {"none"}] :
            row = [d \in {e \in KycDocs : of[e] # "none"} |->
                     [co |-> of[d], version |-> 1, status |-> "REVIEW_PENDING",
                      known |-> {}, by |-> "server"]]
  /\ login = [c \in Company |-> "linked"]
  /\ object = DOMAIN row
  /\ job = [w \in Worker |-> Idle]
  /\ history = [c \in Company |-> {}]

Upload(w, c, d) ==
  \/ generateUploadUrl(w, c, d)
  \/ uploadDocumentProxy(w, c, d)
  \/ uploadAggregatorKycProxy(w, c, d)
  \/ uploadAggregatorSignedAgreementProxy(w, c, d)
  \/ generateAdminAgreementDraftUploadUrl(w, c, d)
  \/ uploadAdminAgreementDraftProxy(w, c, d)
  \/ generateAgreementDraftFromTemplate(w, c, d)
  \/ generateAdminAgreementFinalUploadUrl(w, c, d)
  \/ uploadAdminAgreementFinalProxy(w, c, d)

Share(w, c, d) ==
  \/ confirmSignedAgreement(w, c, d)
  \/ notifyAgreementDraftShared(w, c, d)
  \/ notifyAgreementFinalShared(w, c, d)

Review(w, d) ==
  \/ \E v \in Verdict : reviewDocument(w, d, v)
  \/ approveKycDocument(w, d)
  \/ rejectKycDocument(w, d)
  \/ pendingWithClientKycDocument(w, d)
  \/ pendingWithAdminKycDocument(w, d)

Manage(w, c) ==
  \/ submitKycForReview(w, c)
  \/ \E to \in Patch : updateStageByAdmin(w, c, to) \/ updateStatus(w, c, to)
  \/ \E to \in Patch \cup {"same"}, ch \in Redirect \cup {channel[c]} : update(w, c, to, ch)
  \/ confirmPayment(w, c)
  \/ \E dates \in {"dated", "none"} : activateCompany(w, c, dates)
  \/ remove(w, c)

Step(w) ==
  \/ ReadVersion(w)
  \/ PutObject(w)
  \/ InsertRow(w)
  \/ assertStage(w)
  \/ updateStageIfAllowed(w)
  \/ updateStage(w)
  \/ writeStage(w)
  \/ UpdateStatus(w)
  \/ isDirect(w)
  \/ areAllKycDocumentsApproved(w)
  \/ saveProfile(w)
  \/ canActivateCompany(w)
  \/ checkDates(w)
  \/ disconnectUsers(w)
  \/ deleteFiles(w)
  \/ deleteClientProfile(w)
  \/ deleteUsers(w)

Next ==
  \/ \E w \in Worker :
       \/ Step(w)
       \/ \E c \in Company : Manage(w, c) \/ \E d \in Doc : Upload(w, c, d) \/ Share(w, c, d)
       \/ \E d \in Doc : Review(w, d)
  \/ \E c \in Company : onPaymentConfirmed(c)
  \/ Crash

Spec == Init /\ [][Next]_vars

-----------------------------------------------------------------------------
(* Types.                                                                  *)

Row == [co : Company, version : Nat \ {0}, status : DocumentStatus,
        known : SUBSET Doc, by : {"server", "presigned"}]
Note == {"activated", "reopened", "sent back", "redirected", "removed twice", "crashed"}

\* Every variable has its type.
TypeOK ==
  /\ stage \in [Company -> Stage \cup {Gone}]
  /\ channel \in [Company -> Channel] /\ createdBy \in [Company -> {"ADMIN", "AGGREGATOR"}]
  /\ paid \in [Company -> BOOLEAN]
  /\ login \in [Company -> {"linked", "detached", "deleted"}]
  /\ Present \subseteq Doc
  /\ \A d \in Present : row[d] \in Row
  /\ object \subseteq Doc
  /\ history \in [Company -> SUBSET Note]
  /\ \A w \in Worker : \/ job[w] = Idle
                       \/ /\ job[w].co \in Company
                          /\ job[w].todo # <<>>
                          /\ job[w].known \subseteq Doc

-----------------------------------------------------------------------------
(* Properties.                                                             *)

\* A document that came through the server has its file in the bucket, however
\* its upload and the removal of its company interleave and wherever the
\* process dies: uploads store the file first, a removal unlinks the client
\* before it deletes files.  (A document made for a presigned URL may have none.)
FileBehindRow ==
  \A d \in Present : /\ row[d].by = "server"
                     /\ login[row[d].co] = "linked"
                     => d \in object

\* Of two versions of an agreement the later upload has the higher number,
\* unless the two uploads overlapped: version + 1 is above every document of
\* the kind that was there when the upload looked.
VersionsGrow ==
  \A d, e \in Present : e \in row[d].known => row[e].version < row[d].version

\* A request that comes in when the company is ACTIVE changes neither its stage
\* nor its KYC documents, drafts and signed agreements (assertNotActive):
\* only work that had passed its checks before the activation still does.
LockedTypes == KycTypes \cup {"KYC", "AGREEMENT_DRAFT", "AGREEMENT_SIGNED"}
LockedRows(c) == {<<d, row[d]>> : d \in {e \in DocsOf(c) : TypeOf[e] \in LockedTypes}}
LockedUnlessRaced ==
  [][\A w \in Worker, c \in Company :
       /\ job[w].co = c /\ job[w].late /\ job'[w] # job[w]
       /\ "reopened" \notin history[c] /\ stage[c] # Gone /\ stage'[c] # Gone
       => stage'[c] = stage[c] /\ LockedRows(c)' = LockedRows(c)]_vars

\* KYC documents that have been uploaded are in review: a company waits in
\* KYC_IN_PROGRESS (or before it) with a document only while an upload is still
\* under way, or because somebody else moved it there or the process died.
UploadedKycIsInReview ==
  \A c \in Company :
    /\ \E d \in DocsOf(c) : TypeOf[d] \in KycTypes
    /\ stage[c] \in {"PAYMENT_CONFIRMED", "KYC_IN_PROGRESS"}
    => \/ history[c] \cap {"sent back", "crashed"} # {}
       \/ \E w \in Worker : job[w].co = c /\ job[w].op = "kyc"

\* A removal that was not cut short leaves no account behind: the client's
\* login goes with the company (two removals at once may lose it).
NoStrayLogin ==
  \A c \in Company :
    stage[c] = Gone /\ Removing(c) = {} /\ history[c] \cap {"crashed", "removed twice"} = {}
    => login[c] = "deleted"

\* What a reader of the code is promised: whatever interleaves, the service
\* activates a company only with its payment (aggregators pay on their own)
\* and its final agreement in place.  A change of the channel while the activation
\* is under way is the exception: the payment was asked for, or not, by the old one.
Evidence == {"payment", "AGREEMENT_FINAL"}
Required(c) ==
  {"AGREEMENT_FINAL"} \cup
    (IF channel[c] = "AGGREGATOR" \/ "redirected" \in history[c] THEN {} ELSE {"payment"})
Had(c) ==
  Evidence \cap ({TypeOf[d] : d \in DocsOf(c)} \cup (IF paid[c] THEN {"payment"} ELSE {}))
Activated(c) == "activated" \in history[c] /\ stage[c] # Gone

Gate == INSTANCE ActivationGate WITH
  required <- [c \in Company |-> Required(c)],
  evidence <- [c \in Company |-> Had(c)],
  active   <- [c \in Company |-> Activated(c)]
GateSpec == Gate!Spec

\* ONBOARDING_TIMELINE.md, section 8: activation asks for all KYC documents to
\* be approved.
ActivatedKycApproved ==
  \A c \in Company : "activated" \in history[c] =>
    \A d \in DocsOf(c) : TypeOf[d] \in KycTypes => row[d].status \in Approved

=============================================================================
