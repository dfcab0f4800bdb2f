--------------------------- MODULE DocumentsProofs ---------------------------
(***************************************************************************)
(* Theorems about Documents, for any number of companies, documents and    *)
(* workers, whatever admins try, with or without restarts.                 *)
(***************************************************************************)
EXTENDS Documents, SequenceTheorems, TLAPS

\* What a job may be about, and the steps it may have left.
DocOrNone == Doc \cup {"none"}

AStep ==
  [do : {"row"}, by : {"server", "presigned"}] \cup
  [do : {"version"}, among : SUBSET DocOrNone] \cup
  [do : {"put", "status", "direct?", "approved?", "backed?", "dated?",
         "unlink", "files", "drop", "users"}] \cup
  [do : {"check"}, in : SUBSET Stage] \cup
  [do : {"write", "must"}, to : Stage] \cup
  [do : {"move"}, to : Stage, from : SUBSET Stage] \cup
  [do : {"save"}, to : Stage \cup {"same"}, ch : Channel]

\* What an activation has left, before canActivateCompany and after it.
Answered ==
  {<<Check({"FINAL_AGREEMENT_SHARED"}), Do("dated?"), Write("ACTIVE")>>,
   <<Do("dated?"), Write("ACTIVE")>>, <<Write("ACTIVE")>>}

Shape(j) == j = [op |-> j.op, co |-> j.co, d |-> j.d, todo |-> j.todo,
                 ver |-> j.ver, known |-> j.known, st |-> j.st, late |-> j.late]

JobOK(j) ==
  /\ Shape(j)
  /\ j.d \in DocOrNone /\ j.todo \in Seq(AStep)
  /\ j.todo # <<>> => j.co \in Company
  /\ j.op = "activate" => j.todo \in {ActivationSteps} \cup Answered

RowOK(r) ==
  /\ r = [co |-> r.co, version |-> r.version, status |-> r.status,
          known |-> r.known, by |-> r.by]
  /\ r.co \in Company

JobsOK == job = [w \in Worker |-> job[w]] /\ \A w \in Worker : JobOK(job[w])

Typed ==
  /\ stage \in [Company -> Stage \cup {Gone}]
  /\ channel \in [Company -> Channel]
  /\ paid \in [Company -> BOOLEAN]
  /\ history \in [Company -> SUBSET Note]
  /\ Present \subseteq DocOrNone /\ row = [d \in Present |-> row[d]]
  /\ \A d \in Present : RowOK(row[d])
  /\ JobsOK

\* Past canActivateCompany an activation has its evidence, or has lost the company.
Safe(c) == stage[c] = Gone \/ Required(c) \subseteq Had(c)
Passed(w) == job[w].op = "activate" /\ job[w].todo \in Answered
Backing == \A w \in Worker : Passed(w) => Safe(job[w].co)

IInv == Typed /\ Backing

-----------------------------------------------------------------------------
(* Steps and lists of them.                                                *)

LEMMA StagesNamed ==
  /\ Gone \notin Stage /\ "same" \notin Stage
  /\ {"ACTIVE", "FINAL_AGREEMENT_SHARED", "KYC_IN_PROGRESS", "KYC_REVIEW", "PAYMENT_CONFIRMED",
      "AGREEMENT_DRAFT_SHARED", "SIGNED_AGREEMENT_RECEIVED"} \subseteq Stage
BY DEF Gone, Stage

LEMMA StepsTyped ==
  /\ \A by \in {"server", "presigned"} : Insert(by) \in AStep
  /\ \A S \in SUBSET DocOrNone : Version(S) \in AStep
  /\ \A op \in {"put", "status", "direct?", "approved?", "backed?", "dated?",
                "unlink", "files", "drop", "users"} : Do(op) \in AStep
  /\ \A S \in SUBSET Stage : Check(S) \in AStep
  /\ \A to \in Stage : Write(to) \in AStep /\ Must(to) \in AStep
  /\ \A to \in Stage, S \in SUBSET Stage : Move(to, S) \in AStep
  /\ \A to \in Stage \cup {"same"}, ch \in Channel : Save(to, ch) \in AStep
<1>1. /\ \A by \in {"server", "presigned"} : Insert(by) \in AStep
      /\ \A S \in SUBSET DocOrNone : Version(S) \in AStep
  BY DEF AStep, Insert, Version
<1>2. \A op \in {"put", "status", "direct?", "approved?", "backed?", "dated?",
                  "unlink", "files", "drop", "users"} : Do(op) \in AStep
  BY DEF AStep, Do
<1>3. \A S \in SUBSET Stage : Check(S) \in AStep
  BY DEF AStep, Check
<1>4. \A to \in Stage : Write(to) \in AStep /\ Must(to) \in AStep
  BY DEF AStep, Write, Must
<1>5. \A to \in Stage, S \in SUBSET Stage : Move(to, S) \in AStep
  BY DEF AStep, Move
<1>6. \A to \in Stage \cup {"same"}, ch \in Channel : Save(to, ch) \in AStep
  BY DEF AStep, Save
<1> QED BY <1>1, <1>2, <1>3, <1>4, <1>5, <1>6

LEMMA MovesTyped ==
  /\ onKycUploaded \in AStep /\ moveToKycReviewAfterUpload \in AStep
  /\ onKycApproved \in AStep /\ onAgreementDraftShared \in AStep
  /\ onSignedAgreementReceived \in AStep /\ onFinalAgreementShared \in AStep
BY StepsTyped, StagesNamed
   DEF onKycUploaded, moveToKycReviewAfterUpload, onKycApproved, onAgreementDraftShared,
       onSignedAgreementReceived, onFinalAgreementShared

LEMMA ListsTyped ==
  /\ <<>> \in Seq(AStep)
  /\ \A a \in AStep : <<a>> \in Seq(AStep)
  /\ \A a, b \in AStep : <<a, b>> \in Seq(AStep)
  /\ \A a, b, c \in AStep : <<a, b, c>> \in Seq(AStep)
  /\ \A a, b, c, d \in AStep : <<a, b, c, d>> \in Seq(AStep)
  /\ \A s, t \in Seq(AStep) : s \o t \in Seq(AStep)
OBVIOUS

\* The step at the head of a list, and those after it.
LEMMA Heads ==
  ASSUME NEW w \in Worker, Typed, job[w].todo # <<>>
  PROVE  /\ Now(w) \in AStep /\ Rest(w) \in Seq(AStep) /\ job[w].co \in Company
         /\ Now(w).do \in {"write", "must", "move"} => Now(w).to \in Stage
         /\ Now(w).do = "save" => Now(w).to \in Stage \cup {"same"} /\ Now(w).ch \in Channel
<1>1. job[w].todo \in Seq(AStep) /\ job[w].co \in Company
  BY DEF Typed, JobsOK, JobOK
<1>2. Now(w) \in AStep /\ Rest(w) \in Seq(AStep)
  BY <1>1, HeadTailProperties DEF Now, Rest
<1> QED BY <1>1, <1>2 DEF AStep

LEMMA ActivationLists ==
  /\ \A s \in {ActivationSteps} \cup Answered : s # <<>>
  /\ Tail(ActivationSteps) \in Answered
  /\ \A s \in Answered : Tail(s) \in Answered \cup {<<>>}
  /\ ActivationSteps \notin Answered
  /\ ActivationSteps \in Seq(AStep)
  /\ \A s \in Answered : Head(s).do \in {"check", "dated?", "write"}
  /\ \A s \in Answered : Head(s).do = "write" => Head(s).to = "ACTIVE"
  /\ Head(ActivationSteps).do = "backed?"
<1> USE DEF ActivationSteps, Answered
<1>1. \A s \in {ActivationSteps} \cup Answered : s # <<>>
  OBVIOUS
<1>2. Tail(ActivationSteps) \in Answered /\ \A s \in Answered : Tail(s) \in Answered \cup {<<>>}
  OBVIOUS
<1>3. ActivationSteps \notin Answered
  OBVIOUS
<1>4. ActivationSteps \in Seq(AStep)
  BY StepsTyped, StagesNamed, ListsTyped
<1>6. /\ \A s \in Answered : Head(s).do \in {"check", "dated?", "write"}
      /\ \A s \in Answered : Head(s).do = "write" => Head(s).to = "ACTIVE"
      /\ Head(ActivationSteps).do = "backed?"
  BY DEF Do, Check, Write
<1> QED BY <1>1, <1>2, <1>3, <1>4, <1>6

-----------------------------------------------------------------------------
(* Requests and their jobs.                                                *)

LEMMA IdleOK == JobOK(Idle)
BY ListsTyped DEF JobOK, Shape, Idle, DocOrNone

\* A request that begins.
LEMMA Begins ==
  ASSUME NEW w \in Worker, NEW op, NEW c \in Company, NEW d \in DocOrNone, NEW st,
         NEW steps \in Seq(AStep), op = "activate" => steps = ActivationSteps,
         JobsOK, Begin(w, op, c, d, st, steps)
  PROVE  /\ JobsOK' /\ ~Passed(w)'
         /\ \A v \in Worker \ {w} : job'[v] = job[v]
         /\ UNCHANGED <<stage, channel, paid, row, history>>
<1> DEFINE new == [op |-> op, co |-> c, d |-> d, todo |-> steps, ver |-> 1, known |-> {},
                   st |-> st, late |-> stage[c] = "ACTIVE"]
<1>1. job' = [job EXCEPT ![w] = new] /\ UNCHANGED <<stage, channel, paid, row, history>>
  BY DEF Begin
<1>2. JobOK(new)
  BY ActivationLists DEF JobOK, Shape
<1>3. /\ job' = [v \in Worker |-> job'[v]] /\ job'[w] = new
      /\ \A v \in Worker \ {w} : job'[v] = job[v]
  BY <1>1 DEF JobsOK
<1>4. ~Passed(w)'
  BY <1>3, ActivationLists DEF Passed
<1> HIDE DEF new
<1> QED BY <1>1, <1>2, <1>3, <1>4 DEF JobsOK

\* A request that goes on.
LEMMA Continues ==
  ASSUME NEW w \in Worker, NEW steps \in Seq(AStep), JobsOK, job[w].todo # <<>>,
         job[w].op = "activate" => steps \in Answered \cup {<<>>},
         Continue(w, steps)
  PROVE  /\ JobsOK'
         /\ \A v \in Worker \ {w} : job'[v] = job[v]
         /\ Passed(w)' => job[w].op = "activate" /\ job'[w].co = job[w].co
<1> DEFINE new == IF steps = <<>> THEN Idle ELSE [job[w] EXCEPT !.todo = steps]
<1>1. /\ job' = [v \in Worker |-> job'[v]] /\ job'[w] = new
      /\ \A v \in Worker \ {w} : job'[v] = job[v]
  BY DEF JobsOK, Continue
<1>2. ASSUME steps # <<>>
      PROVE  new = [op |-> job[w].op, co |-> job[w].co, d |-> job[w].d, todo |-> steps,
                    ver |-> job[w].ver, known |-> job[w].known, st |-> job[w].st,
                    late |-> job[w].late]
  BY <1>2 DEF JobsOK, JobOK, Shape
<1>3. JobOK(new)
  <2>1. CASE steps = <<>>
    BY <2>1, IdleOK
  <2>2. CASE steps # <<>>
    <3> HIDE DEF new
    <3> QED BY <1>2, <2>2 DEF JobsOK, JobOK, Shape
  <2> QED BY <2>1, <2>2
<1>4. new.op = "activate" => job[w].op = "activate" /\ new.co = job[w].co
  <2>1. CASE steps = <<>>
    BY <2>1 DEF Idle
  <2>2. CASE steps # <<>>
    <3> HIDE DEF new
    <3> QED BY <1>2, <2>2
  <2> QED BY <2>1, <2>2
<1> HIDE DEF new
<1> QED BY <1>1, <1>3, <1>4 DEF JobsOK, Passed

\* Every endpoint begins a request with steps of the kinds above, and activation alone
\* begins one that activates.
Started(w) ==
  /\ JobsOK' /\ ~Passed(w)'
  /\ \A v \in Worker \ {w} : job'[v] = job[v]
  /\ UNCHANGED <<stage, channel, paid, row, history>>

LEMMA OthersStart ==
  ASSUME NEW w \in Worker, NEW op \in {"kyc", "other", "review", "approve", "remove"},
         NEW c \in Company, NEW d \in DocOrNone, NEW st, NEW steps \in Seq(AStep),
         JobsOK, Begin(w, op, c, d, st, steps)
  PROVE  Started(w)
BY Begins DEF Started

LEMMA UploadStarts ==
  ASSUME NEW w \in Worker, NEW c \in Company, NEW d \in Doc, Typed, Upload(w, c, d)
  PROVE  Started(w)
<1>1. /\ KycMoves \in Seq(AStep) /\ confirmSteps \in Seq(AStep)
      /\ draftSharedSteps \in Seq(AStep) /\ Version(Doc) \in AStep
  BY ListsTyped, MovesTyped, StepsTyped, StagesNamed
     DEF KycMoves, confirmSteps, draftSharedSteps, DocOrNone
<1>2. ASSUME NEW op \in {"kyc", "other"}, NEW st, NEW steps \in Seq(AStep),
             Begin(w, op, c, d, st, steps)
      PROVE  Started(w)
  BY <1>2, OthersStart DEF Typed, DocOrNone
<1>3. CASE generateUploadUrl(w, c, d)
  <2>1. PICK S \in {{}} \cup {{e} : e \in DocsLike(c, TypeOf[d])} :
          Begin(w, ClientOp(d), c, d, "REVIEW_PENDING",
             (IF S = {} THEN <<>> ELSE <<Version(S)>>) \o <<Insert("presigned")>> \o
               (IF TypeOf[d] = "AGREEMENT_SIGNED" THEN <<>> ELSE KycMoves))
    BY <1>3 DEF generateUploadUrl
  <2> DEFINE first == IF S = {} THEN <<>> ELSE <<Version(S)>>
             last  == IF TypeOf[d] = "AGREEMENT_SIGNED" THEN <<>> ELSE KycMoves
  <2>2. S \subseteq DocOrNone
    BY DEF DocsLike, DocsOf, Typed
  <2>3. first \in Seq(AStep)
    BY <2>2, ListsTyped, StepsTyped
  <2>4. last \in Seq(AStep)
    BY <1>1, ListsTyped
  <2> HIDE DEF first, last
  <2>5. first \o <<Insert("presigned")>> \in Seq(AStep)
    BY <2>3, ListsTyped, StepsTyped
  <2>6. (first \o <<Insert("presigned")>>) \o last \in Seq(AStep)
    BY <2>4, <2>5, ListsTyped
  <2> QED BY <1>2, <2>1, <2>6 DEF ClientOp, first, last
<1>4. CASE uploadDocumentProxy(w, c, d)
  <2>1. <<Do("put"), Insert("server")>> \o
             (IF TypeOf[d] = "AGREEMENT_SIGNED" THEN confirmSteps ELSE KycMoves) \in Seq(AStep)
    BY <1>1, ListsTyped, StepsTyped
  <2> QED BY <1>2, <1>4, <2>1 DEF uploadDocumentProxy, ClientOp
<1>5. CASE uploadAggregatorKycProxy(w, c, d)
  <2>1. <<Do("put"), Insert("server")>> \o KycMoves \in Seq(AStep)
    BY <1>1, ListsTyped, StepsTyped
  <2> QED BY <1>2, <1>5, <2>1 DEF uploadAggregatorKycProxy
<1>6. CASE uploadAggregatorSignedAgreementProxy(w, c, d)
  BY <1>1, <1>2, <1>6, ListsTyped, StepsTyped, MovesTyped DEF uploadAggregatorSignedAgreementProxy
<1>7. CASE generateAdminAgreementDraftUploadUrl(w, c, d)
  BY <1>1, <1>2, <1>7, ListsTyped, StepsTyped DEF generateAdminAgreementDraftUploadUrl
<1>8. CASE uploadAdminAgreementDraftProxy(w, c, d)
  <2>1. <<Version(Doc), Do("put"), Insert("server")>> \o draftSharedSteps \in Seq(AStep)
    BY <1>1, ListsTyped, StepsTyped
  <2> QED BY <1>2, <1>8, <2>1 DEF uploadAdminAgreementDraftProxy
<1>9. CASE generateAgreementDraftFromTemplate(w, c, d)
  BY <1>1, <1>2, <1>9, ListsTyped, StepsTyped DEF generateAgreementDraftFromTemplate
<1>10. CASE generateAdminAgreementFinalUploadUrl(w, c, d)
  BY <1>1, <1>2, <1>10, ListsTyped, StepsTyped DEF generateAdminAgreementFinalUploadUrl
<1>11. CASE uploadAdminAgreementFinalProxy(w, c, d)
  <2>1. <<Version(Doc), Do("put"), Insert("server")>> \o
          (IF TypeOf[d] = "AGREEMENT_FINAL" THEN <<onFinalAgreementShared>> ELSE <<>>)
            \in Seq(AStep)
    BY <1>1, ListsTyped, StepsTyped, MovesTyped
  <2> QED BY <1>2, <1>11, <2>1 DEF uploadAdminAgreementFinalProxy
<1> QED BY <1>3, <1>4, <1>5, <1>6, <1>7, <1>8, <1>9, <1>10, <1>11 DEF Upload

LEMMA ShareStarts ==
  ASSUME NEW w \in Worker, NEW c \in Company, NEW d \in Doc, Typed, Share(w, c, d)
  PROVE  Started(w)
BY OthersStart, ListsTyped, MovesTyped
   DEF Typed, DocOrNone, Share, confirmSignedAgreement, notifyAgreementDraftShared, notifyAgreementFinalShared

LEMMA ReviewStarts ==
  ASSUME NEW w \in Worker, NEW d \in Doc, Typed, Review(w, d)
  PROVE  Started(w)
<1>1. d \in Present /\ row[d].co \in Company /\ d \in DocOrNone /\ JobsOK
  BY DEF Review, reviewDocument, approveKycDocument, rejectKycDocument, KycForReview,
         pendingWithClientKycDocument, pendingWithAdminKycDocument, Typed, RowOK
<1>2. ASSUME NEW v \in Verdict, reviewDocument(w, d, v)
      PROVE  Started(w)
  BY <1>1, <1>2, OthersStart, ListsTyped, StepsTyped DEF reviewDocument
<1>3. CASE approveKycDocument(w, d)
  BY <1>1, <1>3, OthersStart, ListsTyped, StepsTyped DEF approveKycDocument
<1>4. CASE rejectKycDocument(w, d)
  BY <1>1, <1>4, OthersStart, ListsTyped, StepsTyped, StagesNamed DEF rejectKycDocument
<1>5. CASE pendingWithClientKycDocument(w, d)
  BY <1>1, <1>5, OthersStart, ListsTyped, StepsTyped, StagesNamed
     DEF pendingWithClientKycDocument
<1>6. CASE pendingWithAdminKycDocument(w, d)
  BY <1>1, <1>6, OthersStart, ListsTyped, StepsTyped, StagesNamed
     DEF pendingWithAdminKycDocument
<1> QED BY <1>2, <1>3, <1>4, <1>5, <1>6 DEF Review

LEMMA ManageStarts ==
  ASSUME NEW w \in Worker, NEW c \in Company, Typed, Manage(w, c)
  PROVE  Started(w)
<1>1. JobsOK /\ channel[c] \in Channel /\ "none" \in DocOrNone
  BY DEF Typed, DocOrNone
<1>2. CASE submitKycForReview(w, c)
  BY <1>1, <1>2, OthersStart, ListsTyped, MovesTyped DEF submitKycForReview
<1>3. ASSUME NEW to \in Patch, updateStageByAdmin(w, c, to) \/ updateStatus(w, c, to)
      PROVE  Started(w)
  <2>1. to \in Stage
    BY DocumentsAssumption
  <2> QED BY <1>1, <1>3, <2>1, OthersStart, ListsTyped, StepsTyped
          DEF updateStageByAdmin, updateStatus
<1>4. ASSUME NEW to \in Patch \cup {"same"}, NEW ch \in Redirect \cup {channel[c]},
             update(w, c, to, ch)
      PROVE  Started(w)
  <2>1. to \in Stage \cup {"same"} /\ ch \in Channel
    BY <1>1, DocumentsAssumption
  <2>2. (IF to = "same" THEN <<>> ELSE <<Check(Stage \ {"ACTIVE"})>>) \o <<Save(to, ch)>>
          \in Seq(AStep)
    BY <2>1, ListsTyped, StepsTyped
  <2> QED BY <1>1, <1>4, <2>2, OthersStart DEF update
<1>5. CASE confirmPayment(w, c)
  BY <1>1, <1>5, OthersStart, ListsTyped, StepsTyped, StagesNamed DEF confirmPayment
<1>6. ASSUME NEW dates \in {"dated", "none"}, activateCompany(w, c, dates)
      PROVE  Started(w)
  BY <1>1, <1>6, Begins, ActivationLists DEF activateCompany, Started
<1>7. CASE remove(w, c)
  <2>1. RemovalSteps \in Seq(AStep)
    BY ListsTyped, StepsTyped DEF RemovalSteps
  <2> QED BY <1>1, <1>7, <2>1, OthersStart DEF remove
<1> QED BY <1>2, <1>3, <1>4, <1>5, <1>6, <1>7 DEF Manage

-----------------------------------------------------------------------------
(* Steps of a request.  Each leaves the jobs in order, and only            *)
(* canActivateCompany lets an activation pass.                             *)
Stepped(w) ==
  /\ JobsOK'
  /\ \A v \in Worker \ {w} : job'[v] = job[v]
  /\ Passed(w)' => job[w].op = "activate" /\ job'[w].co = job[w].co

\* A step that none of an activation's is goes on with any steps at all.
LEMMA Ordinary ==
  ASSUME NEW w \in Worker, NEW steps \in Seq(AStep), Typed, job[w].todo # <<>>,
         Now(w).do \notin {"check", "dated?", "write", "backed?"}, Continue(w, steps)
  PROVE  Stepped(w) /\ ~Passed(w) /\ ~Passed(w)'
<1>1. job[w].op # "activate"
  BY ActivationLists DEF Now, Typed, JobsOK, JobOK
<1> QED BY <1>1, Continues DEF Stepped, Typed, Passed

\* One that is has done with its first step, or with all.
LEMMA Common ==
  ASSUME NEW w \in Worker, Typed, job[w].todo # <<>>,
         Continue(w, Rest(w)) \/ Continue(w, <<>>)
  PROVE  Stepped(w) /\ (Passed(w)' => Passed(w) \/ Now(w).do = "backed?")
<1>1. Rest(w) \in Seq(AStep) /\ <<>> \in Seq(AStep)
  BY Heads, ListsTyped
<1>2. job[w].op = "activate" => Rest(w) \in Answered \cup {<<>>}
  BY ActivationLists DEF Rest, Typed, JobsOK, JobOK
<1>3. Stepped(w)
  BY <1>1, <1>2, Continues DEF Stepped, Typed
<1>4. Passed(w)' => Passed(w) \/ Now(w).do = "backed?"
  BY <1>3, ActivationLists DEF Stepped, Passed, Now, Typed, JobsOK, JobOK
<1> QED BY <1>3, <1>4

\* Steps that change nothing but the job, and the bucket or the accounts.
Still == UNCHANGED <<stage, channel, paid, row, history>>

LEMMA QuietSteps ==
  ASSUME NEW w \in Worker, Typed,
         \/ ReadVersion(w) \/ PutObject(w) \/ assertStage(w) \/ updateStageIfAllowed(w)
         \/ updateStage(w) \/ isDirect(w) \/ areAllKycDocumentsApproved(w)
         \/ checkDates(w) \/ deleteFiles(w) \/ deleteUsers(w)
  PROVE  Stepped(w) /\ Still /\ (Passed(w)' => Passed(w))
<1>1. CASE ReadVersion(w)
  <2> DEFINE S == DocsLike(job[w].co, TypeOf[job[w].d]) \cap Now(w).among
  <2>0. PICK n \in VersionAfter(S) :
          job' = [job EXCEPT ![w].todo = Rest(w), ![w].known = S, ![w].ver = n]
    BY <1>1 DEF ReadVersion
  <2> DEFINE new == [op |-> job[w].op, co |-> job[w].co, d |-> job[w].d, todo |-> Rest(w),
                     ver |-> n, known |-> S, st |-> job[w].st,
                     late |-> job[w].late]
  <2>1. /\ job' = [job EXCEPT ![w].todo = Rest(w), ![w].known = S, ![w].ver = n]
        /\ job[w].todo # <<>> /\ Now(w).do = "version" /\ Still
    BY <1>1, <2>0 DEF ReadVersion, At, Now, Still
  <2> HIDE DEF S
  <2>2. job[w].op # "activate"
    BY <2>1, ActivationLists DEF Now, Typed, JobsOK, JobOK
  <2>3. /\ job' = [v \in Worker |-> job'[v]] /\ job'[w] = new
        /\ \A v \in Worker \ {w} : job'[v] = job[v]
    <3> DEFINE j1 == [job[w] EXCEPT !.todo = Rest(w)]
               j2 == [j1 EXCEPT !.known = S]
               j3 == [j2 EXCEPT !.ver = n]
    <3>1. job' = [job EXCEPT ![w] = j3]
      BY <2>1 DEF Typed, JobsOK, JobOK
    <3>2. Shape(job[w])
      BY DEF Typed, JobsOK, JobOK, Shape
    <3>3. Shape(j1) /\ j1 = [op |-> job[w].op, co |-> job[w].co, d |-> job[w].d,
                             todo |-> Rest(w), ver |-> job[w].ver, known |-> job[w].known,
                             st |-> job[w].st, late |-> job[w].late]
      BY <3>2 DEF Shape
    <3> HIDE DEF j1
    <3>4. Shape(j2) /\ j2 = [op |-> j1.op, co |-> j1.co, d |-> j1.d, todo |-> j1.todo,
                             ver |-> j1.ver, known |-> S, st |-> j1.st, late |-> j1.late]
      BY <3>3 DEF Shape
    <3> HIDE DEF j2
    <3>5. j3 = [op |-> j2.op, co |-> j2.co, d |-> j2.d, todo |-> j2.todo,
                ver |-> n, known |-> j2.known, st |-> j2.st, late |-> j2.late]
      BY <3>4 DEF Shape
    <3> HIDE DEF j3
    <3>6. j3 = new
      BY <3>3, <3>4, <3>5
    <3> HIDE DEF new
    <3> QED BY <3>1, <3>6 DEF Typed, JobsOK
  <2>4. JobOK(new)
    BY <2>1, <2>2, Heads DEF Typed, JobsOK, JobOK, Shape
  <2>5. new.op # "activate"
    BY <2>2
  <2> HIDE DEF new
  <2> QED BY <2>1, <2>3, <2>4, <2>5 DEF Typed, JobsOK, Stepped, Passed
<1>2. CASE PutObject(w) \/ deleteFiles(w) \/ deleteUsers(w)
  BY <1>2, Common DEF PutObject, deleteFiles, deleteUsers, At, Now, Still
<1>3. CASE assertStage(w) \/ checkDates(w) \/ isDirect(w)
  BY <1>3, Common DEF assertStage, checkDates, isDirect, At, Now, Still
<1>4. CASE updateStageIfAllowed(w)
  <2>1. job[w].todo # <<>> /\ Now(w).do = "move" /\ Still
    BY <1>4 DEF updateStageIfAllowed, At, Now, Still
  <2>2. Rest(w) \in Seq(AStep) /\ <<Write(Now(w).to)>> \o Rest(w) \in Seq(AStep)
    BY <2>1, Heads, ListsTyped, StepsTyped
  <2>3. Continue(w, Rest(w)) \/ Continue(w, <<Write(Now(w).to)>> \o Rest(w))
    BY <1>4 DEF updateStageIfAllowed
  <2> QED BY <2>1, <2>2, <2>3, Ordinary
<1>5. CASE updateStage(w)
  <2>1. job[w].todo # <<>> /\ Now(w).do = "must" /\ Still
    BY <1>5 DEF updateStage, At, Now, Still
  <2>2. <<>> \in Seq(AStep) /\ <<Write(Now(w).to)>> \o Rest(w) \in Seq(AStep)
    BY <2>1, Heads, ListsTyped, StepsTyped
  <2>3. Continue(w, <<>>) \/ Continue(w, <<Write(Now(w).to)>> \o Rest(w))
    BY <1>5 DEF updateStage
  <2> QED BY <2>1, <2>2, <2>3, Ordinary
<1>6. CASE areAllKycDocumentsApproved(w)
  <2>1. job[w].todo # <<>> /\ Now(w).do = "approved?" /\ Still
    BY <1>6 DEF areAllKycDocumentsApproved, At, Now, Still
  <2>2. <<>> \in Seq(AStep) /\ <<onKycApproved>> \in Seq(AStep)
    BY ListsTyped, MovesTyped
  <2>3. Continue(w, <<>>) \/ Continue(w, <<onKycApproved>>)
    BY <1>6 DEF areAllKycDocumentsApproved
  <2> QED BY <2>1, <2>2, <2>3, Ordinary
<1> QED BY <1>1, <1>2, <1>3, <1>4, <1>5, <1>6

-----------------------------------------------------------------------------
(* What each step does to the evidence about a company, and to what is     *)
(* promised of it.                                                         *)
Same(c) == /\ Required(c)' = Required(c) /\ Had(c)' = Had(c)
           /\ Activated(c)' = Activated(c)

LEMMA BackingKept ==
  ASSUME NEW w \in Worker, IInv, Stepped(w), Passed(w)' => Passed(w),
         \A c \in Company : Safe(c) => Safe(c)'
  PROVE  Backing'
<1> SUFFICES ASSUME NEW v \in Worker, Passed(v)'
             PROVE  Safe(job[v].co)' /\ job'[v].co = job[v].co
  BY DEF Backing, Safe, Required, Had
<1>1. Passed(v) /\ job'[v].co = job[v].co
  BY DEF Stepped, Passed
<1>2. job[v].co \in Company
  BY <1>1, ActivationLists DEF Passed, IInv, Typed, JobsOK, JobOK
<1> QED BY <1>1, <1>2 DEF IInv, Backing

LEMMA StillSame ==
  ASSUME Still
  PROVE  \A c \in Company : Same(c) /\ (Safe(c) => Safe(c)')
BY DEF Still, Same, Safe, Required, Had, Activated, DocsOf, Present

LEMMA StillTyped ==
  ASSUME Typed, Still, JobsOK'
  PROVE  Typed'
BY DEF Still, Typed, Present

\* A request that begins or goes on quietly.
LEMMA QuietKept ==
  ASSUME NEW w \in Worker, IInv, Stepped(w), Still, Passed(w)' => Passed(w)
  PROVE  IInv' /\ \A c \in Company : Same(c)
BY StillSame, StillTyped, BackingKept DEF IInv, Stepped

LEMMA StartedKept ==
  ASSUME NEW w \in Worker, IInv, Started(w)
  PROVE  IInv' /\ \A c \in Company : Same(c)
BY QuietKept DEF Started, Stepped, Still

LEMMA canActivateCompanyKept ==
  ASSUME NEW w \in Worker, IInv, canActivateCompany(w)
  PROVE  IInv' /\ \A c \in Company : Same(c)
<1> DEFINE c == job[w].co
<1>1. job[w].todo # <<>> /\ Still /\ c \in Company /\ Now(w).do = "backed?"
  BY Heads DEF canActivateCompany, At, Now, Still, IInv
<1>2. Stepped(w) /\ \A d \in Company : Same(d) /\ (Safe(d) => Safe(d)')
  BY <1>1, Common, StillSame DEF canActivateCompany, IInv
<1>3. CASE stage[c] = "FINAL_AGREEMENT_SHARED" /\ Backed(c)
  <2>1. Safe(c)
    BY <1>3 DEF Backed, Safe, Required, Had, Evidence, DocsLike
  <2>2. Backing'
    <3> SUFFICES ASSUME NEW v \in Worker, Passed(v)'
                 PROVE  Safe(job[v].co)' /\ job'[v].co = job[v].co
      BY DEF Backing, Safe, Required, Had
    <3>1. CASE v = w
      BY <1>1, <1>2, <2>1, <3>1 DEF Stepped
    <3>2. CASE v # w
      <4>1. Passed(v) /\ job'[v].co = job[v].co
        BY <1>2, <3>2 DEF Stepped, Passed
      <4>2. job[v].co \in Company
        BY <4>1, ActivationLists DEF Passed, IInv, Typed, JobsOK, JobOK
      <4> QED BY <1>2, <4>1, <4>2 DEF IInv, Backing
    <3> QED BY <3>1, <3>2
  <2> QED BY <1>1, <1>2, <2>2, StillTyped DEF IInv, Stepped
<1>4. CASE ~(stage[c] = "FINAL_AGREEMENT_SHARED" /\ Backed(c))
  <2>1. Continue(w, <<>>)
    BY <1>4 DEF canActivateCompany
  <2>2. job'[w] = Idle
    BY <2>1 DEF Continue, IInv, Typed, JobsOK
  <2>3. ~Passed(w)'
    BY <2>2 DEF Passed, Idle
  <2> QED BY <1>1, <1>2, <2>3, QuietKept
<1> QED BY <1>3, <1>4

\* What is known of a company grows.
Gathers(c, e) ==
  \A b \in Company : /\ Required(b)' = Required(b) /\ Activated(b)' = Activated(b)
                     /\ Had(b)' = IF b = c THEN Had(b) \cup {e} ELSE Had(b)

LEMMA InsertRowKept ==
  ASSUME NEW w \in Worker, IInv, InsertRow(w)
  PROVE  IInv' /\ ((\A c \in Company : Same(c)) \/ \E c \in Company, e \in Evidence : Gathers(c, e))
<1> DEFINE c == job[w].co
           d == job[w].d
           new == [co |-> c, version |-> job[w].ver, status |-> job[w].st,
                   known |-> job[w].known, by |-> Now(w).by]
<1>1. /\ job[w].todo # <<>> /\ c \in Company /\ d \in DocOrNone /\ Now(w).do = "row"
      /\ UNCHANGED <<stage, channel, paid, history>>
  BY Heads DEF InsertRow, At, Now, IInv, Typed, JobsOK, JobOK
<1>2. Stepped(w) /\ (Passed(w)' => Passed(w))
  BY <1>1, Common DEF InsertRow, IInv
<1>3. CASE row' = row
  <2>1. Still
    BY <1>1, <1>3 DEF Still
  <2> QED BY <1>2, <2>1, QuietKept
<1>4. CASE row' # row
  <2>1. row' = [e \in Present \cup {d} |-> IF e \in Present THEN row[e] ELSE new]
    BY <1>4 DEF InsertRow
  <2>2. Present' = Present \cup {d} /\ \A e \in Present : row'[e] = row[e]
    BY <2>1 DEF Present
  <2>3. d \notin Present /\ row'[d] = new
    BY <1>4, <2>1, <2>2 DEF IInv, Typed
  <2>4. RowOK(new) /\ new.co = c
    BY <1>1 DEF RowOK
  <2> HIDE DEF new
  <2>5. Typed'
    <3>1. row' = [e \in Present' |-> row'[e]] /\ \A e \in Present' : RowOK(row'[e])
      BY <2>1, <2>2, <2>3, <2>4 DEF IInv, Typed
    <3> QED BY <1>1, <1>2, <2>2, <3>1 DEF IInv, Typed, Stepped
  <2>6. \A b \in Company : DocsOf(b)' = IF b = c THEN DocsOf(b) \cup {d} ELSE DocsOf(b)
    <3> SUFFICES ASSUME NEW b \in Company
                 PROVE  DocsOf(b)' = IF b = c THEN DocsOf(b) \cup {d} ELSE DocsOf(b)
      OBVIOUS
    <3>1. DocsOf(b)' = {e \in Present' : row'[e].co = b}
      BY DEF DocsOf
    <3>2. \A e \in Present : row'[e].co = row[e].co
      BY <2>2
    <3>3. row'[d].co = c
      BY <2>3, <2>4
    <3> QED BY <2>2, <2>3, <3>1, <3>2, <3>3 DEF DocsOf
  <2>7. \A b \in Company : Had(b)' = IF b = c THEN Had(b) \cup (Evidence \cap {TypeOf[d]}) ELSE Had(b)
    <3> SUFFICES ASSUME NEW b \in Company
                 PROVE  Had(b)' = IF b = c THEN Had(b) \cup (Evidence \cap {TypeOf[d]})
                                  ELSE Had(b)
      OBVIOUS
    <3> HIDE DEF c, d
    <3>1. CASE b = c
      BY <1>1, <2>6, <3>1 DEF Had
    <3>2. CASE b # c
      BY <1>1, <2>6, <3>2 DEF Had
    <3> QED BY <3>1, <3>2
  <2>8. \A b \in Company : Required(b)' = Required(b) /\ Activated(b)' = Activated(b)
    BY <1>1 DEF Required, Activated
  <2>9. Backing'
    <3>1. \A b \in Company : Safe(b) => Safe(b)'
      BY <1>1, <2>7, <2>8 DEF Safe
    <3> QED BY <1>2, <3>1, BackingKept
  <2>10. CASE TypeOf[d] \in Evidence
    <3>1. Evidence \cap {TypeOf[d]} = {TypeOf[d]}
      BY <2>10
    <3>2. Gathers(c, TypeOf[d])
      BY <2>7, <2>8, <3>1 DEF Gathers
    <3> QED BY <1>1, <2>5, <2>9, <2>10, <3>2 DEF IInv
  <2>11. CASE TypeOf[d] \notin Evidence
    <3>1. Evidence \cap {TypeOf[d]} = {}
      BY <2>11
    <3>2. \A b \in Company : Had(b)' = Had(b)
      BY <2>7, <3>1
    <3> QED BY <2>5, <2>8, <2>9, <3>2 DEF IInv, Same
  <2> QED BY <2>10, <2>11
<1> QED BY <1>3, <1>4

\* A company is activated, by a step that has its evidence.
Activates(c) ==
  /\ Required(c) \subseteq Had(c)
  /\ \A b \in Company : /\ Required(b)' = Required(b) /\ Had(b)' = Had(b)
                         /\ Activated(b)' = IF b = c THEN TRUE ELSE Activated(b)

\* A write of a stage takes back no evidence, and asks for none.
LEMMA WrittenStage ==
  ASSUME NEW w \in Worker, NEW c \in Company, NEW to \in Stage, NEW notes \in SUBSET Note,
         IInv, Stepped(w), Passed(w)' => Passed(w),
         stage[c] # Gone, "redirected" \notin notes,
         stage' = [stage EXCEPT ![c] = to],
         history' = [history EXCEPT ![c] = @ \cup notes],
         UNCHANGED <<channel, paid, row>>
  PROVE  /\ IInv'
         /\ \A b \in Company : Required(b)' = Required(b) /\ Had(b)' = Had(b)
         /\ \A b \in Company :
              Activated(b)' = IF b = c /\ "activated" \in notes THEN TRUE ELSE Activated(b)
<1>1. /\ stage' \in [Company -> Stage \cup {Gone}] /\ history' \in [Company -> SUBSET Note]
      /\ \A b \in Company : stage'[b] = IF b = c THEN to ELSE stage[b]
      /\ \A b \in Company : history'[b] = IF b = c THEN history[b] \cup notes ELSE history[b]
  BY DEF IInv, Typed
<1>2. Typed'
  BY <1>1 DEF IInv, Typed, Stepped, Present
<1>3. \A b \in Company : Required(b)' = Required(b) /\ Had(b)' = Had(b)
  BY <1>1 DEF Required, Had, DocsOf, Present
<1>4. \A b \in Company : Activated(b)' = IF b = c /\ "activated" \in notes THEN TRUE ELSE Activated(b)
  BY <1>1, StagesNamed DEF Activated
<1>5. \A b \in Company : Safe(b) => Safe(b)'
  BY <1>1, <1>3 DEF Safe
<1> QED BY <1>2, <1>3, <1>4, <1>5, BackingKept DEF IInv

LEMMA writeStageKept ==
  ASSUME NEW w \in Worker, IInv, writeStage(w)
  PROVE  IInv' /\ ((\A c \in Company : Same(c)) \/ \E c \in Company : Activates(c))
<1> DEFINE c == job[w].co
           notes == Moved(w, Now(w).to)
<1>1. /\ job[w].todo # <<>> /\ c \in Company /\ Now(w).do = "write" /\ Now(w).to \in Stage
      /\ UNCHANGED <<channel, paid, row>>
  BY Heads DEF writeStage, At, Now, IInv
<1>2. Stepped(w) /\ (Passed(w)' => Passed(w))
  BY <1>1, Common DEF writeStage, IInv
<1>3. CASE stage[c] = Gone
  <2>1. Still
    BY <1>1, <1>3 DEF writeStage, Still
  <2> QED BY <1>2, <2>1, QuietKept
<1>4. CASE stage[c] # Gone
  <2>1. /\ stage' = [stage EXCEPT ![c] = Now(w).to]
        /\ history' = [history EXCEPT ![c] = @ \cup notes]
    BY <1>4 DEF writeStage
  <2>2. notes \in SUBSET Note /\ "redirected" \notin notes
    BY DEF Moved, Note
  <2>3. "activated" \in notes <=> job[w].op = "activate"
    BY DEF Moved
  <2> HIDE DEF notes, c
  <2>4. /\ IInv'
        /\ \A b \in Company : Required(b)' = Required(b) /\ Had(b)' = Had(b)
        /\ \A b \in Company :
             Activated(b)' = IF b = c /\ "activated" \in notes THEN TRUE ELSE Activated(b)
    BY <1>1, <1>2, <1>4, <2>1, <2>2, WrittenStage
  <2>5. CASE job[w].op = "activate"
    <3>1. Passed(w)
      BY <1>1, <2>5, ActivationLists DEF Now, Passed, IInv, Typed, JobsOK, JobOK
    <3>2. Required(c) \subseteq Had(c)
      BY <1>4, <3>1 DEF IInv, Backing, Safe, c
    <3>3. Activates(c)
      BY <2>3, <2>4, <2>5, <3>2 DEF Activates
    <3> QED BY <1>1, <2>4, <3>3
  <2>6. CASE job[w].op # "activate"
    BY <2>3, <2>4, <2>6 DEF Same
  <2> QED BY <2>5, <2>6
<1> QED BY <1>3, <1>4

\* Other evidence is asked for.
Changes(c) ==
  /\ \A b \in Company : Had(b)' = Had(b) /\ Activated(b)' = Activated(b)
  /\ \A b \in Company \ {c} : Required(b)' = Required(b)

LEMMA saveProfileKept ==
  ASSUME NEW w \in Worker, IInv, saveProfile(w)
  PROVE  IInv' /\ \E c \in Company : Changes(c)
<1>0. job[w].todo # <<>> /\ job[w].co \in Company
  BY Heads DEF saveProfile, At, IInv
<1>c. PICK c \in Company : c = job[w].co
  BY <1>0
<1> DEFINE to == Now(w).to
           ch == Now(w).ch
           notes == (IF to = "same" THEN {} ELSE Moved(w, to)) \cup
                    (IF ch # channel[c] /\ \E v \in Worker : job[v].op = "activate" /\ job[v].co = c
                       THEN {"redirected"} ELSE {})
<1>1. /\ job[w].todo # <<>> /\ Now(w).do = "save"
      /\ to \in Stage \cup {"same"} /\ ch \in Channel
      /\ UNCHANGED <<paid, row>>
  BY Heads DEF saveProfile, At, Now, IInv
<1>2. Stepped(w) /\ ~Passed(w) /\ ~Passed(w)' /\ job[w].op # "activate"
  <2>1. Rest(w) \in Seq(AStep) /\ Continue(w, Rest(w))
    BY <1>1, Heads DEF saveProfile, IInv
  <2>2. job[w].op # "activate"
    BY <1>1, ActivationLists DEF Now, IInv, Typed, JobsOK, JobOK
  <2> QED BY <1>1, <2>1, <2>2, Ordinary DEF IInv
<1>3. CASE stage[c] = Gone
  <2>1. Still
    BY <1>c, <1>1, <1>3 DEF saveProfile, Still
  <2> QED BY <1>1, <1>2, <2>1, QuietKept DEF Changes, Same
<1>4. CASE stage[c] # Gone
  <2>1. /\ stage' = IF to = "same" THEN stage ELSE [stage EXCEPT ![c] = to]
        /\ channel' = [channel EXCEPT ![c] = ch]
        /\ history' = [history EXCEPT ![c] = @ \cup notes]
    BY <1>c, <1>4 DEF saveProfile
  <2>2. notes \in SUBSET Note /\ "activated" \notin notes
    BY <1>c, <1>2 DEF Moved, Note
  <2>3. "redirected" \in notes <=>
          ch # channel[c] /\ \E v \in Worker : job[v].op = "activate" /\ job[v].co = c
    BY DEF Moved
  <2> HIDE DEF notes, to, ch
  <2>4. /\ stage' \in [Company -> Stage \cup {Gone}]
        /\ channel' \in [Company -> Channel] /\ history' \in [Company -> SUBSET Note]
    BY <1>1, <2>1, <2>2 DEF IInv, Typed
  <2>5. \A b \in Company \ {c} :
          stage'[b] = stage[b] /\ channel'[b] = channel[b] /\ history'[b] = history[b]
    BY <1>1, <2>1 DEF IInv, Typed
  <2>6. /\ stage'[c] # Gone /\ channel'[c] = ch
        /\ history'[c] = history[c] \cup notes
    BY <1>1, <1>4, <2>1, StagesNamed DEF IInv, Typed
  <2>7. Typed'
    BY <1>1, <1>2, <2>4 DEF IInv, Typed, Stepped, Present
  <2>8. \A b \in Company : Had(b)' = Had(b) /\ Activated(b)' = Activated(b)
    <3>1. \A b \in Company : Had(b)' = Had(b)
      BY <1>1 DEF Had, DocsOf, Present
    <3>2. \A b \in Company \ {c} : Activated(b)' = Activated(b)
      BY <2>5 DEF Activated
    <3>3. Activated(c)' = Activated(c)
      BY <1>4, <2>2, <2>6 DEF Activated
    <3> QED BY <3>1, <3>2, <3>3
  <2>9. \A b \in Company \ {c} : Required(b)' = Required(b) /\ (Safe(b) => Safe(b)')
    BY <2>5, <2>8 DEF Required, Safe
  <2>10. ASSUME NEW v \in Worker, Passed(v), job[v].co = c
         PROVE  Safe(c) => Safe(c)'
    <3>1. ch # channel[c] => "redirected" \in history'[c]
      BY <2>3, <2>6, <2>10 DEF Passed
    <3>2. ch = channel[c] => Required(c)' = Required(c)
      BY <2>3, <2>6 DEF Required
    <3>3. Required(c)' \subseteq Required(c)
      BY <3>1, <3>2 DEF Required
    <3> QED BY <1>1, <1>4, <2>8, <3>3 DEF Safe
  <2>11. Backing'
    <3> SUFFICES ASSUME NEW v \in Worker, Passed(v)'
                 PROVE  Safe(job[v].co)' /\ job'[v].co = job[v].co
      BY DEF Backing, Safe, Required, Had
    <3>1. Passed(v) /\ job'[v].co = job[v].co
      BY <1>2 DEF Stepped, Passed
    <3>2. job[v].co \in Company
      BY <3>1, ActivationLists DEF Passed, IInv, Typed, JobsOK, JobOK
    <3>3. Safe(job[v].co)
      BY <3>1 DEF IInv, Backing
    <3> QED BY <2>9, <2>10, <3>1, <3>2, <3>3
  <2>12. Changes(c)
    BY <2>8, <2>9 DEF Changes
  <2> QED BY <1>1, <2>7, <2>11, <2>12 DEF IInv
<1> QED BY <1>3, <1>4

\* A status is no evidence of the gate's.
LEMMA UpdateStatusKept ==
  ASSUME NEW w \in Worker, IInv, UpdateStatus(w)
  PROVE  IInv' /\ \A c \in Company : Same(c)
<1> DEFINE d == job[w].d
<1>1. job[w].todo # <<>> /\ Now(w).do = "status" /\ UNCHANGED <<stage, channel, paid, history>>
  BY DEF UpdateStatus, At, Now
<1>2. Stepped(w) /\ (Passed(w)' => Passed(w))
  BY <1>1, Common DEF UpdateStatus, IInv
<1>3. CASE row' = row
  <2>1. Still
    BY <1>1, <1>3 DEF Still
  <2> QED BY <1>2, <2>1, QuietKept
<1>4. CASE row' # row
  <2>1. d \in Present /\ row' = [row EXCEPT ![d].status = job[w].st]
    BY <1>4 DEF UpdateStatus
  <2>2. Present' = Present /\ \A e \in Present \ {d} : row'[e] = row[e]
    BY <2>1 DEF Present, IInv, Typed
  <2>3. row'[d] = [row[d] EXCEPT !.status = job[w].st]
    BY <2>1 DEF Present, IInv, Typed
  <2>4. RowOK(row'[d]) /\ row'[d].co = row[d].co
    BY <2>1, <2>3 DEF IInv, Typed, RowOK
  <2>5. \A c \in Company : DocsOf(c)' = DocsOf(c)
    BY <2>2, <2>4 DEF DocsOf
  <2>6. Typed'
    <3>1. row' = [e \in Present' |-> row'[e]] /\ \A e \in Present' : RowOK(row'[e])
      BY <2>1, <2>2, <2>4 DEF IInv, Typed
    <3> QED BY <1>1, <1>2, <2>2, <3>1 DEF IInv, Typed, Stepped
  <2>7. \A c \in Company : Same(c) /\ (Safe(c) => Safe(c)')
    BY <1>1, <2>5 DEF Same, Safe, Required, Had, Activated
  <2> QED BY <1>2, <2>6, <2>7, BackingKept DEF IInv
<1> QED BY <1>3, <1>4

LEMMA disconnectUsersKept ==
  ASSUME NEW w \in Worker, IInv, disconnectUsers(w)
  PROVE  IInv' /\ \A c \in Company : Same(c)
<1>1. /\ job[w].todo # <<>> /\ Now(w).do = "unlink" /\ job[w].co \in Company
      /\ UNCHANGED <<stage, channel, paid, row>>
  BY Heads DEF disconnectUsers, At, Now, IInv
<1>2. Stepped(w) /\ (Passed(w)' => Passed(w))
  BY <1>1, Common DEF disconnectUsers, IInv
<1>3. \/ history' = history
      \/ history' = [history EXCEPT ![job[w].co] = @ \cup {"removed twice"}]
  <2>1. CASE Removing(job[w].co) # {w}
    BY <2>1 DEF disconnectUsers
  <2>2. CASE Removing(job[w].co) = {w}
    BY <1>1, <2>2 DEF disconnectUsers, IInv, Typed
  <2> QED BY <2>1, <2>2
<1>4. /\ history' \in [Company -> SUBSET Note]
      /\ \A c \in Company : history[c] \subseteq history'[c]
                            /\ history'[c] \subseteq history[c] \cup {"removed twice"}
  <2>1. CASE history' = history
    BY <2>1 DEF IInv, Typed
  <2>2. CASE history' = [history EXCEPT ![job[w].co] = @ \cup {"removed twice"}]
    BY <1>1, <2>2 DEF IInv, Typed, Note
  <2> QED BY <1>3, <2>1, <2>2
<1>5. Typed'
  BY <1>1, <1>2, <1>4 DEF IInv, Typed, Stepped, Present
<1>6. \A c \in Company : Same(c) /\ (Safe(c) => Safe(c)')
  BY <1>1, <1>4 DEF Same, Safe, Required, Had, Activated, DocsOf, Present
<1> QED BY <1>2, <1>5, <1>6, BackingKept DEF IInv

\* The company goes, and the evidence with it.
Removes(c) ==
  \A b \in Company : /\ Required(b)' = Required(b)
                     /\ Had(b)' = IF b = c THEN {} ELSE Had(b)
                     /\ Activated(b)' = IF b = c THEN FALSE ELSE Activated(b)

LEMMA deleteClientProfileKept ==
  ASSUME NEW w \in Worker, IInv, deleteClientProfile(w)
  PROVE  IInv' /\ ((\A c \in Company : Same(c)) \/ \E c \in Company : Removes(c))
<1>1. PICK c \in Company : c = job[w].co
  BY Heads DEF deleteClientProfile, At, IInv
<1>2. job[w].todo # <<>> /\ Now(w).do = "drop" /\ UNCHANGED <<channel, history>>
  BY DEF deleteClientProfile, At, Now
<1>3. Stepped(w) /\ (Passed(w)' => Passed(w))
  BY <1>2, Common DEF deleteClientProfile, IInv
<1>4. CASE stage[c] = Gone
  <2>1. Still
    BY <1>1, <1>2, <1>4 DEF deleteClientProfile, Still
  <2> QED BY <1>3, <2>1, QuietKept
<1>5. CASE stage[c] # Gone
  <2>1. /\ stage' = [stage EXCEPT ![c] = Gone] /\ paid' = [paid EXCEPT ![c] = FALSE]
        /\ row' = [d \in Present \ DocsOf(c) |-> row[d]]
    BY <1>1, <1>5 DEF deleteClientProfile
  <2>2. /\ stage' \in [Company -> Stage \cup {Gone}] /\ paid' \in [Company -> BOOLEAN]
        /\ stage'[c] = Gone /\ ~paid'[c]
        /\ \A b \in Company \ {c} : stage'[b] = stage[b] /\ paid'[b] = paid[b]
    BY <2>1 DEF IInv, Typed
  <2>3. Present' = Present \ DocsOf(c) /\ \A d \in Present' : row'[d] = row[d]
    BY <2>1 DEF Present
  <2>4. Typed'
    <3>1. row' = [e \in Present' |-> row'[e]] /\ \A e \in Present' : RowOK(row'[e])
      BY <2>1, <2>3 DEF IInv, Typed
    <3> QED BY <1>2, <1>3, <2>2, <2>3, <3>1 DEF IInv, Typed, Stepped
  <2>5. \A b \in Company : DocsOf(b)' = IF b = c THEN {} ELSE DocsOf(b)
    BY <2>3 DEF DocsOf
  <2>6. \A b \in Company : Had(b)' = IF b = c THEN {} ELSE Had(b)
    BY <2>2, <2>5 DEF Had
  <2>7. \A b \in Company : Required(b)' = Required(b)
    BY <1>2 DEF Required
  <2>8. \A b \in Company : Activated(b)' = IF b = c THEN FALSE ELSE Activated(b)
    BY <1>2, <2>2 DEF Activated
  <2>9. \A b \in Company : Safe(b) => Safe(b)'
    BY <2>2, <2>6, <2>7 DEF Safe
  <2> QED BY <1>3, <2>4, <2>6, <2>7, <2>8, <2>9, BackingKept DEF IInv, Removes
<1> QED BY <1>4, <1>5

\* Steps that are no request's.
LEMMA JobsSame ==
  ASSUME IInv, Typed', job' = job, \A c \in Company : Safe(c) => Safe(c)'
  PROVE  IInv'
<1> SUFFICES ASSUME NEW v \in Worker, Passed(v)
             PROVE  Safe(job[v].co)'
  BY DEF IInv, Backing, Passed
<1>1. job[v].co \in Company
  BY ActivationLists DEF Passed, IInv, Typed, JobsOK, JobOK
<1> QED BY <1>1 DEF IInv, Backing, Safe, Required, Had

LEMMA onPaymentConfirmedKept ==
  ASSUME NEW c \in Company, IInv, onPaymentConfirmed(c)
  PROVE  IInv' /\ Gathers(c, "payment")
<1>1. /\ stage[c] = "PAYMENT_PENDING" /\ paid' = [paid EXCEPT ![c] = TRUE]
      /\ stage' = [stage EXCEPT ![c] = "KYC_IN_PROGRESS"]
      /\ UNCHANGED <<channel, row, job, history>>
  BY DEF onPaymentConfirmed
<1>2. /\ stage' \in [Company -> Stage \cup {Gone}] /\ paid' \in [Company -> BOOLEAN]
      /\ stage[c] # Gone /\ stage'[c] # Gone /\ paid'[c]
      /\ \A b \in Company \ {c} : stage'[b] = stage[b] /\ paid'[b] = paid[b]
  BY <1>1, StagesNamed DEF IInv, Typed, Gone
<1>3. Typed'
  BY <1>1, <1>2 DEF IInv, Typed, Present, JobsOK
<1>4. \A b \in Company : Had(b)' = IF b = c THEN Had(b) \cup {"payment"} ELSE Had(b)
  BY <1>1, <1>2 DEF Had, Evidence, DocsOf, Present
<1>5. \A b \in Company : Required(b)' = Required(b) /\ Activated(b)' = Activated(b)
  BY <1>1, <1>2 DEF Required, Activated
<1>6. \A b \in Company : Safe(b) => Safe(b)'
  BY <1>2, <1>4, <1>5 DEF Safe
<1> QED BY <1>1, <1>3, <1>4, <1>5, <1>6, JobsSame DEF Gathers

LEMMA CrashKept ==
  ASSUME IInv, Crash
  PROVE  IInv' /\ \A c \in Company : Same(c)
<1>1. /\ job' = [w \in Worker |-> Idle] /\ UNCHANGED <<stage, channel, paid, row>>
      /\ history' = [c \in Company |-> history[c] \cup {"crashed"}]
  BY DEF Crash
<1>2. JobsOK'
  BY <1>1, IdleOK DEF JobsOK
<1>3. Typed'
  BY <1>1, <1>2 DEF IInv, Typed, Present, Note
<1>4. Backing'
  BY <1>1 DEF Backing, Passed, Idle
<1>5. \A c \in Company : Same(c)
  BY <1>1 DEF Same, Required, Had, Activated, DocsOf, Present
<1> QED BY <1>3, <1>4, <1>5 DEF IInv

-----------------------------------------------------------------------------
(* The theorems.                                                           *)

LEMMA InitOK == Init => IInv
<1> SUFFICES ASSUME Init PROVE IInv
  OBVIOUS
<1>1. PICK old \in SUBSET Company :
        /\ \A c \in old : channel[c] = "DIRECT"
        /\ stage = [c \in Company |-> IF c \in old THEN "KYC_REVIEW"
                                      ELSE IF channel[c] = "DIRECT" THEN "PAYMENT_PENDING"
                                      ELSE "KYC_IN_PROGRESS"]
        /\ paid = [c \in Company |-> c \in old]
        /\ \E of \in [KycDocs -> old \cup {"none"}] :
             row = [d \in {e \in KycDocs : of[e] # "none"} |->
                      [co |-> of[d], version |-> 1, status |-> "REVIEW_PENDING",
                       known |-> {}, by |-> "server"]]
  BY DEF Init
<1>2. stage \in [Company -> Stage \cup {Gone}]
  BY <1>1 DEF Stage
<1>3. paid \in [Company -> BOOLEAN]
  BY <1>1
<1>4. /\ Present \subseteq DocOrNone /\ row = [d \in Present |-> row[d]]
      /\ \A d \in Present : RowOK(row[d])
  <2>1. PICK of \in [KycDocs -> old \cup {"none"}] :
          row = [d \in {e \in KycDocs : of[e] # "none"} |->
                   [co |-> of[d], version |-> 1, status |-> "REVIEW_PENDING",
                    known |-> {}, by |-> "server"]]
    BY <1>1
  <2>2. Present = {e \in KycDocs : of[e] # "none"}
    BY <2>1 DEF Present
  <2>3. \A d \in Present : RowOK(row[d])
    BY <2>1, <2>2 DEF RowOK
  <2> QED BY <2>1, <2>2, <2>3 DEF KycDocs, DocOrNone
<1>5. JobsOK /\ Backing
  BY IdleOK DEF Init, JobsOK, Backing, Passed, Idle
<1>6. channel \in [Company -> Channel] /\ history \in [Company -> SUBSET Note]
  BY DEF Init
<1> QED BY <1>2, <1>3, <1>4, <1>5, <1>6 DEF IInv, Typed

\* What a step of the service does to the evidence about the companies: one of the
\* gate's actions, or nothing.
Promised ==
  \/ \A c \in Company : Same(c)
  \/ \E c \in Company : \/ \E e \in Evidence : Gathers(c, e)
                        \/ Activates(c)
                        \/ Changes(c)
                        \/ Removes(c)

LEMMA StepsKept ==
  ASSUME IInv, [Next]_vars
  PROVE  IInv' /\ Promised
<1>1. ASSUME NEW w \in Worker, Step(w)
      PROVE  IInv' /\ Promised
  <2>1. CASE \/ ReadVersion(w) \/ PutObject(w) \/ assertStage(w) \/ updateStageIfAllowed(w)
             \/ updateStage(w) \/ isDirect(w) \/ areAllKycDocumentsApproved(w)
             \/ checkDates(w) \/ deleteFiles(w) \/ deleteUsers(w)
    BY <2>1, QuietSteps, QuietKept DEF IInv, Promised
  <2>2. CASE InsertRow(w)
    BY <2>2, InsertRowKept DEF Promised
  <2>3. CASE writeStage(w)
    BY <2>3, writeStageKept DEF Promised
  <2>4. CASE UpdateStatus(w)
    BY <2>4, UpdateStatusKept DEF Promised
  <2>5. CASE saveProfile(w)
    BY <2>5, saveProfileKept DEF Promised
  <2>6. CASE canActivateCompany(w)
    BY <2>6, canActivateCompanyKept DEF Promised
  <2>7. CASE disconnectUsers(w)
    BY <2>7, disconnectUsersKept DEF Promised
  <2>8. CASE deleteClientProfile(w)
    BY <2>8, deleteClientProfileKept DEF Promised
  <2> QED BY <1>1, <2>1, <2>2, <2>3, <2>4, <2>5, <2>6, <2>7, <2>8 DEF Step
<1>2. ASSUME NEW w \in Worker,
             \/ \E c \in Company :
                  Manage(w, c) \/ \E d \in Doc : Upload(w, c, d) \/ Share(w, c, d)
             \/ \E d \in Doc : Review(w, d)
      PROVE  IInv' /\ Promised
  <2>1. Started(w)
    BY <1>2, ManageStarts, UploadStarts, ShareStarts, ReviewStarts DEF IInv
  <2> QED BY <2>1, StartedKept DEF Promised
<1>3. ASSUME NEW c \in Company, onPaymentConfirmed(c)
      PROVE  IInv' /\ Promised
  BY <1>3, onPaymentConfirmedKept DEF Promised, Evidence
<1>4. CASE Crash
  BY <1>4, CrashKept DEF Promised
<1>5. CASE UNCHANGED vars
  <2>1. Still /\ Typed' /\ job' = job
    BY <1>5 DEF vars, Still, IInv, Typed, Present, JobsOK
  <2> QED BY <2>1, StillSame, JobsSame DEF Promised
<1> QED BY <1>1, <1>2, <1>3, <1>4, <1>5 DEF Next

\* An activation that has passed canActivateCompany has its evidence, or its company is
\* gone, in every state, whatever the other requests do (canActivateCompany and
\* activateCompany of the client profiles, update, remove).
THEOREM Inductive == Spec => []IInv
<1>1. IInv /\ [Next]_vars => IInv'
  BY StepsKept
<1> QED BY <1>1, InitOK, PTL DEF Spec

\* The service implements ActivationGate: whatever requests interleave and wherever the
\* process dies, a company is activated only with the evidence that its channel asks for,
\* which nothing but its removal takes away (GateSpec).
THEOREM Refinement == Spec => GateSpec
<1>1. Init => Gate!Init
  BY StagesNamed DEF Init, Gate!Init, Required, Had, Activated, Evidence
<1>2. IInv /\ [Next]_vars => [Gate!Next]_(Gate!vars)
  <2> SUFFICES ASSUME Promised
               PROVE  [Gate!Next]_(Gate!vars)
    BY StepsKept
  <2>1. CASE \A c \in Company : Same(c)
    BY <2>1 DEF Same, Gate!vars
  <2>2. ASSUME NEW c \in Company, NEW e \in Evidence, Gathers(c, e)
        PROVE  Gate!Collect(c, e)
    BY <2>2 DEF Gathers, Gate!Collect
  <2>3. ASSUME NEW c \in Company, Activates(c)
        PROVE  Gate!Activate(c)
    BY <2>3 DEF Activates, Gate!Activate
  <2>4. ASSUME NEW c \in Company, Changes(c)
        PROVE  \E R \in SUBSET Evidence : Gate!ChangeHands(c, R)
    <3>1. PICK R : R = Required(c)'
      OBVIOUS
    <3>2. R \in SUBSET Evidence
      BY <3>1 DEF Required, Evidence
    <3>3. Gate!ChangeHands(c, R)
      BY <2>4, <3>1 DEF Changes, Gate!ChangeHands
    <3> QED BY <3>2, <3>3
  <2>5. ASSUME NEW c \in Company, Removes(c)
        PROVE  Gate!Remove(c)
    BY <2>5 DEF Removes, Gate!Remove
  <2> QED BY <2>1, <2>2, <2>3, <2>4, <2>5 DEF Promised, Gate!Next
<1> QED BY <1>1, <1>2, Inductive, PTL DEF Spec, GateSpec, Gate!Spec

-----------------------------------------------------------------------------
(***************************************************************************)
(* What requests keep true of rows, files, versions, accounts and stages.  *)
(* It rests on the forms that the steps left to a request can have, and on *)
(* the invariant above.                                                    *)
(***************************************************************************)
-----------------------------------------------------------------------------
(* The forms of a list of steps.                                           *)

\* Steps that touch no row, file or account; none writes one of the first two stages.
Later == Stage \ {"ADMIN_CREATED", "PAYMENT_PENDING"}
Tame ==
  [do : {"direct?", "approved?", "backed?", "dated?"}] \cup
  [do : {"check"}, in : SUBSET Stage] \cup
  [do : {"write", "must"}, to : Later] \cup
  [do : {"move"}, to : Later, from : SUBSET Stage] \cup
  [do : {"save"}, to : Later \cup {"same"}, ch : Channel]

\* Uploads: a version is looked up, a file stored, a row made, and T is left.
Inserts(T) == {s \in Seq(AStep) : s # <<>> /\ Head(s).do = "row" /\ Tail(s) \in T}
ByServer(T)  == {s \in Inserts(T) : Head(s).by = "server"}
Presigned(T) == {s \in Inserts(T) : Head(s).by = "presigned"}
Puts(T)      == {s \in Seq(AStep) : s # <<>> /\ Head(s).do = "put" /\ Tail(s) \in ByServer(T)}
Versions(T)  == {s \in Seq(AStep) : /\ s # <<>> /\ Head(s).do = "version"
                                    /\ Tail(s) \in Puts(T) \cup Presigned(T)}
Uploading(T) == Inserts(T) \cup Puts(T) \cup Versions(T)

\* An upload through the server does not start with its row.
Opening(T) == Presigned(T) \cup Puts(T) \cup Versions(T)

\* Reviews: a status is written, and tame steps are left.
Judging == {s \in Seq(AStep) : s # <<>> /\ Head(s).do = "status" /\ Tail(s) \in Seq(Tame)}

LEMMA Peel ==
  /\ \A a \in AStep : \A t \in Seq(AStep) :
       /\ <<a>> \o t # <<>> /\ Head(<<a>> \o t) = a /\ Tail(<<a>> \o t) = t
  /\ \A a, b \in AStep : \A t \in Seq(AStep) :
       /\ <<a, b>> \o t # <<>> /\ Head(<<a, b>> \o t) = a /\ Tail(<<a, b>> \o t) = <<b>> \o t
  /\ \A a, b, c \in AStep : \A t \in Seq(AStep) :
       /\ <<a, b, c>> \o t # <<>> /\ Head(<<a, b, c>> \o t) = a
       /\ Tail(<<a, b, c>> \o t) = <<b, c>> \o t
OBVIOUS

LEMMA TameSteps == Tame \subseteq AStep
BY DEF Tame, AStep, Later

LEMMA TameTyped ==
  /\ \A op \in {"direct?", "approved?", "backed?", "dated?"} : Do(op) \in Tame
  /\ \A S \in SUBSET Stage : Check(S) \in Tame
  /\ \A to \in Later : Write(to) \in Tame /\ Must(to) \in Tame
  /\ \A to \in Later, S \in SUBSET Stage : Move(to, S) \in Tame
  /\ \A to \in Later \cup {"same"}, ch \in Channel : Save(to, ch) \in Tame
<1>1. \A op \in {"direct?", "approved?", "backed?", "dated?"} : Do(op) \in Tame
  BY DEF Tame, Do
<1>2. \A S \in SUBSET Stage : Check(S) \in Tame
  BY DEF Tame, Check
<1>3. \A to \in Later : Write(to) \in Tame /\ Must(to) \in Tame
  BY DEF Tame, Write, Must
<1>4. \A to \in Later, S \in SUBSET Stage : Move(to, S) \in Tame
  BY DEF Tame, Move
<1>5. \A to \in Later \cup {"same"}, ch \in Channel : Save(to, ch) \in Tame
  BY DEF Tame, Save
<1> QED BY <1>1, <1>2, <1>3, <1>4, <1>5

LEMMA LaterNamed ==
  {"ACTIVE", "FINAL_AGREEMENT_SHARED", "KYC_IN_PROGRESS", "KYC_REVIEW", "PAYMENT_CONFIRMED",
   "AGREEMENT_DRAFT_SHARED", "SIGNED_AGREEMENT_RECEIVED"} \subseteq Later
BY StagesNamed DEF Later

LEMMA TameMoves ==
  {onKycUploaded, moveToKycReviewAfterUpload, onKycApproved, onAgreementDraftShared,
   onSignedAgreementReceived, onFinalAgreementShared} \subseteq Tame
BY TameTyped, LaterNamed, StagesNamed
   DEF onKycUploaded, moveToKycReviewAfterUpload, onKycApproved, onAgreementDraftShared,
       onSignedAgreementReceived, onFinalAgreementShared

LEMMA TameLists ==
  /\ Seq(Tame) \subseteq Seq(AStep)
  /\ <<>> \in Seq(Tame)
  /\ \A a \in Tame : <<a>> \in Seq(Tame)
  /\ \A a, b \in Tame : <<a, b>> \in Seq(Tame)
  /\ \A a \in Tame : \A s \in Seq(Tame) : <<a>> \o s \in Seq(Tame)
  /\ \A s \in Seq(Tame) : s # <<>> => Head(s) \in Tame /\ Tail(s) \in Seq(Tame)
  /\ {KycMoves} \subseteq Seq(Tame) /\ ActivationSteps \in Seq(Tame)
<1>1. /\ Seq(Tame) \subseteq Seq(AStep)
      /\ <<>> \in Seq(Tame)
      /\ \A a \in Tame : <<a>> \in Seq(Tame)
      /\ \A a, b \in Tame : <<a, b>> \in Seq(Tame)
      /\ \A a \in Tame : \A s \in Seq(Tame) : <<a>> \o s \in Seq(Tame)
      /\ \A a, b, c, d \in Tame : <<a, b, c, d>> \in Seq(Tame)
  BY TameSteps, SeqMonotonic
<1>2. \A s \in Seq(Tame) : s # <<>> => Head(s) \in Tame /\ Tail(s) \in Seq(Tame)
  BY HeadTailProperties
<1>3. {KycMoves} \subseteq Seq(Tame) /\ ActivationSteps \in Seq(Tame)
  BY <1>1, TameMoves, TameTyped, LaterNamed, StagesNamed DEF KycMoves, ActivationSteps
<1> QED BY <1>1, <1>2, <1>3

\* Which of the forms a list has shows in its first step.
LEMMA FormsApart ==
  /\ \A s \in Seq(Tame) : s # <<>> =>
       Head(s).do \in {"direct?", "approved?", "backed?", "dated?", "check", "write", "must",
                       "move", "save"}
  /\ \A T : \A s \in Uploading(T) : s # <<>> /\ Head(s).do \in {"version", "put", "row"}
  /\ \A s \in Judging : s # <<>> /\ Head(s).do = "status"
<1>1. \A s \in Seq(Tame) : s # <<>> =>
        Head(s).do \in {"direct?", "approved?", "backed?", "dated?", "check", "write", "must",
                        "move", "save"}
  BY TameLists DEF Tame
<1> QED BY <1>1 DEF Uploading, Inserts, Puts, Versions, Judging

\* An upload goes on as it should.
LEMMA UploadsGoOn ==
  ASSUME NEW T, NEW s \in Uploading(T)
  PROVE  /\ Head(s).do = "version" => Tail(s) \in Puts(T) \cup Presigned(T)
         /\ Head(s).do = "put" => Tail(s) \in ByServer(T)
         /\ Head(s).do = "row" => Tail(s) \in T
BY DEF Uploading, Inserts, Puts, Versions

LEMMA UploadForms ==
  ASSUME NEW T \in SUBSET Seq(AStep), NEW t \in T
  PROVE  /\ <<Insert("presigned")>> \o t \in Presigned(T)
         /\ <<Insert("server")>> \o t \in ByServer(T)
         /\ <<Do("put"), Insert("server")>> \o t \in Puts(T)
         /\ \A S \in SUBSET DocOrNone :
              /\ <<Version(S), Do("put"), Insert("server")>> \o t \in Versions(T)
              /\ (<<Version(S)>> \o <<Insert("presigned")>>) \o t \in Versions(T)
<1>1. ASSUME NEW a \in AStep, a.do = "row"
      PROVE  <<a>> \o t \in Inserts(T) /\ Head(<<a>> \o t) = a
  BY <1>1, Peel, ListsTyped DEF Inserts
<1>2. <<Insert("presigned")>> \o t \in Presigned(T) /\ <<Insert("server")>> \o t \in ByServer(T)
  <2>1. \A by \in {"server", "presigned"} :
          Insert(by) \in AStep /\ Insert(by).do = "row" /\ Insert(by).by = by
    BY StepsTyped DEF Insert
  <2> QED BY <1>1, <2>1 DEF Presigned, ByServer
<1>3. ASSUME NEW a \in AStep, NEW b \in AStep, a.do = "put", <<b>> \o t \in ByServer(T)
      PROVE  <<a, b>> \o t \in Puts(T)
  <2>1. <<a, b>> \o t \in Seq(AStep)
    BY ListsTyped
  <2>2. /\ <<a, b>> \o t # <<>> /\ Head(<<a, b>> \o t) = a
        /\ Tail(<<a, b>> \o t) = <<b>> \o t
    BY Peel
  <2> QED BY <1>3, <2>1, <2>2 DEF Puts
<1>5. ASSUME NEW a \in AStep, NEW b \in AStep, NEW c \in AStep, a.do = "version",
             <<b, c>> \o t \in Puts(T)
      PROVE  <<a, b, c>> \o t \in Versions(T)
  <2>1. <<a, b, c>> \o t \in Seq(AStep)
    BY ListsTyped
  <2>2. /\ <<a, b, c>> \o t # <<>> /\ Head(<<a, b, c>> \o t) = a
        /\ Tail(<<a, b, c>> \o t) = <<b, c>> \o t
    BY Peel
  <2> QED BY <1>5, <2>1, <2>2 DEF Versions
<1>6. /\ Do("put") \in AStep /\ Do("put").do = "put"
      /\ Insert("server") \in AStep /\ Insert("presigned") \in AStep
  BY StepsTyped DEF Do
<1>7. <<Do("put"), Insert("server")>> \o t \in Puts(T)
  BY <1>2, <1>3, <1>6
<1>4. ASSUME NEW S \in SUBSET DocOrNone
      PROVE  /\ <<Version(S), Do("put"), Insert("server")>> \o t \in Versions(T)
             /\ (<<Version(S)>> \o <<Insert("presigned")>>) \o t \in Versions(T)
  <2>1. Version(S) \in AStep /\ Version(S).do = "version"
    BY StepsTyped DEF Version
  <2>2. <<Version(S), Do("put"), Insert("server")>> \o t \in Versions(T)
    BY <1>5, <1>6, <1>7, <2>1
  <2>3. (<<Version(S)>> \o <<Insert("presigned")>>) \o t
          = <<Version(S)>> \o (<<Insert("presigned")>> \o t)
    BY <1>6, <2>1, ListsTyped, ConcatAssociative
  <2>4. <<Version(S)>> \o (<<Insert("presigned")>> \o t) \in Versions(T)
    BY <1>2, <1>6, <2>1, Peel, ListsTyped DEF Versions, Presigned, Inserts
  <2> QED BY <2>2, <2>3, <2>4
<1> QED BY <1>2, <1>4, <1>7

\* The same of lists that end there.
LEMMA UploadLists ==
  ASSUME NEW T \in SUBSET Seq(AStep), NEW S \in SUBSET DocOrNone
  PROVE  /\ <<>> \in T => /\ <<Version(S), Insert("presigned")>> \in Versions(T)
                          /\ <<Version(S), Do("put"), Insert("server")>> \in Versions(T)
         /\ \A m \in AStep : <<m>> \in T =>
              <<Version(S), Do("put"), Insert("server"), m>> \in Versions(T)
<1>1. ASSUME NEW a \in AStep, NEW b \in AStep, NEW c \in AStep,
             a.do = "version", b.do = "put", c.do = "row", c.by = "server"
      PROVE  /\ <<>> \in T => <<a, b, c>> \in Versions(T)
             /\ \A m \in AStep : <<m>> \in T => <<a, b, c, m>> \in Versions(T)
  <2>1. <<>> \in T => <<c>> \in ByServer(T)
    BY <1>1, ListsTyped DEF ByServer, Inserts
  <2>2. <<>> \in T => <<b, c>> \in Puts(T)
    BY <1>1, <2>1, ListsTyped DEF Puts
  <2>3. \A m \in AStep : <<m>> \in T => <<c, m>> \in ByServer(T)
    BY <1>1, ListsTyped DEF ByServer, Inserts
  <2>4. \A m \in AStep : <<m>> \in T => <<b, c, m>> \in Puts(T)
    BY <1>1, <2>3, ListsTyped DEF Puts
  <2> QED BY <1>1, <2>2, <2>4, ListsTyped DEF Versions
<1>2. ASSUME NEW a \in AStep, NEW c \in AStep,
             a.do = "version", c.do = "row", c.by = "presigned", <<>> \in T
      PROVE  <<a, c>> \in Versions(T)
  <2>1. <<c>> \in Presigned(T)
    BY <1>2, ListsTyped DEF Presigned, Inserts
  <2> QED BY <1>2, <2>1, ListsTyped DEF Versions
<1>3. /\ Version(S) \in AStep /\ Version(S).do = "version"
      /\ Do("put") \in AStep /\ Do("put").do = "put"
      /\ \A by \in {"server", "presigned"} :
           Insert(by) \in AStep /\ Insert(by).do = "row" /\ Insert(by).by = by
  BY StepsTyped DEF Do, Insert, Version
<1> QED BY <1>1, <1>2, <1>3

\* Steps that leave an ACTIVE company as it is.
Calm == [do : {"move"}, to : Later, from : SUBSET (Stage \ {"ACTIVE"})] \cup
        [do : {"save"}, to : {"same"}, ch : Channel]

LEMMA CalmLists ==
  /\ Seq(Calm) \subseteq Seq(Tame) /\ <<>> \in Seq(Calm)
  /\ \A a \in Calm : <<a>> \in Seq(Calm)
  /\ \A s \in Seq(Calm) : s # <<>> => Head(s) \in Calm /\ Tail(s) \in Seq(Calm)
  /\ <<onFinalAgreementShared>> \in Seq(Calm)
  /\ \A ch \in Channel : <<Save("same", ch)>> \in Seq(Calm)
<1>1. Calm \subseteq Tame
  BY DEF Calm, Tame
<1>2. Seq(Calm) \subseteq Seq(Tame)
  BY <1>1, SeqMonotonic
<1>3. \A s \in Seq(Calm) : s # <<>> => Head(s) \in Calm /\ Tail(s) \in Seq(Calm)
  BY HeadTailProperties
<1>4. \A a \in Calm : <<a>> \in Seq(Calm)
  OBVIOUS
<1>5. onFinalAgreementShared \in Calm /\ \A ch \in Channel : Save("same", ch) \in Calm
  BY StagesNamed, LaterNamed DEF Calm, onFinalAgreementShared, Move, Save
<1> QED BY <1>2, <1>3, <1>4, <1>5

LEMMA UploadsMonotone ==
  ASSUME NEW T, NEW U \in SUBSET T
  PROVE  Uploading(U) \subseteq Uploading(T) /\ Opening(U) \subseteq Opening(T)
BY DEF Uploading, Opening, Inserts, ByServer, Presigned, Puts, Versions

LEMMA Openings ==
  ASSUME NEW T
  PROVE  Opening(T) \subseteq Uploading(T) \ ByServer(T)
BY DEF Opening, Uploading, Inserts, ByServer, Presigned, Puts, Versions

\* What an upload by the client or the aggregator has left once the row is there, and
\* what a removal has left.
KycLeft == {KycMoves, <<Write("KYC_IN_PROGRESS"), moveToKycReviewAfterUpload>>,
            <<moveToKycReviewAfterUpload>>, <<Write("KYC_REVIEW")>>}
Removals == {RemovalSteps, <<Do("files"), Do("drop"), Do("users")>>,
             <<Do("drop"), Do("users")>>, <<Do("users")>>}

\* What a request has to do goes with what it is about.
Form(j) ==
  /\ j.todo = <<>> => j = Idle
  /\ j.op = "kyc" => j.todo \in KycLeft \cup Uploading({KycMoves})
  /\ j.op = "remove" => j.todo \in Removals
  /\ j.op # "remove" => j.todo \in Seq(Tame) \cup Uploading(Seq(Tame)) \cup Judging
  /\ j.todo \in Uploading(Seq(Tame)) =>
       /\ j.d \in Doc /\ j.st \in DocumentStatus
       /\ TypeOf[j.d] \in KycTypes => j.op = "kyc"
  /\ j.todo \in Judging => j.st \in DocumentStatus

\* What one that came when the company was ACTIVE may have to do.
LateForm(j) ==
  \/ j.op = "remove"
  \/ j.todo \in Seq(Calm)
  \/ j.todo \in Uploading(Seq(Calm)) /\ TypeOf[j.d] \in FinalTypes

-----------------------------------------------------------------------------
(* Requests that begin.                                                    *)

Begun(w, c) ==
  /\ UNCHANGED <<stage, channel, createdBy, paid, login, row, object, history>>
  /\ job[w] = Idle
  /\ \A v \in Worker \ {w} : job'[v] = job[v]
  /\ job'[w].co = c /\ job'[w].known = {} /\ job'[w].ver = 1
  /\ job'[w].late = (stage[c] = "ACTIVE")
  /\ job'[w].todo # <<>> /\ Form(job'[w])
  /\ job'[w].todo \in Uploading(Seq(Tame)) => Fresh(job'[w].d)
  /\ job'[w].todo \notin ByServer(Seq(Tame))
  /\ job'[w].op = "remove" => /\ job'[w].todo = RemovalSteps /\ job'[w].st = login[c]
                              /\ stage[c] # Gone
  /\ job'[w].op = "kyc" => stage[c] # "PAYMENT_PENDING"
  /\ stage[c] = "ACTIVE" => LateForm(job'[w])

\* No company comes back to its first stage, and none that an aggregator brings waits for
\* a payment.
Early == \A c \in Company : /\ stage[c] # "ADMIN_CREATED"
                            /\ stage[c] = "PAYMENT_PENDING" => createdBy[c] = "ADMIN"

BegunAs(w, op, c, d, st, steps) ==
  /\ UNCHANGED <<stage, channel, createdBy, paid, login, row, object, history>>
  /\ job[w] = Idle
  /\ \A v \in Worker \ {w} : job'[v] = job[v]
  /\ job'[w].op = op /\ job'[w].co = c /\ job'[w].d = d /\ job'[w].st = st
  /\ job'[w].todo = steps /\ job'[w].known = {} /\ job'[w].ver = 1
  /\ job'[w].late = (stage[c] = "ACTIVE")

LEMMA BeginsAs ==
  ASSUME NEW w \in Worker, NEW op, NEW c \in Company, NEW d, NEW st, NEW steps,
         IInv, Begin(w, op, c, d, st, steps)
  PROVE  BegunAs(w, op, c, d, st, steps)
<1> DEFINE new == [op |-> op, co |-> c, d |-> d, todo |-> steps, ver |-> 1, known |-> {},
                   st |-> st, late |-> stage[c] = "ACTIVE"]
<1>1. /\ job' = [job EXCEPT ![w] = new] /\ job[w] = Idle
      /\ UNCHANGED <<stage, channel, createdBy, paid, login, row, object, history>>
  BY DEF Begin
<1>2. job'[w] = new /\ \A v \in Worker \ {w} : job'[v] = job[v]
  BY <1>1 DEF IInv, Typed, JobsOK
<1> QED BY <1>1, <1>2 DEF BegunAs

LEMMA UploadBegins ==
  ASSUME NEW w \in Worker, NEW op \in {"kyc", "other"}, NEW c \in Company, NEW d \in Doc,
         NEW st \in DocumentStatus, NEW steps \in Opening(Seq(Tame)),
         IInv, Begin(w, op, c, d, st, steps), Fresh(d),
         op = "kyc" => steps \in Opening({KycMoves}) /\ stage[c] # "PAYMENT_PENDING",
         TypeOf[d] \in KycTypes => op = "kyc",
         stage[c] = "ACTIVE" => steps \in Opening(Seq(Calm)) /\ TypeOf[d] \in FinalTypes
  PROVE  Begun(w, c)
<1>0. BegunAs(w, op, c, d, st, steps)
  BY BeginsAs
<1>1. /\ steps # <<>> /\ steps \in Uploading(Seq(Tame)) /\ steps \notin ByServer(Seq(Tame))
      /\ \A T : steps \in Opening(T) => steps \in Uploading(T)
  BY FormsApart, Openings
<1>2. /\ job'[w].op = op /\ job'[w].d = d /\ job'[w].st = st /\ job'[w].todo = steps
  BY <1>0 DEF BegunAs
<1>3. Form(job'[w])
  BY <1>1, <1>2 DEF Form
<1>4. stage[c] = "ACTIVE" => LateForm(job'[w])
  BY <1>1, <1>2 DEF LateForm
<1> QED BY <1>1, <1>2, <1>3, <1>4, <1>0 DEF Begun, BegunAs

LEMMA TameBegins ==
  ASSUME NEW w \in Worker, NEW op \in {"other", "activate"}, NEW c \in Company, NEW d,
         NEW st, NEW steps \in Seq(Tame) \ {<<>>},
         IInv, Begin(w, op, c, d, st, steps),
         stage[c] = "ACTIVE" => steps \in Seq(Calm)
  PROVE  Begun(w, c)
<1>0. BegunAs(w, op, c, d, st, steps)
  BY BeginsAs
<1>1. steps \notin Uploading(Seq(Tame)) \cup Judging \cup ByServer(Seq(Tame))
  BY FormsApart DEF Uploading, ByServer
<1>2. /\ job'[w].op = op /\ job'[w].todo = steps
  BY <1>0 DEF BegunAs
<1>3. Form(job'[w])
  BY <1>1, <1>2 DEF Form
<1>4. stage[c] = "ACTIVE" => LateForm(job'[w])
  BY <1>2 DEF LateForm
<1> QED BY <1>1, <1>2, <1>3, <1>4, <1>0 DEF Begun, BegunAs

LEMMA JudgingBegins ==
  ASSUME NEW w \in Worker, NEW op \in {"other", "review", "approve"}, NEW c \in Company,
         NEW d, NEW st \in DocumentStatus, NEW steps \in Judging,
         IInv, Begin(w, op, c, d, st, steps), stage[c] # "ACTIVE"
  PROVE  Begun(w, c)
<1>0. BegunAs(w, op, c, d, st, steps)
  BY BeginsAs
<1>1. steps # <<>> /\ steps \notin Uploading(Seq(Tame)) \cup ByServer(Seq(Tame))
  BY FormsApart DEF Uploading, ByServer
<1>2. /\ job'[w].op = op /\ job'[w].st = st /\ job'[w].todo = steps
  BY <1>0 DEF BegunAs
<1>3. Form(job'[w])
  BY <1>1, <1>2 DEF Form
<1> QED BY <1>1, <1>2, <1>3, <1>0 DEF Begun, BegunAs

LEMMA RemovalBegins ==
  ASSUME NEW w \in Worker, NEW c \in Company, IInv, remove(w, c)
  PROVE  Begun(w, c)
<1>1. /\ RemovalSteps \in Removals /\ RemovalSteps # <<>> /\ Head(RemovalSteps).do = "unlink"
  BY DEF Removals, RemovalSteps, Do
<1>2. RemovalSteps \notin Uploading(Seq(Tame)) \cup Judging \cup ByServer(Seq(Tame))
  BY <1>1, FormsApart DEF Uploading, ByServer
<1>3. Begin(w, "remove", c, "none", login[c], RemovalSteps) /\ stage[c] # Gone
  BY DEF remove
<1>0. BegunAs(w, "remove", c, "none", login[c], RemovalSteps)
  BY <1>3, BeginsAs
<1>4. job'[w].op = "remove" /\ job'[w].st = login[c] /\ job'[w].todo = RemovalSteps
  BY <1>0 DEF BegunAs
<1>5. Form(job'[w]) /\ LateForm(job'[w])
  BY <1>1, <1>2, <1>4 DEF Form, LateForm
<1> QED BY <1>1, <1>2, <1>3, <1>4, <1>5, <1>0 DEF Begun, BegunAs

LEMMA UploadsBegin ==
  ASSUME NEW w \in Worker, NEW c \in Company, NEW d \in Doc, IInv, Early, Upload(w, c, d)
  PROVE  Begun(w, c)
<1> DEFINE T == Seq(Tame)
           K == {KycMoves}
<1>1. /\ T \in SUBSET Seq(AStep) /\ K \in SUBSET Seq(AStep) /\ K \in SUBSET T
      /\ <<>> \in T /\ KycMoves \in T /\ KycMoves \in K
      /\ Doc \in SUBSET DocOrNone /\ {} \in SUBSET DocOrNone
  BY TameLists DEF DocOrNone
<1>2. Opening(K) \subseteq Opening(T)
  BY <1>1, UploadsMonotone
<1>3. confirmSteps \in T /\ draftSharedSteps \in T /\ <<onFinalAgreementShared>> \in T
      /\ <<onSignedAgreementReceived>> \in T /\ onSignedAgreementReceived \in AStep
  BY TameLists, TameMoves, TameTyped, StagesNamed, MovesTyped DEF confirmSteps, draftSharedSteps
<1>4. {"REVIEW_PENDING", "APPROVED"} \subseteq DocumentStatus
  BY DEF DocumentStatus
<1>5. TypeOf[d] \in {"AGREEMENT_SIGNED", "AGREEMENT_DRAFT"} \cup FinalTypes => TypeOf[d] \notin KycTypes
  BY DEF FinalTypes, KycTypes
<1> HIDE DEF T, K
<1>6. ASSUME NEW st \in {"REVIEW_PENDING", "APPROVED"}, NEW steps \in Opening(T), Fresh(d),
             Begin(w, "other", c, d, st, steps), TypeOf[d] \notin KycTypes,
             stage[c] # "ACTIVE"
      PROVE  Begun(w, c)
  BY <1>4, <1>6, UploadBegins DEF T
<1>7. ASSUME NEW steps \in Opening(K), Fresh(d),
             Begin(w, "kyc", c, d, "REVIEW_PENDING", steps),
             stage[c] \notin {"ACTIVE", "PAYMENT_PENDING"}
      PROVE  Begun(w, c)
  BY <1>2, <1>4, <1>7, UploadBegins DEF T, K
<1>8. CASE generateUploadUrl(w, c, d)
  <2>1. PICK S \in {{}} \cup {{e} : e \in DocsLike(c, TypeOf[d])} :
          Begin(w, ClientOp(d), c, d, "REVIEW_PENDING",
             (IF S = {} THEN <<>> ELSE <<Version(S)>>) \o <<Insert("presigned")>> \o
               (IF TypeOf[d] = "AGREEMENT_SIGNED" THEN <<>> ELSE KycMoves))
    BY <1>8 DEF generateUploadUrl
  <2>2. /\ Fresh(d) /\ TypeOf[d] \in KycTypes \cup {"AGREEMENT_SIGNED"}
        /\ stage[c] \in ClientStages(TypeOf[d])
    BY <1>8 DEF generateUploadUrl
  <2>3. stage[c] \notin {"ACTIVE", "PAYMENT_PENDING"}
    BY <2>2 DEF ClientStages
  <2>4. S \in SUBSET DocOrNone
    BY DEF DocsLike, DocsOf, IInv, Typed
  <2>5. ASSUME NEW U \in SUBSET Seq(AStep), NEW t \in U
        PROVE  (IF S = {} THEN <<>> ELSE <<Version(S)>>) \o <<Insert("presigned")>> \o t
                 \in Opening(U)
    <3>1. CASE S = {}
      <4>1. <<>> \o <<Insert("presigned")>> = <<Insert("presigned")>>
        BY StepsTyped, ListsTyped, ConcatEmptySeq
      <4>2. <<Insert("presigned")>> \o t \in Presigned(U)
        BY UploadForms
      <4> QED BY <3>1, <4>1, <4>2 DEF Opening, Presigned
    <3>2. CASE S # {}
      <4>1. (<<Version(S)>> \o <<Insert("presigned")>>) \o t \in Versions(U)
        BY <2>4, UploadForms
      <4> QED BY <3>2, <4>1 DEF Opening
    <3> QED BY <3>1, <3>2
  <2>6. CASE TypeOf[d] = "AGREEMENT_SIGNED"
    <3>1. ClientOp(d) = "other"
      BY <1>5, <2>6 DEF ClientOp
    <3>2. (IF S = {} THEN <<>> ELSE <<Version(S)>>) \o <<Insert("presigned")>> \o <<>> \in Opening(T)
      BY <1>1, <2>5
    <3> QED BY <1>5, <1>6, <2>1, <2>2, <2>3, <2>6, <3>1, <3>2
  <2>7. CASE TypeOf[d] \in KycTypes
    <3>1. ClientOp(d) = "kyc" /\ TypeOf[d] # "AGREEMENT_SIGNED"
      BY <2>7 DEF ClientOp, KycTypes
    <3>2. (IF S = {} THEN <<>> ELSE <<Version(S)>>) \o <<Insert("presigned")>> \o KycMoves
            \in Opening(K)
      BY <1>1, <2>5
    <3> QED BY <1>7, <2>1, <2>2, <2>3, <3>1, <3>2
  <2> QED BY <2>2, <2>6, <2>7
<1>9. CASE uploadDocumentProxy(w, c, d)
  <2>1. /\ Fresh(d) /\ TypeOf[d] \in KycTypes \cup {"AGREEMENT_SIGNED"}
        /\ stage[c] \in ClientStages(TypeOf[d])
        /\ Begin(w, ClientOp(d), c, d, "REVIEW_PENDING",
                 <<Do("put"), Insert("server")>> \o
                   (IF TypeOf[d] = "AGREEMENT_SIGNED" THEN confirmSteps ELSE KycMoves))
    BY <1>9 DEF uploadDocumentProxy
  <2>2. stage[c] \notin {"ACTIVE", "PAYMENT_PENDING"}
    BY <2>1 DEF ClientStages
  <2>3. /\ <<Do("put"), Insert("server")>> \o confirmSteps \in Opening(T)
        /\ <<Do("put"), Insert("server")>> \o KycMoves \in Opening(K)
    BY <1>1, <1>3, UploadForms DEF Opening
  <2>4. CASE TypeOf[d] = "AGREEMENT_SIGNED"
    <3>1. ClientOp(d) = "other"
      BY <1>5, <2>4 DEF ClientOp
    <3> QED BY <1>5, <1>6, <2>1, <2>2, <2>3, <2>4, <3>1
  <2>5. CASE TypeOf[d] \in KycTypes
    <3>1. ClientOp(d) = "kyc" /\ TypeOf[d] # "AGREEMENT_SIGNED"
      BY <2>5 DEF ClientOp, KycTypes
    <3> QED BY <1>7, <2>1, <2>2, <2>3, <3>1
  <2> QED BY <2>1, <2>4, <2>5
<1>10. CASE uploadAggregatorKycProxy(w, c, d)
  <2>1. <<Do("put"), Insert("server")>> \o KycMoves \in Opening(K)
    BY <1>1, UploadForms DEF Opening
  <2>2. stage[c] \notin {"ACTIVE", "PAYMENT_PENDING"}
    BY <1>10 DEF uploadAggregatorKycProxy, OwnClient, NotActive, Early
  <2> QED BY <1>7, <1>10, <2>1, <2>2 DEF uploadAggregatorKycProxy
<1>11. CASE uploadAggregatorSignedAgreementProxy(w, c, d)
  <2>1. <<Version(Doc), Do("put"), Insert("server"), onSignedAgreementReceived>> \in Opening(T)
    BY <1>1, <1>3, UploadLists DEF Opening
  <2> QED BY <1>5, <1>6, <1>11, <2>1 DEF uploadAggregatorSignedAgreementProxy
<1>12. CASE generateAdminAgreementDraftUploadUrl(w, c, d)
  <2>1. <<Version(Doc), Insert("presigned")>> \in Opening(T)
    BY <1>1, UploadLists DEF Opening
  <2>2. stage[c] # "ACTIVE"
    BY <1>12 DEF generateAdminAgreementDraftUploadUrl, DraftStages
  <2> QED BY <1>5, <1>6, <1>12, <2>1, <2>2 DEF generateAdminAgreementDraftUploadUrl
<1>13. CASE uploadAdminAgreementDraftProxy(w, c, d)
  <2>1. <<Version(Doc), Do("put"), Insert("server")>> \o draftSharedSteps \in Opening(T)
    BY <1>1, <1>3, UploadForms DEF Opening
  <2>2. stage[c] # "ACTIVE"
    BY <1>13 DEF uploadAdminAgreementDraftProxy, DraftStages
  <2> QED BY <1>5, <1>6, <1>13, <2>1, <2>2 DEF uploadAdminAgreementDraftProxy
<1>14. CASE generateAgreementDraftFromTemplate(w, c, d)
  <2>1. <<Version(Doc), Do("put"), Insert("server")>> \in Opening(T)
    BY <1>1, UploadLists DEF Opening
  <2>2. stage[c] # "ACTIVE"
    BY <1>14 DEF generateAgreementDraftFromTemplate, TemplateStages
  <2> QED BY <1>5, <1>6, <1>14, <2>1, <2>2 DEF generateAgreementDraftFromTemplate
<1> DEFINE C == Seq(Calm)
<1>15. /\ C \in SUBSET Seq(AStep) /\ <<>> \in C /\ <<onFinalAgreementShared>> \in C
       /\ Opening(C) \subseteq Opening(T)
  BY <1>1, CalmLists, TameLists, UploadsMonotone DEF T
<1> HIDE DEF C
<1>16. ASSUME NEW steps \in Opening(C), Fresh(d), TypeOf[d] \in FinalTypes,
              Begin(w, "other", c, d, "APPROVED", steps)
       PROVE  Begun(w, c)
  BY <1>4, <1>5, <1>15, <1>16, UploadBegins DEF T, C
<1>17. CASE generateAdminAgreementFinalUploadUrl(w, c, d)
  <2>1. <<Version(Doc), Insert("presigned")>> \in Opening(C)
    BY <1>1, <1>15, UploadLists DEF Opening
  <2> QED BY <1>16, <1>17, <2>1 DEF generateAdminAgreementFinalUploadUrl
<1>18. CASE uploadAdminAgreementFinalProxy(w, c, d)
  <2>1. <<Version(Doc), Do("put"), Insert("server")>> \o
          (IF TypeOf[d] = "AGREEMENT_FINAL" THEN <<onFinalAgreementShared>> ELSE <<>>)
            \in Opening(C)
    BY <1>1, <1>15, UploadForms DEF Opening
  <2> QED BY <1>16, <1>18, <2>1 DEF uploadAdminAgreementFinalProxy
<1> QED BY <1>8, <1>9, <1>10, <1>11, <1>12, <1>13, <1>14, <1>17, <1>18 DEF Upload

LEMMA Transitions ==
  ASSUME NEW from, NEW to, CanTransition(from, to)
  PROVE  /\ from # "ACTIVE" /\ from # "COMPLETED" /\ to # "ADMIN_CREATED"
         /\ from # "ADMIN_CREATED" => to \in Later
BY DEF CanTransition, AllowedTransitions, Later, Stage

LEMMA SharesBegin ==
  ASSUME NEW w \in Worker, NEW c \in Company, NEW d \in Doc, IInv, Share(w, c, d)
  PROVE  Begun(w, c)
<1>1. /\ {<<onSignedAgreementReceived>>, <<onAgreementDraftShared>>} \subseteq Seq(Tame) \ {<<>>}
      /\ <<onFinalAgreementShared>> \in Seq(Calm) /\ <<onFinalAgreementShared>> \in Seq(Tame) \ {<<>>}
  BY TameLists, TameMoves, CalmLists
<1>2. ASSUME NEW steps \in Seq(Tame) \ {<<>>}, Begin(w, "other", c, d, "none", steps),
             stage[c] = "ACTIVE" => steps \in Seq(Calm)
      PROVE  Begun(w, c)
  BY <1>2, TameBegins
<1>3. CASE confirmSignedAgreement(w, c, d)
  BY <1>1, <1>2, <1>3 DEF confirmSignedAgreement
<1>4. CASE notifyAgreementDraftShared(w, c, d)
  BY <1>1, <1>2, <1>4 DEF notifyAgreementDraftShared, NotActive
<1>5. CASE notifyAgreementFinalShared(w, c, d)
  BY <1>1, <1>2, <1>5 DEF notifyAgreementFinalShared
<1> QED BY <1>3, <1>4, <1>5 DEF Share

LEMMA JudgingLists ==
  /\ <<Do("status"), Do("direct?"), Do("approved?")>> \in Judging
  /\ <<Do("status"), Do("approved?")>> \in Judging
  /\ <<Do("status"), Must("KYC_IN_PROGRESS")>> \in Judging
  /\ <<Do("status"), Must("KYC_REVIEW")>> \in Judging
<1>1. ASSUME NEW s \in AStep, NEW a \in Tame, NEW b \in Tame, s.do = "status"
      PROVE  <<s, a>> \in Judging /\ <<s, a, b>> \in Judging
  <2>1. a \in AStep /\ b \in AStep /\ <<a>> \in Seq(Tame) /\ <<a, b>> \in Seq(Tame)
    BY TameSteps, TameLists
  <2>2. <<s, a>> \in Seq(AStep) /\ <<s, a, b>> \in Seq(AStep)
    BY <2>1, ListsTyped
  <2>3. <<s, a>> # <<>> /\ Head(<<s, a>>) = s /\ Tail(<<s, a>>) = <<a>>
    OBVIOUS
  <2>4. <<s, a, b>> # <<>> /\ Head(<<s, a, b>>) = s /\ Tail(<<s, a, b>>) = <<a, b>>
    OBVIOUS
  <2> DEFINE p == <<s, a>>
             q == <<s, a, b>>
  <2>5. /\ p \in Seq(AStep) /\ p # <<>> /\ Head(p) = s /\ Tail(p) \in Seq(Tame)
        /\ q \in Seq(AStep) /\ q # <<>> /\ Head(q) = s /\ Tail(q) \in Seq(Tame)
    BY <2>1, <2>2, <2>3, <2>4
  <2> HIDE DEF p, q
  <2>6. p \in Judging /\ q \in Judging
    BY <1>1, <2>5 DEF Judging
  <2> QED BY <2>6 DEF p, q
<1>2. Do("status") \in AStep /\ Do("status").do = "status"
  BY StepsTyped DEF Do
<1> QED BY <1>1, <1>2, TameTyped, LaterNamed

LEMMA ReviewsBegin ==
  ASSUME NEW w \in Worker, NEW d \in Doc, IInv, Review(w, d)
  PROVE  row[d].co \in Company /\ Begun(w, row[d].co)
<1>1. row[d].co \in Company
  BY DEF Review, reviewDocument, approveKycDocument, rejectKycDocument, KycForReview,
         pendingWithClientKycDocument, pendingWithAdminKycDocument, IInv, Typed, RowOK
<1>2. ASSUME NEW op \in {"other", "review", "approve"}, NEW st \in DocumentStatus,
             NEW steps \in Judging, Begin(w, op, row[d].co, d, st, steps),
             stage[row[d].co] # "ACTIVE"
      PROVE  Begun(w, row[d].co)
  BY <1>1, <1>2, JudgingBegins
<1>3. {"APPROVED", "REJECTED", "PENDING_WITH_CLIENT", "PENDING_WITH_ADMIN"} \cup Verdict
        \subseteq DocumentStatus
  BY DocumentsAssumption DEF DocumentStatus
<1>4. ASSUME NEW v \in Verdict, reviewDocument(w, d, v)
      PROVE  Begun(w, row[d].co)
  BY <1>2, <1>3, <1>4, JudgingLists DEF reviewDocument, ReviewStages
<1>5. CASE approveKycDocument(w, d)
  BY <1>1, <1>2, <1>3, <1>5, JudgingLists DEF approveKycDocument, KycForReview
<1>6. CASE rejectKycDocument(w, d)
  BY <1>1, <1>2, <1>3, <1>6, JudgingLists DEF rejectKycDocument, KycForReview
<1>7. CASE pendingWithClientKycDocument(w, d)
  BY <1>1, <1>2, <1>3, <1>7, JudgingLists DEF pendingWithClientKycDocument, KycForReview
<1>8. CASE pendingWithAdminKycDocument(w, d)
  BY <1>1, <1>2, <1>3, <1>8, JudgingLists DEF pendingWithAdminKycDocument, KycForReview
<1> QED BY <1>1, <1>4, <1>5, <1>6, <1>7, <1>8 DEF Review

LEMMA ManagesBegin ==
  ASSUME NEW w \in Worker, NEW c \in Company, IInv, Early, Manage(w, c)
  PROVE  Begun(w, c)
<1>1. ASSUME NEW op \in {"other", "activate"}, NEW st, NEW steps \in Seq(Tame) \ {<<>>},
             Begin(w, op, c, "none", st, steps), stage[c] = "ACTIVE" => steps \in Seq(Calm)
      PROVE  Begun(w, c)
  BY <1>1, TameBegins
<1>2. CASE submitKycForReview(w, c)
  <2>1. <<moveToKycReviewAfterUpload>> \in Seq(Tame) \ {<<>>}
    BY TameLists, TameMoves
  <2> QED BY <1>1, <1>2, <2>1 DEF submitKycForReview
<1>3. ASSUME NEW to \in Patch, updateStageByAdmin(w, c, to) \/ updateStatus(w, c, to)
      PROVE  Begun(w, c)
  <2>1. CanTransition(stage[c], to) /\ Begin(w, "other", c, "none", "none", <<Write(to)>>)
    BY <1>3 DEF updateStageByAdmin, updateStatus
  <2>2. to \in Later /\ stage[c] # "ACTIVE"
    BY <2>1, Transitions DEF Early
  <2>3. <<Write(to)>> \in Seq(Tame) \ {<<>>}
    BY <2>2, TameLists, TameTyped
  <2> QED BY <1>1, <2>1, <2>2, <2>3
<1>4. ASSUME NEW to \in Patch \cup {"same"}, NEW ch \in Redirect \cup {channel[c]},
             update(w, c, to, ch)
      PROVE  Begun(w, c)
  <2> DEFINE steps == (IF to = "same" THEN <<>> ELSE <<Check(Stage \ {"ACTIVE"})>>) \o <<Save(to, ch)>>
  <2>1. ch \in Channel /\ Begin(w, "other", c, "none", "none", steps)
    BY <1>4, DocumentsAssumption DEF update, IInv, Typed
  <2>2. CASE to = "same"
    <3>1. <<Save(to, ch)>> \in Seq(Calm) /\ <<Save(to, ch)>> \in Seq(Tame) \ {<<>>}
      BY <2>1, <2>2, CalmLists
    <3>2. steps = <<Save(to, ch)>>
      BY <2>2, <3>1, ConcatEmptySeq
    <3> HIDE DEF steps
    <3> QED BY <1>1, <2>1, <3>1, <3>2
  <2>3. CASE to # "same"
    <3>1. CanTransition(stage[c], to)
      BY <1>4, <2>3 DEF update
    <3>2. to \in Later /\ stage[c] # "ACTIVE"
      BY <3>1, Transitions DEF Early
    <3>3. Save(to, ch) \in Tame /\ Check(Stage \ {"ACTIVE"}) \in Tame
      BY <2>1, <3>2, TameTyped
    <3>4. <<Check(Stage \ {"ACTIVE"})>> \o <<Save(to, ch)>> \in Seq(Tame) \ {<<>>}
      BY <3>3, TameLists, TameSteps, Peel
    <3>5. steps \in Seq(Tame) \ {<<>>}
      BY <2>3, <3>4
    <3> HIDE DEF steps
    <3> QED BY <1>1, <2>1, <3>2, <3>5
  <2> QED BY <2>2, <2>3
<1>5. CASE confirmPayment(w, c)
  <2>1. <<Must("KYC_IN_PROGRESS")>> \in Seq(Tame) \ {<<>>}
    BY TameLists, TameTyped, LaterNamed
  <2> QED BY <1>1, <1>5, <2>1 DEF confirmPayment
<1>6. ASSUME NEW dates \in {"dated", "none"}, activateCompany(w, c, dates)
      PROVE  Begun(w, c)
  <2>1. ActivationSteps \in Seq(Tame) \ {<<>>}
    BY TameLists, ActivationLists
  <2>2. stage[c] # "ACTIVE" /\ Begin(w, "activate", c, "none", dates, ActivationSteps)
    BY <1>6 DEF activateCompany
  <2> QED BY <1>1, <2>1, <2>2
<1>7. CASE remove(w, c)
  BY <1>7, RemovalBegins
<1> QED BY <1>2, <1>3, <1>4, <1>5, <1>6, <1>7 DEF Manage

-----------------------------------------------------------------------------
(* Requests that go on.                                                    *)

\* A request has taken a step: it is over, or has the rest of its steps left, or the write
\* that a move asks for before them.
Went(w) ==
  /\ job[w].todo # <<>> /\ job[w].co \in Company
  /\ \A v \in Worker \ {w} : job'[v] = job[v]
  /\ job'[w].todo = <<>> => job'[w] = Idle
  /\ job'[w].todo # <<>> =>
       /\ job'[w].op = job[w].op /\ job'[w].co = job[w].co /\ job'[w].d = job[w].d
       /\ job'[w].st = job[w].st /\ job'[w].late = job[w].late
       /\ Now(w).do # "version" => job'[w].ver = job[w].ver /\ job'[w].known = job[w].known
  /\ \/ job'[w].todo \in {<<>>, Rest(w)}
     \/ Now(w).do \in {"move", "must"} /\ job'[w].todo = <<Write(Now(w).to)>> \o Rest(w)
     \/ Now(w).do = "approved?" /\ job'[w].todo = <<onKycApproved>>

LEMMA Goes ==
  ASSUME NEW w \in Worker, NEW steps, IInv, job[w].todo # <<>>, Continue(w, steps)
  PROVE  /\ job[w].co \in Company
         /\ \A v \in Worker \ {w} : job'[v] = job[v]
         /\ job'[w].todo = steps
         /\ steps = <<>> => job'[w] = Idle
         /\ steps # <<>> =>
              /\ job'[w].op = job[w].op /\ job'[w].co = job[w].co /\ job'[w].d = job[w].d
              /\ job'[w].st = job[w].st /\ job'[w].late = job[w].late
              /\ job'[w].ver = job[w].ver /\ job'[w].known = job[w].known
<1> DEFINE new == [job[w] EXCEPT !.todo = steps]
<1>1. /\ job'[w] = IF steps = <<>> THEN Idle ELSE new
      /\ \A v \in Worker \ {w} : job'[v] = job[v]
  BY DEF Continue, IInv, Typed, JobsOK
<1>2. JobOK(job[w])
  BY DEF IInv, Typed, JobsOK
<1>3. new = [op |-> job[w].op, co |-> job[w].co, d |-> job[w].d, todo |-> steps,
             ver |-> job[w].ver, known |-> job[w].known, st |-> job[w].st,
             late |-> job[w].late]
  BY <1>2 DEF JobOK, Shape
<1>4. job[w].co \in Company /\ Idle.todo = <<>>
  BY <1>2 DEF JobOK, Idle
<1> HIDE DEF new
<1>5. CASE steps = <<>>
  BY <1>1, <1>4, <1>5
<1>6. CASE steps # <<>>
  <2>1. job'[w] = new
    BY <1>1, <1>6
  <2> QED BY <1>1, <1>3, <1>4, <1>6, <2>1
<1> QED BY <1>5, <1>6

\* Every step leads there, and those that only look change nothing else.
Quiet == UNCHANGED <<stage, channel, createdBy, paid, login, row, object, history>>
Looks(w) == assertStage(w) \/ updateStageIfAllowed(w) \/ updateStage(w) \/ isDirect(w)
            \/ areAllKycDocumentsApproved(w) \/ canActivateCompany(w) \/ checkDates(w)

TameDo == {"direct?", "approved?", "backed?", "dated?", "check", "write", "must", "move", "save"}

LEMMA RemovalLists ==
  /\ \A s \in Removals : s # <<>> /\ Head(s).do \in {"unlink", "files", "drop", "users"}
  /\ \A s \in Removals : Head(s).do = "unlink" =>
       s = RemovalSteps /\ Tail(s) = <<Do("files"), Do("drop"), Do("users")>>
  /\ \A s \in Removals : Head(s).do = "files" =>
       /\ s = <<Do("files"), Do("drop"), Do("users")>>
       /\ Tail(s) = <<Do("drop"), Do("users")>>
  /\ \A s \in Removals : Head(s).do = "drop" =>
       s = <<Do("drop"), Do("users")>> /\ Tail(s) = <<Do("users")>>
  /\ \A s \in Removals : Head(s).do = "users" => s = <<Do("users")>> /\ Tail(s) = <<>>
  /\ RemovalSteps # <<Do("files"), Do("drop"), Do("users")>>
  /\ RemovalSteps # <<Do("drop"), Do("users")>> /\ RemovalSteps # <<Do("users")>>
<1>1. /\ Head(RemovalSteps).do = "unlink" /\ RemovalSteps # <<>>
      /\ Tail(RemovalSteps) = <<Do("files"), Do("drop"), Do("users")>>
  BY DEF RemovalSteps, Do
<1>2. /\ Head(<<Do("files"), Do("drop"), Do("users")>>).do = "files"
      /\ <<Do("files"), Do("drop"), Do("users")>> # <<>>
      /\ Tail(<<Do("files"), Do("drop"), Do("users")>>) = <<Do("drop"), Do("users")>>
  BY DEF Do
<1>3. /\ Head(<<Do("drop"), Do("users")>>).do = "drop" /\ <<Do("drop"), Do("users")>> # <<>>
      /\ Tail(<<Do("drop"), Do("users")>>) = <<Do("users")>>
  BY DEF Do
<1>4. /\ Head(<<Do("users")>>).do = "users" /\ <<Do("users")>> # <<>>
      /\ Tail(<<Do("users")>>) = <<>>
  BY DEF Do
<1> DEFINE a == <<Do("files"), Do("drop"), Do("users")>>
           b == <<Do("drop"), Do("users")>>
           c == <<Do("users")>>
<1>5. Removals = {RemovalSteps, a, b, c}
  BY DEF Removals
<1> HIDE DEF a, b, c
<1>6. /\ Head(a).do = "files" /\ Head(b).do = "drop" /\ Head(c).do = "users"
      /\ a # <<>> /\ b # <<>> /\ c # <<>>
      /\ Tail(a) = b /\ Tail(b) = c /\ Tail(c) = <<>> /\ Tail(RemovalSteps) = a
  BY <1>1, <1>2, <1>3, <1>4 DEF a, b, c
<1>7. /\ \A s \in Removals : s # <<>> /\ Head(s).do \in {"unlink", "files", "drop", "users"}
      /\ \A s \in Removals : Head(s).do = "unlink" => s = RemovalSteps /\ Tail(s) = a
      /\ \A s \in Removals : Head(s).do = "files" => s = a /\ Tail(s) = b
      /\ \A s \in Removals : Head(s).do = "drop" => s = b /\ Tail(s) = c
      /\ \A s \in Removals : Head(s).do = "users" => s = c /\ Tail(s) = <<>>
      /\ RemovalSteps # a /\ RemovalSteps # b /\ RemovalSteps # c
  BY <1>1, <1>5, <1>6
<1> QED BY <1>7 DEF a, b, c

\* What its first step tells of a request.
LEMMA HeadForms ==
  ASSUME NEW w \in Worker, IInv, Form(job[w]), job[w].todo # <<>>
  PROVE  /\ Now(w).do \in {"version", "put", "row"} =>
              job[w].op # "remove" /\ job[w].todo \in Uploading(Seq(Tame))
         /\ Now(w).do = "status" => job[w].op # "remove" /\ job[w].todo \in Judging
         /\ Now(w).do \in TameDo => job[w].op # "remove" /\ job[w].todo \in Seq(Tame)
         /\ Now(w).do \in {"unlink", "files", "drop", "users"} =>
              job[w].op = "remove" /\ job[w].todo \in Removals
<1>1. CASE job[w].op = "remove"
  BY <1>1, RemovalLists DEF Form, TameDo, Now
<1>2. CASE job[w].op # "remove"
  BY <1>2, FormsApart DEF Form, TameDo, Now
<1> QED BY <1>1, <1>2

LEMMA VersionsRead ==
  ASSUME NEW w \in Worker, IInv, Form(job[w]), ReadVersion(w)
  PROVE  /\ Went(w) /\ Now(w).do = "version" /\ job'[w].todo = Rest(w) /\ Quiet
         /\ Rest(w) # <<>>
         /\ job'[w].known = DocsLike(job[w].co, TypeOf[job[w].d]) \cap Now(w).among
         /\ job'[w].ver \in VersionAfter(job'[w].known)
<1> DEFINE S == DocsLike(job[w].co, TypeOf[job[w].d]) \cap Now(w).among
<1>1. PICK v \in VersionAfter(S) :
        job' = [job EXCEPT ![w].todo = Rest(w), ![w].known = S, ![w].ver = v]
  BY DEF ReadVersion
<1>2. job[w].todo # <<>> /\ Now(w).do = "version" /\ Quiet
  BY DEF ReadVersion, At, Now, Quiet
<1>3. Rest(w) # <<>>
  <2>1. job[w].todo \in Uploading(Seq(Tame))
    BY <1>2, HeadForms
  <2>2. Rest(w) \in Puts(Seq(Tame)) \cup Presigned(Seq(Tame))
    BY <1>2, <2>1, UploadsGoOn DEF Now, Rest
  <2> QED BY <2>2 DEF Puts, Presigned, Inserts
<1>4. job[w].co \in Company /\ JobOK(job[w])
  BY <1>2, Heads DEF IInv, Typed, JobsOK
<1> HIDE DEF S
<1>5. \A u \in Worker \ {w} : job'[u] = job[u]
  BY <1>1 DEF IInv, Typed, JobsOK
<1> DEFINE j1 == [job[w] EXCEPT !.todo = Rest(w)]
           j2 == [j1 EXCEPT !.known = S]
           j3 == [j2 EXCEPT !.ver = v]
<1>6. job'[w] = j3
  BY <1>1 DEF IInv, Typed, JobsOK, JobOK
<1>7. Shape(j1) /\ j1 = [op |-> job[w].op, co |-> job[w].co, d |-> job[w].d,
                         todo |-> Rest(w), ver |-> job[w].ver, known |-> job[w].known,
                         st |-> job[w].st, late |-> job[w].late]
  BY <1>4 DEF JobOK, Shape
<1> HIDE DEF j1
<1>8. Shape(j2) /\ j2 = [op |-> j1.op, co |-> j1.co, d |-> j1.d, todo |-> j1.todo,
                         ver |-> j1.ver, known |-> S, st |-> j1.st, late |-> j1.late]
  BY <1>7 DEF Shape
<1> HIDE DEF j2
<1>9. j3 = [op |-> j2.op, co |-> j2.co, d |-> j2.d, todo |-> j2.todo,
            ver |-> v, known |-> j2.known, st |-> j2.st, late |-> j2.late]
  BY <1>8 DEF Shape
<1> HIDE DEF j3
<1>10. /\ job'[w].op = job[w].op /\ job'[w].co = job[w].co /\ job'[w].d = job[w].d
       /\ job'[w].st = job[w].st /\ job'[w].late = job[w].late
       /\ job'[w].todo = Rest(w) /\ job'[w].known = S /\ job'[w].ver = v
  BY <1>6, <1>7, <1>8, <1>9
<1>11. Went(w)
  BY <1>2, <1>3, <1>4, <1>5, <1>10 DEF Went
<1> QED BY <1>2, <1>3, <1>10, <1>11 DEF S

LEMMA Looking ==
  ASSUME NEW w \in Worker, IInv, Looks(w)
  PROVE  Went(w) /\ Quiet /\ Now(w).do \in TameDo \ {"write", "save"}
<1>1. job[w].todo # <<>> /\ Quiet /\ Now(w).do \in TameDo \ {"write", "save"}
  BY DEF Looks, assertStage, updateStageIfAllowed, updateStage, isDirect,
         areAllKycDocumentsApproved, canActivateCompany, checkDates, At, Now, Quiet, TameDo
<1>2. PICK steps : Continue(w, steps)
                   /\ \/ steps \in {<<>>, Rest(w)}
                      \/ Now(w).do \in {"move", "must"} /\ steps = <<Write(Now(w).to)>> \o Rest(w)
                      \/ Now(w).do = "approved?" /\ steps = <<onKycApproved>>
  <2>1. CASE assertStage(w) \/ isDirect(w) \/ canActivateCompany(w) \/ checkDates(w)
    <3>1. Continue(w, <<>>) \/ Continue(w, Rest(w))
      BY <2>1 DEF assertStage, isDirect, canActivateCompany, checkDates
    <3> QED BY <3>1
  <2>2. CASE updateStageIfAllowed(w) \/ updateStage(w)
    <3>1. /\ Now(w).do \in {"move", "must"}
          /\ \/ Continue(w, <<>>) \/ Continue(w, Rest(w))
             \/ Continue(w, <<Write(Now(w).to)>> \o Rest(w))
      BY <2>2 DEF updateStageIfAllowed, updateStage, At, Now
    <3> QED BY <3>1
  <2>3. CASE areAllKycDocumentsApproved(w)
    <3>1. /\ Now(w).do = "approved?"
          /\ Continue(w, <<>>) \/ Continue(w, <<onKycApproved>>)
      BY <2>3 DEF areAllKycDocumentsApproved, At, Now
    <3> QED BY <3>1
  <2> QED BY <2>1, <2>2, <2>3 DEF Looks
<1>3. Went(w)
  BY <1>1, <1>2, Goes DEF Went
<1> QED BY <1>1, <1>3

\* The other steps end the request or go on with the rest.
Does(w) == PutObject(w) \/ InsertRow(w) \/ writeStage(w) \/ UpdateStatus(w) \/ saveProfile(w)
           \/ disconnectUsers(w) \/ deleteFiles(w) \/ deleteClientProfile(w) \/ deleteUsers(w)

LEMMA Doing ==
  ASSUME NEW w \in Worker, IInv, Does(w)
  PROVE  Went(w) /\ job'[w].todo \in {<<>>, Rest(w)}
<1>1. job[w].todo # <<>> /\ (Continue(w, <<>>) \/ Continue(w, Rest(w)))
  BY DEF Does, PutObject, InsertRow, writeStage, UpdateStatus, saveProfile, disconnectUsers,
         deleteFiles, deleteClientProfile, deleteUsers, At
<1> QED BY <1>1, Goes DEF Went

LEMMA StepsGo ==
  ASSUME NEW w \in Worker, IInv, Form(job[w]), Step(w)
  PROVE  Went(w) /\ (ReadVersion(w) \/ Looks(w) \/ Does(w))
BY VersionsRead, Looking, Doing DEF Step, Looks, Does

LEMMA Pairs == \A a, b \in AStep : <<a>> \o <<b>> = <<a, b>>
<1> SUFFICES ASSUME NEW a \in AStep, NEW b \in AStep
             PROVE  <<a>> \o <<b>> = <<a, b>>
  OBVIOUS
<1>1. <<a>> \in Seq(AStep) /\ <<b>> \in Seq(AStep) /\ <<a, b>> \in Seq(AStep)
  BY ListsTyped
<1> DEFINE s == <<a>>
           t == <<b>>
           p == s \o t
           q == <<a, b>>
<1>2. s \in Seq(AStep) /\ t \in Seq(AStep) /\ Len(s) = 1 /\ Len(t) = 1 /\ s[1] = a /\ t[1] = b
  BY <1>1
<1>3. q \in Seq(AStep) /\ Len(q) = 2 /\ q[1] = a /\ q[2] = b
  BY <1>1
<1> HIDE DEF s, t, q
<1>4. p \in Seq(AStep) /\ Len(p) = 2 /\ p[1] = a /\ p[2] = b
  BY <1>2, ConcatProperties
<1> HIDE DEF p
<1>5. \A i \in 1 .. Len(p) : p[i] = q[i]
  BY <1>3, <1>4
<1>6. p = q
  BY <1>3, <1>4, <1>5, SeqEqual
<1> QED BY <1>6 DEF p, q, s, t

\* What is left of a list, by its form.
LEMMA LeftOf ==
  ASSUME NEW w \in Worker, IInv, Went(w)
  PROVE  /\ job[w].todo \in Seq(Tame) \cup Judging => job'[w].todo \in Seq(Tame)
         /\ job[w].todo \in Removals => job'[w].todo \in Removals \cup {<<>>}
         /\ job[w].todo \in KycLeft => job'[w].todo \in KycLeft \cup {<<>>}
         /\ \A T : job[w].todo \in Uploading(T) => job'[w].todo \in {<<>>, Rest(w)}
<1>1. CASE job[w].todo \in Seq(Tame)
  <2>1. Now(w) \in Tame /\ Rest(w) \in Seq(Tame)
    BY <1>1, TameLists DEF Went, Now, Rest
  <2>2. Now(w).do \in {"move", "must"} => Write(Now(w).to) \in Tame
    BY <2>1, TameTyped DEF Tame
  <2>3. job'[w].todo \in Seq(Tame)
    BY <2>1, <2>2, TameLists, TameMoves DEF Went
  <2>4. job[w].todo \notin Removals /\ \A T : job[w].todo \notin Uploading(T)
    BY <1>1, FormsApart, RemovalLists DEF Went
  <2>5. job[w].todo \in KycLeft => job'[w].todo \in KycLeft \cup {<<>>}
    <3> DEFINE move == moveToKycReviewAfterUpload
    <3>0. /\ onKycUploaded.do = "move" /\ onKycUploaded.to = "KYC_IN_PROGRESS"
          /\ move.do = "move" /\ move.to = "KYC_REVIEW"
          /\ Write("KYC_IN_PROGRESS").do = "write" /\ Write("KYC_REVIEW").do = "write"
      BY DEF onKycUploaded, moveToKycReviewAfterUpload, Move, Write
    <3> HIDE DEF move
    <3>1. CASE job[w].todo = KycMoves
      <4>1. Now(w) = onKycUploaded /\ Rest(w) = <<move>>
        BY <3>1 DEF KycMoves, Now, Rest, move
      <4>2. <<Write("KYC_IN_PROGRESS")>> \o <<move>> = <<Write("KYC_IN_PROGRESS"), move>>
        BY Pairs, StepsTyped, StagesNamed, MovesTyped DEF move
      <4> QED BY <3>0, <4>1, <4>2 DEF Went, KycLeft, move
    <3>2. CASE job[w].todo = <<Write("KYC_IN_PROGRESS"), move>>
      <4>1. Now(w) = Write("KYC_IN_PROGRESS") /\ Rest(w) = <<move>>
        BY <3>2 DEF Now, Rest
      <4> QED BY <3>0, <4>1 DEF Went, KycLeft, move
    <3>3. CASE job[w].todo = <<move>>
      <4>1. Now(w) = move /\ Rest(w) = <<>>
        BY <3>3 DEF Now, Rest
      <4>2. <<Write("KYC_REVIEW")>> \o <<>> = <<Write("KYC_REVIEW")>>
        OBVIOUS
      <4> QED BY <3>0, <4>1, <4>2 DEF Went, KycLeft
    <3>4. CASE job[w].todo = <<Write("KYC_REVIEW")>>
      <4>1. Now(w) = Write("KYC_REVIEW") /\ Rest(w) = <<>>
        BY <3>4 DEF Now, Rest
      <4> QED BY <3>0, <4>1 DEF Went
    <3> QED BY <3>1, <3>2, <3>3, <3>4 DEF KycLeft, move
  <2> QED BY <2>3, <2>4, <2>5
<1>2. CASE job[w].todo \notin Seq(Tame)
  <2>1. KycLeft \subseteq Seq(Tame)
    BY TameLists, TameMoves, TameTyped, LaterNamed DEF KycLeft
  <2>2. ASSUME NEW T, job[w].todo \in Uploading(T)
        PROVE  job'[w].todo \in {<<>>, Rest(w)} /\ job[w].todo \notin Removals \cup Judging
    BY <2>2, FormsApart, RemovalLists DEF Went, Now
  <2>3. ASSUME job[w].todo \in Judging
        PROVE  job'[w].todo \in Seq(Tame) /\ job[w].todo \notin Removals
    <3>1. Now(w).do = "status" /\ Rest(w) \in Seq(Tame)
      BY <2>3 DEF Judging, Now, Rest
    <3> QED BY <3>1, TameLists, RemovalLists DEF Went, Now
  <2>4. ASSUME job[w].todo \in Removals
        PROVE  job'[w].todo \in Removals \cup {<<>>}
    BY <2>4, RemovalLists DEF Went, Now, Rest, Removals
  <2> QED BY <1>2, <2>1, <2>2, <2>3, <2>4
<1> QED BY <1>1, <1>2

LEMMA IdleForm == Form(Idle)
BY TameLists, RemovalLists, FormsApart DEF Form, Idle

LEMMA FormGoesOn ==
  ASSUME NEW w \in Worker, IInv, Form(job[w]), Went(w)
  PROVE  Form(job'[w])
<1>1. CASE job'[w].todo = <<>>
  BY <1>1, IdleForm DEF Went
<1>2. CASE job'[w].todo # <<>>
  <2>1. /\ job'[w].op = job[w].op /\ job'[w].d = job[w].d /\ job'[w].st = job[w].st
    BY <1>2 DEF Went
  <2>2. CASE job[w].op = "remove"
    <3>1. job[w].todo \in Removals
      BY <2>2 DEF Form
    <3>2. job'[w].todo \in Removals
      BY <1>2, <3>1, LeftOf
    <3>3. job'[w].todo \notin Uploading(Seq(Tame)) \cup Judging
      BY <3>2, RemovalLists, FormsApart
    <3> QED BY <1>2, <2>1, <2>2, <3>2, <3>3 DEF Form
  <2>3. CASE job[w].op # "remove" /\ job[w].todo \in Seq(Tame) \cup Judging
    <3>1. job'[w].todo \in Seq(Tame)
      BY <2>3, LeftOf
    <3>2. job'[w].todo \notin Uploading(Seq(Tame)) \cup Judging
      BY <1>2, <3>1, FormsApart
    <3>3. job[w].todo \notin Uploading({KycMoves})
      BY <2>3, FormsApart DEF Went
    <3>4. job[w].op = "kyc" => job'[w].todo \in KycLeft
      BY <1>2, <3>3, LeftOf DEF Form
    <3> QED BY <1>2, <2>1, <2>3, <3>1, <3>2, <3>4 DEF Form
  <2>4. CASE job[w].op # "remove" /\ job[w].todo \in Uploading(Seq(Tame))
    <3>1. /\ job[w].d \in Doc /\ job[w].st \in DocumentStatus
          /\ TypeOf[job[w].d] \in KycTypes => job[w].op = "kyc"
      BY <2>4 DEF Form
    <3>2. job'[w].todo = Rest(w)
      BY <1>2, <2>4, LeftOf
    <3>3. ASSUME NEW T, job[w].todo \in Uploading(T)
          PROVE  job'[w].todo \in Uploading(T) \cup T
      BY <3>2, <3>3, UploadsGoOn, FormsApart DEF Rest, Uploading, ByServer, Presigned
    <3>4. job[w].op = "kyc" => job'[w].todo \in KycLeft \cup Uploading({KycMoves})
      <4>1. SUFFICES ASSUME job[w].op = "kyc"
                     PROVE  job'[w].todo \in KycLeft \cup Uploading({KycMoves})
        OBVIOUS
      <4>2. KycLeft \subseteq Seq(Tame)
        BY TameLists, TameMoves, TameTyped, LaterNamed DEF KycLeft
      <4>3. job[w].todo \notin KycLeft
        BY <2>4, <4>2, FormsApart
      <4>4. job[w].todo \in Uploading({KycMoves})
        BY <4>1, <4>3 DEF Form
      <4> QED BY <3>3, <4>4 DEF KycLeft
    <3>5. job'[w].todo \in Uploading(Seq(Tame)) \cup Seq(Tame)
      BY <2>4, <3>3
    <3>6. job'[w].todo \notin Judging
      BY <1>2, <3>5, FormsApart
    <3> QED BY <1>2, <2>1, <2>4, <3>1, <3>4, <3>5, <3>6 DEF Form
  <2> QED BY <2>2, <2>3, <2>4 DEF Form
<1> QED BY <1>1, <1>2

-----------------------------------------------------------------------------
(* What the steps that change something do.                                *)

LEMMA InsertRowDoes ==
  ASSUME NEW w \in Worker, IInv, InsertRow(w)
  PROVE  /\ Now(w).do = "row"
         /\ UNCHANGED <<stage, channel, createdBy, paid, login, object, history>>
         /\ \/ stage[job[w].co] = Gone /\ row' = row /\ job'[w].todo = <<>>
            \/ /\ stage[job[w].co] # Gone /\ job'[w].todo = Rest(w)
               /\ Present' = Present \cup {job[w].d}
               /\ \A e \in Present : row'[e] = row[e]
               /\ job[w].d \notin Present =>
                    row'[job[w].d] = [co |-> job[w].co, version |-> job[w].ver,
                                      status |-> job[w].st, known |-> job[w].known,
                                      by |-> Now(w).by]
<1>1. /\ job[w].todo # <<>> /\ Now(w).do = "row"
      /\ UNCHANGED <<stage, channel, createdBy, paid, login, object, history>>
  BY DEF InsertRow, At, Now
<1>2. CASE stage[job[w].co] = Gone
  <2>1. Continue(w, <<>>) /\ row' = row
    BY <1>2 DEF InsertRow
  <2> QED BY <1>1, <1>2, <2>1, Goes
<1>3. CASE stage[job[w].co] # Gone
  <2> DEFINE new == [co |-> job[w].co, version |-> job[w].ver, status |-> job[w].st,
                     known |-> job[w].known, by |-> Now(w).by]
             d == job[w].d
  <2>1. /\ Continue(w, Rest(w))
        /\ row' = [e \in Present \cup {d} |-> IF e \in Present THEN row[e] ELSE new]
    BY <1>3 DEF InsertRow
  <2>2. job'[w].todo = Rest(w)
    BY <1>1, <2>1, Goes
  <2> HIDE DEF new
  <2>3. Present' = Present \cup {d}
    BY <2>1 DEF Present
  <2>4. /\ \A e \in Present : row'[e] = row[e]
        /\ d \notin Present => row'[d] = new
    BY <2>1
  <2> QED BY <1>1, <1>3, <2>2, <2>3, <2>4 DEF new
<1> QED BY <1>2, <1>3

LEMMA UpdateStatusDoes ==
  ASSUME NEW w \in Worker, IInv, UpdateStatus(w)
  PROVE  /\ Now(w).do = "status" /\ Present' = Present
         /\ UNCHANGED <<stage, channel, createdBy, paid, login, object, history>>
         /\ \A e \in Present :
              /\ row'[e] \in {row[e], [co |-> row[e].co, version |-> row[e].version,
                                       status |-> job[w].st, known |-> row[e].known,
                                       by |-> row[e].by]}
              /\ row'[e] # row[e] => e = job[w].d
<1> DEFINE d == job[w].d
           new(e) == [co |-> row[e].co, version |-> row[e].version, status |-> job[w].st,
                      known |-> row[e].known, by |-> row[e].by]
<1>1. /\ job[w].todo # <<>> /\ Now(w).do = "status"
      /\ UNCHANGED <<stage, channel, createdBy, paid, login, object, history>>
  BY DEF UpdateStatus, At, Now
<1>2. CASE row' = row
  BY <1>1, <1>2 DEF Present
<1>3. CASE row' # row
  <2>1. d \in Present /\ row' = [row EXCEPT ![d].status = job[w].st]
    BY <1>3 DEF UpdateStatus
  <2>2. Present' = Present /\ \A e \in Present \ {d} : row'[e] = row[e]
    BY <2>1 DEF Present, IInv, Typed
  <2>3. row'[d] = [row[d] EXCEPT !.status = job[w].st]
    BY <2>1 DEF Present, IInv, Typed
  <2>4. row'[d] = new(d)
    BY <2>1, <2>3 DEF IInv, Typed, RowOK
  <2> HIDE DEF new
  <2>5. \A e \in Present : row'[e] \in {row[e], new(e)} /\ (row'[e] # row[e] => e = d)
    BY <2>2, <2>4
  <2> QED BY <1>1, <2>2, <2>5 DEF new
<1> QED BY <1>2, <1>3

\* A stage is written, by its own step or with a change of the profile.
LEMMA StageWritten ==
  ASSUME NEW w \in Worker, IInv, Form(job[w]), writeStage(w) \/ saveProfile(w)
  PROVE  /\ Now(w).do \in {"write", "save"} /\ job[w].todo \in Seq(Tame)
         /\ UNCHANGED <<createdBy, paid, login, row, object>>
         /\ \A c \in Company \ {job[w].co} : stage'[c] = stage[c] /\ history'[c] = history[c]
         /\ \A c \in {job[w].co} :
              \/ stage[c] = Gone /\ stage'[c] = Gone /\ history'[c] = history[c]
              \/ /\ stage[c] # Gone /\ Now(w).do = "save" /\ Now(w).to = "same"
                 /\ stage'[c] = stage[c]
                 /\ history[c] \subseteq history'[c]
                 /\ history'[c] \subseteq history[c] \cup {"redirected"}
                 /\ job'[w].todo = Rest(w)
              \/ /\ stage[c] # Gone /\ Now(w).to \in Later /\ stage'[c] = Now(w).to
                 /\ Moved(w, Now(w).to) \subseteq history'[c]
                 /\ history[c] \subseteq history'[c]
                 /\ history'[c] \subseteq history[c] \cup Moved(w, Now(w).to) \cup {"redirected"}
                 /\ job'[w].todo = Rest(w)
<1>1. /\ job[w].todo # <<>> /\ Now(w).do \in {"write", "save"}
      /\ UNCHANGED <<createdBy, paid, login, row, object>>
  BY DEF writeStage, saveProfile, At, Now
<1>2. job[w].todo \in Seq(Tame) /\ Now(w) \in Tame
  BY <1>1, HeadForms, TameLists DEF TameDo, Now
<1>3. PICK c \in Company : c = job[w].co
  BY <1>1, Heads DEF IInv
<1>4. /\ Now(w).do = "write" => Now(w).to \in Later
      /\ Now(w).do = "save" => Now(w).to \in Later \cup {"same"}
  BY <1>2 DEF Tame
<1>5. "same" \notin Later
  BY DEF Later, Stage
<1>6. CASE writeStage(w)
  <2>0. Now(w).do = "write"
    BY <1>6 DEF writeStage, At, Now
  <2>1. CASE stage[c] = Gone
    <3>1. UNCHANGED <<stage, history>>
      BY <1>3, <1>6, <2>1 DEF writeStage
    <3> QED BY <1>1, <1>2, <1>3, <2>1, <3>1
  <2>2. CASE stage[c] # Gone
    <3> DEFINE notes == Moved(w, Now(w).to)
               to == Now(w).to
    <3>1. /\ stage' = [stage EXCEPT ![c] = to]
          /\ history' = [history EXCEPT ![c] = @ \cup notes]
          /\ Continue(w, Rest(w))
      BY <1>3, <1>6, <2>2 DEF writeStage
    <3>2. job'[w].todo = Rest(w)
      BY <1>1, <3>1, Goes
    <3> HIDE DEF notes, to
    <3>3. /\ stage'[c] = to /\ history'[c] = history[c] \cup notes
          /\ \A b \in Company \ {c} : stage'[b] = stage[b] /\ history'[b] = history[b]
      BY <3>1 DEF IInv, Typed
    <3> QED BY <1>1, <1>2, <1>3, <1>4, <2>0, <2>2, <3>2, <3>3 DEF notes, to
  <2> QED BY <2>1, <2>2
<1>7. CASE saveProfile(w)
  <2>0. Now(w).do = "save" /\ Continue(w, Rest(w))
    BY <1>7 DEF saveProfile, At, Now
  <2>1. CASE stage[c] = Gone
    <3>1. UNCHANGED <<stage, history>>
      BY <1>3, <1>7, <2>1 DEF saveProfile
    <3> QED BY <1>1, <1>2, <1>3, <2>1, <3>1
  <2>2. CASE stage[c] # Gone
    <3> DEFINE to == Now(w).to
               more == IF Now(w).ch # channel[c]
                          /\ \E v \in Worker : job[v].op = "activate" /\ job[v].co = c
                         THEN {"redirected"} ELSE {}
               notes == (IF to = "same" THEN {} ELSE Moved(w, to)) \cup more
    <3>1. /\ stage' = IF to = "same" THEN stage ELSE [stage EXCEPT ![c] = to]
          /\ history' = [history EXCEPT ![c] = @ \cup notes]
      BY <1>3, <1>7, <2>2 DEF saveProfile
    <3>2. job'[w].todo = Rest(w)
      BY <1>1, <2>0, Goes
    <3>3. more \subseteq {"redirected"}
      OBVIOUS
    <3> HIDE DEF more
    <3>4. /\ to = "same" => notes \subseteq {"redirected"}
          /\ to # "same" => /\ Moved(w, to) \subseteq notes
                            /\ notes \subseteq Moved(w, to) \cup {"redirected"}
      BY <3>3
    <3> HIDE DEF notes, to
    <3>5. /\ stage'[c] = IF to = "same" THEN stage[c] ELSE to
          /\ history'[c] = history[c] \cup notes
          /\ \A b \in Company \ {c} : stage'[b] = stage[b] /\ history'[b] = history[b]
      BY <3>1 DEF IInv, Typed
    <3>6. CASE to = "same"
      <4>1. history[c] \subseteq history'[c] /\ history'[c] \subseteq history[c] \cup {"redirected"}
        BY <3>4, <3>5, <3>6
      <4> QED BY <1>1, <1>2, <1>3, <2>0, <2>2, <3>2, <3>5, <3>6, <4>1 DEF to
    <3>7. CASE to # "same"
      <4>1. /\ Moved(w, to) \subseteq history'[c] /\ history[c] \subseteq history'[c]
            /\ history'[c] \subseteq history[c] \cup Moved(w, to) \cup {"redirected"}
        BY <3>4, <3>5, <3>7
      <4>2. to \in Later
        BY <1>4, <2>0, <3>7 DEF to
      <4> QED BY <1>1, <1>2, <1>3, <2>0, <2>2, <3>2, <3>5, <3>7, <4>1, <4>2 DEF to
    <3> QED BY <3>6, <3>7
  <2> QED BY <2>1, <2>2
<1> QED BY <1>6, <1>7

LEMMA deleteClientProfileDoes ==
  ASSUME NEW w \in Worker, IInv, deleteClientProfile(w)
  PROVE  /\ Now(w).do = "drop" /\ UNCHANGED <<channel, createdBy, login, object, history>>
         /\ \/ stage[job[w].co] = Gone /\ UNCHANGED <<stage, row>> /\ job'[w].todo = <<>>
            \/ /\ stage[job[w].co] # Gone /\ stage'[job[w].co] = Gone
               /\ \A c \in Company \ {job[w].co} : stage'[c] = stage[c]
               /\ Present' = Present \ DocsOf(job[w].co)
               /\ \A d \in Present' : row'[d] = row[d]
               /\ job'[w].todo = Rest(w)
<1>1. /\ job[w].todo # <<>> /\ Now(w).do = "drop"
      /\ UNCHANGED <<channel, createdBy, login, object, history>>
  BY DEF deleteClientProfile, At, Now
<1>2. CASE stage[job[w].co] = Gone
  <2>1. Continue(w, <<>>) /\ UNCHANGED <<stage, row>>
    BY <1>2 DEF deleteClientProfile
  <2> QED BY <1>1, <1>2, <2>1, Goes
<1>3. CASE stage[job[w].co] # Gone
  <2>1. /\ stage' = [stage EXCEPT ![job[w].co] = Gone]
        /\ row' = [d \in Present \ DocsOf(job[w].co) |-> row[d]]
        /\ Continue(w, Rest(w))
    BY <1>3 DEF deleteClientProfile
  <2>2. job'[w].todo = Rest(w) /\ job[w].co \in Company
    BY <1>1, <2>1, Goes
  <2>3. /\ stage'[job[w].co] = Gone
        /\ \A c \in Company \ {job[w].co} : stage'[c] = stage[c]
    BY <2>1, <2>2 DEF IInv, Typed
  <2>4. Present' = Present \ DocsOf(job[w].co) /\ \A d \in Present' : row'[d] = row[d]
    BY <2>1 DEF Present
  <2> QED BY <1>1, <1>3, <2>2, <2>3, <2>4
<1> QED BY <1>2, <1>3

-----------------------------------------------------------------------------
(* Types: the first invariant.                                             *)

Forms == \A w \in Worker : Form(job[w])

Fields ==
  /\ createdBy \in [Company -> {"ADMIN", "AGGREGATOR"}]
  /\ login \in [Company -> {"linked", "detached", "deleted"}]
  /\ object \subseteq Doc /\ Present \subseteq Doc
  /\ \A d \in Present : row[d] \in Row
  /\ \A w \in Worker : job[w].known \subseteq Doc /\ job[w].ver \in Nat \ {0}

Formed == IInv /\ Forms /\ Early /\ Fields

LEMMA PutObjectDoes ==
  ASSUME NEW w \in Worker, IInv, PutObject(w)
  PROVE  /\ Now(w).do = "put" /\ object' = object \cup {job[w].d} /\ job'[w].todo = Rest(w)
         /\ UNCHANGED <<stage, channel, createdBy, paid, login, row, history>>
BY Goes DEF PutObject, At, Now

LEMMA disconnectUsersDoes ==
  ASSUME NEW w \in Worker, IInv, Fields, disconnectUsers(w)
  PROVE  /\ Now(w).do = "unlink" /\ job'[w].todo = Rest(w)
         /\ UNCHANGED <<stage, channel, createdBy, paid, row, object>>
         /\ login'[job[w].co] = IF login[job[w].co] = "linked" THEN "detached"
                                ELSE login[job[w].co]
         /\ history[job[w].co] \subseteq history'[job[w].co]
         /\ Removing(job[w].co) # {w} => "removed twice" \in history'[job[w].co]
         /\ \A c \in Company \ {job[w].co} : login'[c] = login[c] /\ history'[c] = history[c]
         /\ login' \in [Company -> {"linked", "detached", "deleted"}]
<1>1. /\ job[w].todo # <<>> /\ Now(w).do = "unlink" /\ Continue(w, Rest(w))
      /\ UNCHANGED <<stage, channel, createdBy, paid, row, object>>
  BY DEF disconnectUsers, At, Now
<1>2. job'[w].todo = Rest(w) /\ job[w].co \in Company
  BY <1>1, Goes
<1> DEFINE c == job[w].co
           twice == Removing(c) # {w}
<1>3. /\ login' = [login EXCEPT ![c] = IF @ = "linked" THEN "detached" ELSE @]
      /\ history' = [history EXCEPT ![c] = IF twice THEN @ \cup {"removed twice"} ELSE @]
  BY DEF disconnectUsers
<1> HIDE DEF twice, c
<1>4. c \in Company
  BY <1>2 DEF c
<1>5. /\ login'[c] = IF login[c] = "linked" THEN "detached" ELSE login[c]
      /\ \A b \in Company \ {c} : login'[b] = login[b]
      /\ login' \in [Company -> {"linked", "detached", "deleted"}]
  BY <1>3, <1>4 DEF Fields
<1>6. /\ history'[c] = IF twice THEN history[c] \cup {"removed twice"} ELSE history[c]
      /\ \A b \in Company \ {c} : history'[b] = history[b]
  BY <1>3, <1>4 DEF IInv, Typed
<1>7. history[c] \subseteq history'[c] /\ (twice => "removed twice" \in history'[c])
  BY <1>6
<1> QED BY <1>1, <1>2, <1>5, <1>6, <1>7 DEF c, twice

LEMMA deleteFilesDoes ==
  ASSUME NEW w \in Worker, IInv, deleteFiles(w)
  PROVE  /\ Now(w).do = "files" /\ job'[w].todo = Rest(w)
         /\ UNCHANGED <<stage, channel, createdBy, paid, login, row, history>>
         /\ object' \subseteq object /\ object \ DocsOf(job[w].co) \subseteq object'
<1>1. /\ Now(w).do = "files" /\ job'[w].todo = Rest(w)
      /\ UNCHANGED <<stage, channel, createdBy, paid, login, row, history>>
  BY Goes DEF deleteFiles, At, Now
<1>2. PICK stay : object' = object \ (DocsOf(job[w].co) \ stay)
  BY DEF deleteFiles
<1> QED BY <1>1, <1>2

LEMMA deleteUsersDoes ==
  ASSUME NEW w \in Worker, IInv, Fields, deleteUsers(w)
  PROVE  /\ Now(w).do = "users" /\ job'[w].todo = Rest(w)
         /\ UNCHANGED <<stage, channel, createdBy, paid, row, object, history>>
         /\ login'[job[w].co] = IF job[w].st = "linked" THEN "deleted" ELSE login[job[w].co]
         /\ \A c \in Company \ {job[w].co} : login'[c] = login[c]
         /\ login' \in [Company -> {"linked", "detached", "deleted"}]
<1>1. /\ job[w].todo # <<>> /\ Now(w).do = "users" /\ Continue(w, Rest(w))
      /\ UNCHANGED <<stage, channel, createdBy, paid, row, object, history>>
  BY DEF deleteUsers, At, Now
<1>2. job'[w].todo = Rest(w) /\ job[w].co \in Company
  BY <1>1, Goes
<1>3. login' = [login EXCEPT ![job[w].co] = IF job[w].st = "linked" THEN "deleted" ELSE @]
  BY DEF deleteUsers
<1> QED BY <1>1, <1>2, <1>3 DEF Fields

\* What may happen, once every endpoint begins as it should.
LEMMA Kinds ==
  ASSUME Formed, Next
  PROVE  \/ \E w \in Worker : Step(w) /\ Form(job[w]) /\ Went(w)
         \/ \E w \in Worker, c \in Company : Begun(w, c)
         \/ \E c \in Company : onPaymentConfirmed(c)
         \/ Crash
<1>1. ASSUME NEW w \in Worker, Step(w)
      PROVE  Form(job[w]) /\ Went(w)
  BY <1>1, StepsGo DEF Formed, Forms
<1>2. ASSUME NEW w \in Worker, NEW c \in Company,
             Manage(w, c) \/ \E d \in Doc : Upload(w, c, d) \/ Share(w, c, d)
      PROVE  Begun(w, c)
  BY <1>2, ManagesBegin, UploadsBegin, SharesBegin DEF Formed
<1>3. ASSUME NEW w \in Worker, NEW d \in Doc, Review(w, d)
      PROVE  \E c \in Company : Begun(w, c)
  BY <1>3, ReviewsBegin DEF Formed
<1> QED BY <1>1, <1>2, <1>3 DEF Next

LEMMA FieldsGoOn ==
  ASSUME NEW w \in Worker, Formed, Form(job[w]), Went(w), Step(w)
  PROVE  Fields'
<1> USE DEF Formed
<1>0. job[w].todo # <<>>
  BY DEF Went
<1>f. ASSUME object' \subseteq Doc, Present' \subseteq Doc, \A d \in Present' : row'[d] \in Row,
             createdBy' = createdBy,
             login' \in [Company -> {"linked", "detached", "deleted"}],
             job'[w].todo # <<>> => job'[w].known \subseteq Doc /\ job'[w].ver \in Nat \ {0}
      PROVE  Fields'
  <2>1. \A v \in Worker : job'[v].known \subseteq Doc /\ job'[v].ver \in Nat \ {0}
    <3>1. job'[w].todo = <<>> => job'[w].known = {} /\ job'[w].ver = 1
      BY DEF Went, Idle
    <3> QED BY <1>f, <3>1 DEF Went, Fields
  <2> QED BY <1>f, <2>1 DEF Fields
<1>1. CASE ReadVersion(w)
  <2>1. /\ Quiet /\ job'[w].known = DocsLike(job[w].co, TypeOf[job[w].d]) \cap Now(w).among
        /\ job'[w].ver \in VersionAfter(job'[w].known)
    BY <1>1, VersionsRead
  <2>2. PICK S : S = job'[w].known
    OBVIOUS
  <2>3. S \subseteq Present
    BY <2>1, <2>2 DEF DocsLike, DocsOf
  <2>4. \A v \in VersionAfter(S) : v \in Nat \ {0}
    BY <2>3 DEF VersionAfter, Newest, Fields, Row
  <2> QED BY <1>f, <2>1, <2>2, <2>3, <2>4 DEF Quiet, Fields, Present
<1>2. CASE Now(w).do # "version" /\ UNCHANGED <<createdBy, login, row, object>>
  BY <1>f, <1>2 DEF Went, Fields, Present
<1>3. CASE PutObject(w)
  <2>1. Now(w).do = "put" /\ object' = object \cup {job[w].d}
        /\ UNCHANGED <<createdBy, login, row>>
    BY <1>3, PutObjectDoes
  <2>2. job[w].d \in Doc
    BY <1>0, <2>1, HeadForms DEF Form
  <2> QED BY <1>f, <2>1, <2>2 DEF Went, Fields, Present
<1>4. CASE InsertRow(w)
  <2>1. Now(w).do = "row" /\ UNCHANGED <<createdBy, login, object>>
    BY <1>4, InsertRowDoes
  <2>2. /\ job[w].d \in Doc /\ job[w].st \in DocumentStatus /\ job[w].co \in Company
        /\ Now(w).by \in {"server", "presigned"}
    <3>1. Now(w) \in AStep
      BY <1>0, Heads DEF IInv
    <3> QED BY <1>0, <2>1, <3>1, HeadForms DEF Form, Went, AStep
  <2>3. Present' \subseteq Doc /\ \A d \in Present' : row'[d] \in Row
    <3>1. CASE row' = row
      BY <3>1 DEF Fields, Present
    <3>2. CASE row' # row
      <4> DEFINE new == [co |-> job[w].co, version |-> job[w].ver, status |-> job[w].st,
                         known |-> job[w].known, by |-> Now(w).by]
      <4>1. /\ Present' = Present \cup {job[w].d} /\ \A e \in Present : row'[e] = row[e]
            /\ job[w].d \notin Present => row'[job[w].d] = new
        BY <1>4, <3>2, InsertRowDoes
      <4>2. new \in Row
        BY <2>2 DEF Row, Fields
      <4> HIDE DEF new
      <4> QED BY <2>2, <4>1, <4>2 DEF Fields
    <3> QED BY <3>1, <3>2
  <2> QED BY <1>f, <2>1, <2>3 DEF Went, Fields
<1>5. CASE UpdateStatus(w)
  <2>1. Now(w).do = "status" /\ UNCHANGED <<createdBy, login, object>> /\ Present' = Present
    BY <1>5, UpdateStatusDoes
  <2>2. job[w].st \in DocumentStatus
    BY <1>0, <2>1, HeadForms DEF Form
  <2>3. ASSUME NEW e \in Present
        PROVE  row'[e] \in Row
    <3> DEFINE new == [co |-> row[e].co, version |-> row[e].version, status |-> job[w].st,
                       known |-> row[e].known, by |-> row[e].by]
    <3>1. row'[e] \in {row[e], new}
      BY <1>5, UpdateStatusDoes
    <3>2. row[e] \in Row /\ new \in Row
      BY <2>2 DEF Fields, Row
    <3> HIDE DEF new
    <3> QED BY <3>1, <3>2
  <2> QED BY <1>f, <2>1, <2>3 DEF Went, Fields
<1>6. CASE deleteClientProfile(w)
  <2>1. Now(w).do = "drop" /\ UNCHANGED <<createdBy, login, object>>
    BY <1>6, deleteClientProfileDoes
  <2>2. Present' \subseteq Present /\ \A d \in Present' : row'[d] = row[d]
    BY <1>6, deleteClientProfileDoes DEF Present
  <2> QED BY <1>f, <2>1, <2>2 DEF Went, Fields
<1>7. CASE disconnectUsers(w) \/ deleteUsers(w)
  <2>1. /\ Now(w).do # "version" /\ UNCHANGED <<createdBy, row, object>>
        /\ login' \in [Company -> {"linked", "detached", "deleted"}]
    BY <1>7, disconnectUsersDoes, deleteUsersDoes
  <2> QED BY <1>f, <2>1 DEF Went, Fields, Present
<1>8. CASE deleteFiles(w)
  <2>1. /\ Now(w).do = "files" /\ UNCHANGED <<createdBy, login, row>> /\ object' \subseteq object
    BY <1>8, deleteFilesDoes
  <2> QED BY <1>f, <2>1 DEF Went, Fields, Present
<1>9. CASE writeStage(w) \/ saveProfile(w)
  BY <1>2, <1>9, StageWritten
<1>10. CASE Looks(w)
  BY <1>2, <1>10, Looking DEF Quiet, TameDo
<1> QED BY <1>1, <1>3, <1>4, <1>5, <1>6, <1>7, <1>8, <1>9, <1>10 DEF Step, Looks

\* The stage of a company changes only by a write, a payment or its removal.
LEMMA StagesGoOn ==
  ASSUME NEW w \in Worker, Formed, Form(job[w]), Step(w), NEW c \in Company
  PROVE  /\ \/ stage'[c] = stage[c]
            \/ stage[c] # Gone /\ stage'[c] \in Later \cup {Gone} /\ c = job[w].co
         /\ stage'[c] # stage[c] =>
              writeStage(w) \/ saveProfile(w) \/ deleteClientProfile(w)
         /\ createdBy' = createdBy
<1>1. CASE writeStage(w) \/ saveProfile(w)
  BY <1>1, StageWritten DEF Formed
<1>2. CASE deleteClientProfile(w)
  BY <1>2, deleteClientProfileDoes DEF Formed
<1>3. CASE ~(writeStage(w) \/ saveProfile(w) \/ deleteClientProfile(w))
  <2>1. CASE Looks(w)
    BY <2>1, Looking DEF Quiet, Formed
  <2>2. CASE ~Looks(w)
    BY <1>3, <2>2 DEF Step, Looks, ReadVersion, PutObject, InsertRow, UpdateStatus,
       disconnectUsers, deleteFiles, deleteUsers
  <2> QED BY <2>1, <2>2
<1> QED BY <1>1, <1>2, <1>3

LEMMA FormedInit == Init => Formed
<1> SUFFICES ASSUME Init PROVE Formed
  OBVIOUS
<1>1. IInv
  BY InitOK
<1>2. Forms
  BY IdleForm DEF Init, Forms
<1>3. PICK old \in SUBSET Company :
        /\ \A c \in old : channel[c] = "DIRECT"
        /\ stage = [c \in Company |-> IF c \in old THEN "KYC_REVIEW"
                                      ELSE IF channel[c] = "DIRECT" THEN "PAYMENT_PENDING"
                                      ELSE "KYC_IN_PROGRESS"]
        /\ \E of \in [KycDocs -> old \cup {"none"}] :
             row = [d \in {e \in KycDocs : of[e] # "none"} |->
                      [co |-> of[d], version |-> 1, status |-> "REVIEW_PENDING",
                       known |-> {}, by |-> "server"]]
  BY DEF Init
<1>4. Early
  BY <1>3 DEF Init, Early
<1>5. /\ createdBy \in [Company -> {"ADMIN", "AGGREGATOR"}]
      /\ login \in [Company -> {"linked", "detached", "deleted"}]
      /\ object = Present
      /\ \A w \in Worker : job[w].known \subseteq Doc /\ job[w].ver \in Nat \ {0}
  <2>1. createdBy \in [Company -> {"ADMIN", "AGGREGATOR"}]
    BY DocumentsAssumption DEF Init
  <2>2. login \in [Company -> {"linked", "detached", "deleted"}] /\ object = Present
    BY DEF Init, Present
  <2>3. job = [w \in Worker |-> Idle]
    BY DEF Init
  <2>4. Idle.known = {} /\ Idle.ver = 1
    BY DEF Idle
  <2> HIDE DEF Idle
  <2> QED BY <2>1, <2>2, <2>3, <2>4
<1>6. Present \subseteq Doc /\ \A d \in Present : row[d] \in Row
  <2>1. PICK of \in [KycDocs -> old \cup {"none"}] :
          row = [d \in {e \in KycDocs : of[e] # "none"} |->
                   [co |-> of[d], version |-> 1, status |-> "REVIEW_PENDING",
                    known |-> {}, by |-> "server"]]
    BY <1>3
  <2>2. Present = {e \in KycDocs : of[e] # "none"}
    BY <2>1 DEF Present
  <2>3. \A d \in Present : row[d] \in Row
    BY <2>1, <2>2 DEF Row, DocumentStatus
  <2> QED BY <2>2, <2>3 DEF KycDocs
<1> QED BY <1>1, <1>2, <1>4, <1>5, <1>6 DEF Formed, Fields

LEMMA FormedKept ==
  ASSUME Formed, [Next]_vars
  PROVE  Formed'
<1>1. IInv'
  BY StepsKept DEF Formed
<1>2. ASSUME NEW w \in Worker, Step(w), Form(job[w]), Went(w)
      PROVE  Formed'
  <2>1. Forms'
    BY <1>2, FormGoesOn DEF Formed, Forms, Went
  <2>2. Early'
    BY <1>2, StagesGoOn DEF Formed, Early, Later, Gone
  <2> QED BY <1>1, <1>2, <2>1, <2>2, FieldsGoOn DEF Formed
<1>3. ASSUME NEW w \in Worker, NEW c \in Company, Begun(w, c)
      PROVE  Formed'
  <2>1. Forms'
    BY <1>3 DEF Formed, Forms, Begun
  <2>2. Early'
    BY <1>3 DEF Formed, Early, Begun
  <2>3. Fields'
    BY <1>3 DEF Formed, Fields, Begun, Present
  <2> QED BY <1>1, <2>1, <2>2, <2>3 DEF Formed
<1>4. ASSUME NEW c \in Company, onPaymentConfirmed(c)
      PROVE  Formed'
  <2>1. Forms' /\ Fields'
    BY <1>4 DEF Formed, Forms, Fields, Present, onPaymentConfirmed
  <2>2. Early'
    BY <1>4 DEF onPaymentConfirmed, Formed, Early, IInv, Typed
  <2> QED BY <1>1, <2>1, <2>2 DEF Formed
<1>5. CASE Crash
  <2>1. Forms' /\ Fields' /\ Early'
    BY <1>5, IdleForm DEF Formed, Forms, Fields, Early, Present, Crash, Idle
  <2> QED BY <1>1, <2>1 DEF Formed
<1>6. CASE UNCHANGED vars
  <2>1. Forms' /\ Fields' /\ Early'
    BY <1>6 DEF Formed, Forms, Fields, Early, Present, vars
  <2> QED BY <1>1, <2>1 DEF Formed
<1> QED BY <1>2, <1>3, <1>4, <1>5, <1>6, Kinds

\* In every state what a request has left to do is of a form that its endpoint gives it, and
\* no company that an aggregator brings waits for a payment (Begin, Continue, onPaymentConfirmed).
THEOREM Forming == Spec => []Formed
BY FormedInit, FormedKept, PTL DEF Spec

\* Every variable has its type, in every state, whatever requests interleave (TypeOK).
THEOREM Typing == Spec => []TypeOK
<1>1. Formed => TypeOK
  BY DEF Formed, IInv, Typed, JobsOK, JobOK, Forms, Form, Fields, TypeOK
<1> QED BY <1>1, Forming, PTL

=============================================================================
