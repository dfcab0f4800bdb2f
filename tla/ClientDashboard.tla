--------------------------- MODULE ClientDashboard ---------------------------
(***************************************************************************)
(* How far a client's onboarding has come, as the client's dashboard tells *)
(* it five times over (src/frontend/src/pages/Dashboard.tsx with its       *)
(* stepper, card, summaries, timeline and notice) and as the page of a     *)
(* company tells an admin or an aggregator.  The company and its documents *)
(* come in two answers, which may be of two moments.                       *)
(***************************************************************************)
EXTENDS OnboardingStages, Sequences

CONSTANTS
  MaxMoves, \* bound: changes at the server
  MaxVisits \* bound: visits of the dashboard

Filed == {"draft", "final", "rejected"}

VARIABLES
  client,    \* channel and onboardingStage at the server
  filed,     \* kinds of documents it holds, among them a rejected one
  awaited,   \* the requests that were not answered yet
  dashboard, \* view, company and documents, as loaded
  stale,     \* the server changed since the first of the two answers (history)
  before,    \* the stage shown at the visit before, if one was (history)
  lapsed,    \* the stage was set to REJECTED, or to one of an older onboarding (history)
  moves, visits

dashboardVars == <<client, filed, awaited, dashboard, stale, before, lapsed, moves, visits>>

Blank == [view |-> "loading", stage |-> "none", documents |-> {}]

DashboardInit ==
  /\ client \in [channel : {"DIRECT", "AGGREGATOR"}, stage : Stage]
  /\ filed \in SUBSET {"rejected"}
  /\ awaited = {"company", "documents"} /\ dashboard = Blank
  /\ stale = FALSE /\ before = "none" /\ lapsed = FALSE /\ moves = 0 /\ visits = 1

-----------------------------------------------------------------------------
(* The steps of the onboarding, src/frontend/src/onboardingSteps.ts.       *)
ONBOARDING_STEPS ==
  <<{"ADMIN_CREATED"}, {"PAYMENT_PENDING", "PAYMENT_CONFIRMED"},
    {"KYC_IN_PROGRESS", "KYC_REVIEW"}, {"AGREEMENT_DRAFT_SHARED"},
    {"SIGNED_AGREEMENT_RECEIVED"}, {"FINAL_AGREEMENT_SHARED"}, {"ACTIVE", "COMPLETED"}>>

AGGREGATOR_VIEW_ONBOARDING_STEPS ==
  <<{"ADMIN_CREATED", "PAYMENT_PENDING", "PAYMENT_CONFIRMED", "KYC_IN_PROGRESS"},
    {"KYC_REVIEW"},
    {"AGREEMENT_DRAFT_SHARED", "SIGNED_AGREEMENT_RECEIVED", "FINAL_AGREEMENT_SHARED"},
    {"ACTIVE", "COMPLETED"}>>

\* A client of an aggregator has no step of payment.
getOnboardingSteps(channel, view) ==
  IF channel = "DIRECT" THEN ONBOARDING_STEPS
  ELSE IF view = "aggregator" THEN AGGREGATOR_VIEW_ONBOARDING_STEPS
  ELSE <<ONBOARDING_STEPS[1]>> \o SubSeq(ONBOARDING_STEPS, 3, Len(ONBOARDING_STEPS))

HasStep(stage) == \E i \in DOMAIN ONBOARDING_STEPS : stage \in ONBOARDING_STEPS[i]

\* The number of the step, from 1; none is current in a company that is rejected, and the
\* stages that the steps do not know belong to the first.
IndexIn(steps, stage) ==
  LET found == {i \in DOMAIN steps : stage \in steps[i]}
  IN CASE stage = "REJECTED" -> 0
     [] found # {} -> CHOOSE i \in found : TRUE
     [] OTHER -> 1

IndexOfAll(stage, channel, view) == IndexIn(ONBOARDING_STEPS, stage) \* a slip
getStepIndex(stage, channel, view) == IndexIn(getOnboardingSteps(channel, view), stage)

\* A percentage, to the nearest one.
Share(k, n) == (200 * k + n) \div (2 * n)

\* The steps ticked off when `index' is the current one of n; the last two are ticked off
\* as soon as they are reached.
Ticked(index, n) == {i \in 1..n : i < index \/ (i = index /\ i >= n - 1)}

Stepper(stage, channel, view) ==
  LET n     == Len(getOnboardingSteps(channel, view))
      index == getStepIndex(stage, channel, view)
  IN [done    |-> Ticked(index, n),
      percent |-> Share(IF index = 0 THEN 0 ELSE index - 1, n - 1),
      current |-> {index} \ ({0} \cup Ticked(index, n))]

\* The timeline has the steps of a direct client, and the first is current in a company
\* that is rejected.
TimelineView(stage) ==
  LET index == getStepIndex(stage, "DIRECT", "client")
      from  == IF index = 0 THEN 1 ELSE index
  IN [done    |-> Ticked(from, Len(ONBOARDING_STEPS)),
      current |-> {from} \ Ticked(from, Len(ONBOARDING_STEPS))]

\* What the stepper says that the onboarding waits for.
getActionHint(stage, view) ==
  CASE stage \in {"ADMIN_CREATED", "PAYMENT_PENDING", "PAYMENT_CONFIRMED"} ->
         IF view = "aggregator" \/ stage = "PAYMENT_CONFIRMED" THEN "kyc" ELSE "payment"
  [] stage = "KYC_IN_PROGRESS" -> "kyc"
  [] stage = "AGREEMENT_DRAFT_SHARED" -> "sign"
  [] stage \in {"KYC_REVIEW", "SIGNED_AGREEMENT_RECEIVED", "FINAL_AGREEMENT_SHARED"} -> "admin"
  [] stage \in {"ACTIVE", "COMPLETED"} -> "done"
  [] OTHER -> "other"

\* What the card asks the client for, and what its button is for; the dashboard gives the
\* card no link to pay by.
getActionConfig(stage, documents) ==
  CASE stage = "PAYMENT_PENDING" -> <<"payment", "soon">>
  [] stage \in {"PAYMENT_CONFIRMED", "KYC_IN_PROGRESS"} -> <<"kyc", "documents">>
  [] stage = "AGREEMENT_DRAFT_SHARED" ->
       <<"sign", IF "draft" \in documents THEN "draft" ELSE "documents">>
  [] stage = "FINAL_AGREEMENT_SHARED" ->
       <<"admin", IF "final" \in documents THEN "final" ELSE "documents">>
  [] stage \in {"KYC_REVIEW", "SIGNED_AGREEMENT_RECEIVED"} -> <<"admin", "none">>
  [] stage \in {"ACTIVE", "COMPLETED"} -> <<"done", "documents">>
  [] OTHER -> <<"other", "none">>

\* The status of each summary card.
SummaryCards(stage) ==
  LET index == getStepIndex(stage, "DIRECT", "client")
  IN [payment    |-> IF index >= 3 \/ stage = "PAYMENT_CONFIRMED" THEN "completed" ELSE "pending",
      kyc        |-> CASE stage \in {"PAYMENT_CONFIRMED", "KYC_IN_PROGRESS"} -> "pending"
                     [] stage = "KYC_REVIEW" -> "under_review"
                     [] index >= 4 -> "approved"
                     [] OTHER -> "none",
      agreement  |-> CASE index = 4 -> "draft_shared" [] index = 5 -> "signed"
                     [] index >= 6 -> "final" [] OTHER -> "none",
      activation |-> IF index = 7 THEN "active" ELSE "pending"]

\* The strip above all that.
getNotification(stage, documents) ==
  IF "rejected" \in documents THEN "rejected" ELSE
  CASE stage = "AGREEMENT_DRAFT_SHARED" /\ "draft" \in documents -> "draft"
  [] stage = "FINAL_AGREEMENT_SHARED" /\ "final" \in documents -> "final"
  [] OTHER -> "none"

-----------------------------------------------------------------------------
\* A client sees the draft of the agreement in one stage only.
findMyDocuments ==
  IF client.stage = "AGREEMENT_DRAFT_SHARED" THEN filed ELSE filed \ {"draft"}

\* What the server lets a client upload.
UploadAllowed(stage) ==
  CASE stage \in {"PAYMENT_CONFIRMED", "KYC_IN_PROGRESS", "KYC_REVIEW"} -> "kyc"
  [] stage = "AGREEMENT_DRAFT_SHARED" -> "sign"
  [] OTHER -> "nothing"

Both == {"company", "documents"}

Answered(what) ==
  /\ what \in awaited /\ awaited' = awaited \ {what}
  /\ dashboard' = [dashboard EXCEPT
       !.view = IF awaited' = {} THEN "shown" ELSE @,
       !.stage = IF what = "company" THEN client.stage ELSE @,
       !.documents = IF what = "documents" THEN findMyDocuments ELSE @]
  /\ UNCHANGED <<client, filed, stale, before, lapsed, moves, visits>>

companyAnswered   == Answered("company")
documentsAnswered == Answered("documents")

\* One answer that fails is enough, and the other comes too late.
loadFailed ==
  /\ awaited # {} /\ awaited' = {}
  /\ dashboard' = [Blank EXCEPT !.view = "error"]
  /\ UNCHANGED <<client, filed, stale, before, lapsed, moves, visits>>

\* The client leaves the page, whose answers find nobody, and comes back.
visitAgain ==
  /\ visits < MaxVisits /\ visits' = visits + 1
  /\ awaited' = Both /\ dashboard' = Blank /\ stale' = FALSE
  /\ before' = IF dashboard.view = "shown" THEN dashboard.stage ELSE before
  /\ UNCHANGED <<client, filed, lapsed, moves>>

ServerChanges ==
  /\ moves < MaxMoves /\ moves' = moves + 1
  /\ stale' = (stale \/ awaited # Both)
  /\ UNCHANGED <<awaited, dashboard, before, visits>>

stageMoves ==
  /\ ServerChanges
  /\ \E s \in Stage :
       /\ CanTransition(client.stage, s) /\ client' = [client EXCEPT !.stage = s]
       /\ lapsed' = (lapsed \/ ~HasStep(s))
  /\ UNCHANGED filed

\* A document that was rejected stays when a new version replaces it.
documentFiled ==
  /\ ServerChanges
  /\ \/ /\ \/ client.stage = "AGREEMENT_DRAFT_SHARED"
           \/ client = [channel |-> "AGGREGATOR", stage |-> "KYC_REVIEW"]
        /\ filed' = filed \cup {"draft"}
     \/ /\ client.stage \in {"SIGNED_AGREEMENT_RECEIVED", "FINAL_AGREEMENT_SHARED", "ACTIVE",
                             "COMPLETED"}
        /\ filed' = filed \cup {"final"}
     \/ filed' = filed \cup {"rejected"}
  /\ UNCHANGED <<client, lapsed>>

DashboardNext ==
  companyAnswered \/ documentsAnswered \/ loadFailed \/ visitAgain \/ stageMoves \/ documentFiled

-----------------------------------------------------------------------------
Shown == dashboard.view = "shown"
Asked == getActionConfig(dashboard.stage, dashboard.documents)[1]

\* Whoever looks at it, the steps ticked off are the first ones, and the onboarding is
\* called complete, by each part of the page, exactly when the company is active.
CompleteWhenActive ==
  Shown => \A view \in {"client", "admin", "aggregator"} :
    LET active  == dashboard.stage \in {"ACTIVE", "COMPLETED"}
        stepper == Stepper(dashboard.stage, client.channel, view)
        n       == Len(getOnboardingSteps(client.channel, view))
    IN /\ \A i \in stepper.done : 1..i \subseteq stepper.done
       /\ active <=> stepper.done = 1..n
       /\ active <=> stepper.percent = 100
       /\ active <=> Asked = "done"
       /\ active <=> Len(ONBOARDING_STEPS) \in TimelineView(dashboard.stage).done
       /\ active <=> SummaryCards(dashboard.stage).activation = "active"
       /\ active <=> getActionHint(dashboard.stage, view) = "done"

\* What the stepper shows is no less than at an earlier visit, unless the company was
\* rejected or taken out of today's onboarding.
ProgressIsKept ==
  Shown /\ before # "none" /\ ~lapsed =>
    Stepper(dashboard.stage, client.channel, "client").percent
      >= Stepper(before, client.channel, "client").percent

\* For a direct client that is not rejected, the stepper and the timeline agree.
OneTimeline ==
  Shown /\ client.channel = "DIRECT" /\ dashboard.stage # "REJECTED" =>
    LET stepper == Stepper(dashboard.stage, "DIRECT", "client")
    IN /\ TimelineView(dashboard.stage)
            = [done |-> stepper.done, current |-> stepper.current]
       /\ 2 \in stepper.done => SummaryCards(dashboard.stage).payment = "completed"

\* What the dashboard asks for, in its card, its hint and its summaries, is what the
\* server takes, unless it changed since; and a draft that is there to be signed is
\* announced, unless there is a rejected document.
AsksForWhatIsTaken ==
  Shown /\ ~stale =>
    /\ \A ask \in {"kyc", "sign"} :
         /\ Asked = ask => UploadAllowed(client.stage) = ask
         /\ Asked = ask <=> getActionHint(dashboard.stage, "client") = ask
    /\ Asked = "kyc" <=> SummaryCards(dashboard.stage).kyc = "pending"
    /\ Asked = "sign" <=> SummaryCards(dashboard.stage).agreement = "draft_shared"
    /\ "rejected" \notin filed =>
         (getNotification(dashboard.stage, dashboard.documents) = "draft"
            <=> client.stage = "AGREEMENT_DRAFT_SHARED" /\ "draft" \in filed)

=============================================================================
